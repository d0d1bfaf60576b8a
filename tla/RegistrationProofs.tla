-------------------------- MODULE RegistrationProofs --------------------------
(***************************************************************************)
(* Registration for every number of rows, numbers and crashes.  First for  *)
(* requests that overlap: types, and an account behind every accepted      *)
(* invitation.  Then for one request at a time: the answers to invitations *)
(* are final, only a pending one makes an account, and a carrier is        *)
(* registered once.                                                        *)
(***************************************************************************)
EXTENDS Registration, TLAPS

AboutInvite == {"carrier", "carrierAccount", "carrierAccept", "common", "driver",
                "decline", "retrieve"}

\* The locals a step relies on.
LocalOK(r) ==
  /\ r \in Locals
  /\ r.step \in AboutInvite => r.invite \in Invites
  /\ r.step = "inviteAccount" => r.company \in Companies
  /\ r.step \in {"inviteAccount", "inviteCarrier", "carrierNew", "register"} => r.email \in Emails
  /\ r.step = "inviteAccount" => r.role \in {"dispatcher", "driver"}
  /\ r.step = "register" => r.role \in {"driver", "client"}
  /\ r.step \in {"inviteCarrier", "carrierNew"} => r.number \in Numbers
  /\ r.step = "confirm" => r.account \in Accounts
  /\ r.step = "edit" => r.company \in Companies

TablesOK ==
  /\ company \in [Companies -> CompanyRow]
  /\ account \in [Accounts -> AccountRow]
  /\ invite \in [Invites -> InviteRow]
  /\ crashes \in 0..MaxCrashes

Typed ==
  /\ TablesOK
  /\ handler \in [Handlers -> Locals]
  /\ \A h \in Handlers : LocalOK(handler[h])

Made(i) == \E a \in Accounts : account[a].invite = i

\* carrier() is about to mark an invitation that has its account.
IInv ==
  /\ Typed
  /\ AcceptedHasAccount
  /\ \A h \in Handlers : handler[h].step = "carrierAccept" => Made(handler[h].invite)

-----------------------------------------------------------------------------
(* Requests in flight. *)

LEMMA IdleOK == LocalOK(Idle)
BY DEF LocalOK, Idle, Locals, Steps, AboutInvite

LEMMA KeepTyped ==
  ASSUME Typed, NEW h \in Handlers, NEW r, LocalOK(r), Keep(h, r)
  PROVE  /\ handler' \in [Handlers -> Locals]
         /\ \A g \in Handlers : LocalOK(handler'[g])
         /\ handler'[h] = r
         /\ \A g \in Handlers : g # h => handler'[g] = handler[g]
<1>1. r \in Locals
  BY DEF LocalOK
<1>2. handler \in [Handlers -> Locals] /\ \A g \in Handlers : LocalOK(handler[g])
  BY DEF Typed
<1> QED BY <1>1, <1>2 DEF Keep

LEMMA DoneTyped ==
  ASSUME Typed, NEW h \in Handlers, Done(h)
  PROVE  /\ handler' \in [Handlers -> Locals]
         /\ \A g \in Handlers : LocalOK(handler'[g])
         /\ handler'[h] = Idle
         /\ \A g \in Handlers : g # h => handler'[g] = handler[g]
<1>1. Keep(h, Idle)
  BY DEF Done
<1> QED BY <1>1, IdleOK, KeepTyped

LEMMA GotoKeeps ==
  ASSUME NEW h \in Handlers, NEW s, Goto(h, s)
  PROVE  Keep(h, [handler[h] EXCEPT !.step = s])
BY DEF Goto, Keep

-----------------------------------------------------------------------------
(* Tables. *)

LEMMA RowTypes == NoCompany \in CompanyRow /\ NoAccount \in AccountRow /\ NoInvite \in InviteRow
BY DEF NoCompany, NoAccount, NoInvite, CompanyRow, AccountRow, InviteRow

\* A new account takes a free row and leaves the others.
LEMMA NewAccountRow ==
  ASSUME TablesOK, NEW row \in AccountRow, NewAccount(row)
  PROVE  /\ account' \in [Accounts -> AccountRow]
         /\ \E a \in Accounts :
              /\ account[a] = NoAccount /\ account'[a] = row
              /\ \A b \in Accounts : b # a => account'[b] = account[b]
<1>1. PICK a \in Accounts : account[a] = NoAccount /\ account' = [account EXCEPT ![a] = row]
  BY DEF NewAccount
<1> QED BY <1>1 DEF TablesOK

LEMMA NewAccountKeeps ==
  ASSUME TablesOK, NEW row \in AccountRow, NewAccount(row), NEW i \in Invites
  PROVE  (Made(i) => Made(i)') /\ (row.invite = i => Made(i)')
<1>1. PICK a \in Accounts : /\ account[a] = NoAccount /\ account'[a] = row
                            /\ \A b \in Accounts : b # a => account'[b] = account[b]
  BY NewAccountRow
<1>2. account[a].invite # i
  BY <1>1, NoOneAssumption DEF NoAccount
<1> QED BY <1>1, <1>2 DEF Made

LEMMA SetStatusRows ==
  ASSUME TablesOK, NEW is, NEW s \in INVITE_STATUS, SetStatus(is, s)
  PROVE  /\ invite' \in [Invites -> InviteRow]
         /\ \A i \in Invites :
              /\ invite'[i].role = invite[i].role /\ invite'[i].company = invite[i].company
              /\ i \in is => invite'[i].status = s
              /\ i \notin is => invite'[i] = invite[i]
<1>1. ASSUME NEW i \in Invites
      PROVE  [invite[i] EXCEPT !.status = s] \in InviteRow
  BY DEF TablesOK, InviteRow
<1>2. ASSUME NEW i \in Invites
      PROVE  /\ [invite[i] EXCEPT !.status = s].status = s
             /\ [invite[i] EXCEPT !.status = s].role = invite[i].role
             /\ [invite[i] EXCEPT !.status = s].company = invite[i].company
  BY DEF TablesOK, InviteRow
<1> QED BY <1>1, <1>2 DEF SetStatus, TablesOK

LEMMA InvitedRow ==
  ASSUME TablesOK, NEW i \in Invites, NEW ap \in BOOLEAN, NEW co \in BOOLEAN
  PROVE  Invited(i, ap, co) \in AccountRow /\ Invited(i, ap, co).invite = i
BY DEF TablesOK, InviteRow, Invited, AccountRow

-----------------------------------------------------------------------------
(* Types, action by action. *)

LEMMA TypedReads ==
  ASSUME Typed, NEW h \in Handlers, NEW r, LocalOK(r), Read(h, r)
  PROVE  Typed'
<1>1. Keep(h, r) /\ UNCHANGED <<company, account, invite, crashes>>
  BY DEF Read
<1> QED BY <1>1, KeepTyped DEF Typed, TablesOK

\* The locals every read leaves are fit for the step that follows.
Fits(r, s, i, c, n, found) ==
  /\ LocalOK(r)
  /\ r.step = s /\ r.invite = i /\ r.company = c /\ r.number = n /\ r.found = found

LEMMA InviteAccountFit ==
  ASSUME NEW c \in Companies, NEW e \in Emails, NEW r \in {"dispatcher", "driver"}
  PROVE  Fits([Idle EXCEPT !.step = "inviteAccount", !.company = c, !.email = e, !.role = r],
              "inviteAccount", NoOne, c, NoOne, {})
<1> DEFINE r0 == [Idle EXCEPT !.step = "inviteAccount", !.company = c, !.email = e, !.role = r]
<1>1. r0 \in Locals
  BY DEF Idle, Locals, Steps, ROLES
<1>2. /\ r0.step = "inviteAccount" /\ r0.invite = NoOne /\ r0.company = c /\ r0.number = NoOne
      /\ r0.found = {} /\ r0.email = e /\ r0.role = r
  BY DEF Idle
<1> HIDE DEF r0
<1>3. Fits(r0, "inviteAccount", NoOne, c, NoOne, {})
  BY <1>1, <1>2 DEF Fits, LocalOK, AboutInvite, ROLES
<1> QED BY <1>3 DEF r0

LEMMA InviteCarrierFit ==
  ASSUME NEW n \in Numbers, NEW e \in Emails
  PROVE  Fits([Idle EXCEPT !.step = "inviteCarrier", !.email = e, !.number = n],
              "inviteCarrier", NoOne, NoOne, n, {})
<1> DEFINE r0 == [Idle EXCEPT !.step = "inviteCarrier", !.email = e, !.number = n]
<1>1. r0 \in Locals
  BY DEF Idle, Locals, Steps, ROLES
<1>2. /\ r0.step = "inviteCarrier" /\ r0.invite = NoOne /\ r0.company = NoOne /\ r0.number = n
      /\ r0.found = {} /\ r0.email = e
  BY DEF Idle
<1> HIDE DEF r0
<1>3. Fits(r0, "inviteCarrier", NoOne, NoOne, n, {})
  BY <1>1, <1>2 DEF Fits, LocalOK, AboutInvite, ROLES
<1> QED BY <1>3 DEF r0

LEMMA InviteAgainFit ==
  ASSUME NEW n \in Numbers, NEW e \in Emails, NEW p \in Invites
  PROVE  Fits([Idle EXCEPT !.step = "inviteCarrier", !.invite = p, !.email = e, !.number = n],
              "inviteCarrier", p, NoOne, n, {})
<1> DEFINE r0 == [Idle EXCEPT !.step = "inviteCarrier", !.invite = p, !.email = e, !.number = n]
<1>1. r0 \in Locals
  BY DEF Idle, Locals, Steps, ROLES
<1>2. /\ r0.step = "inviteCarrier" /\ r0.invite = p /\ r0.company = NoOne /\ r0.number = n
      /\ r0.found = {} /\ r0.email = e
  BY DEF Idle
<1> HIDE DEF r0
<1>3. Fits(r0, "inviteCarrier", p, NoOne, n, {})
  BY <1>1, <1>2 DEF Fits, LocalOK, AboutInvite, ROLES
<1> QED BY <1>3 DEF r0

LEMMA AboutInviteFit ==
  ASSUME NEW i \in Invites, NEW s \in {"decline", "retrieve", "common", "driver"}
  PROVE  Fits([Idle EXCEPT !.step = s, !.invite = i],
              s, i, NoOne, NoOne, {})
<1> DEFINE r0 == [Idle EXCEPT !.step = s, !.invite = i]
<1>1. r0 \in Locals
  BY DEF Idle, Locals, Steps, ROLES
<1>2. /\ r0.step = s /\ r0.invite = i /\ r0.company = NoOne /\ r0.number = NoOne
      /\ r0.found = {}
  BY DEF Idle
<1> HIDE DEF r0
<1>3. Fits(r0, s, i, NoOne, NoOne, {})
  BY <1>1, <1>2 DEF Fits, LocalOK, AboutInvite, ROLES
<1> QED BY <1>3 DEF r0

LEMMA FindFit ==
  Fits([Idle EXCEPT !.step = "find"], "find", NoOne, NoOne, NoOne, {})
<1> DEFINE r0 == [Idle EXCEPT !.step = "find"]
<1>1. r0 \in Locals
  BY DEF Idle, Locals, Steps, ROLES
<1>2. /\ r0.step = "find" /\ r0.invite = NoOne /\ r0.company = NoOne /\ r0.number = NoOne
      /\ r0.found = {}
  BY DEF Idle
<1> HIDE DEF r0
<1>3. Fits(r0, "find", NoOne, NoOne, NoOne, {})
  BY <1>1, <1>2 DEF Fits, LocalOK, AboutInvite, ROLES
<1> QED BY <1>3 DEF r0

LEMMA ExpireFit ==
  ASSUME NEW is \in SUBSET Invites
  PROVE  Fits([Idle EXCEPT !.step = "expire", !.found = is],
              "expire", NoOne, NoOne, NoOne, is)
<1> DEFINE r0 == [Idle EXCEPT !.step = "expire", !.found = is]
<1>1. r0 \in Locals
  BY DEF Idle, Locals, Steps, ROLES
<1>2. /\ r0.step = "expire" /\ r0.invite = NoOne /\ r0.company = NoOne /\ r0.number = NoOne
      /\ r0.found = is
  BY DEF Idle
<1> HIDE DEF r0
<1>3. Fits(r0, "expire", NoOne, NoOne, NoOne, is)
  BY <1>1, <1>2 DEF Fits, LocalOK, AboutInvite, ROLES
<1> QED BY <1>3 DEF r0

LEMMA CarrierFit ==
  ASSUME NEW i \in Invites, NEW c \in Companies \cup {NoOne}
  PROVE  Fits([Idle EXCEPT !.step = "carrier", !.invite = i, !.company = c],
              "carrier", i, c, NoOne, {})
<1> DEFINE r0 == [Idle EXCEPT !.step = "carrier", !.invite = i, !.company = c]
<1>1. r0 \in Locals
  BY DEF Idle, Locals, Steps, ROLES
<1>2. /\ r0.step = "carrier" /\ r0.invite = i /\ r0.company = c /\ r0.number = NoOne
      /\ r0.found = {}
  BY DEF Idle
<1> HIDE DEF r0
<1>3. Fits(r0, "carrier", i, c, NoOne, {})
  BY <1>1, <1>2 DEF Fits, LocalOK, AboutInvite, ROLES
<1> QED BY <1>3 DEF r0

LEMMA CarrierNewFit ==
  ASSUME NEW n \in Numbers, NEW e \in Emails
  PROVE  Fits([Idle EXCEPT !.step = "carrierNew", !.email = e, !.number = n],
              "carrierNew", NoOne, NoOne, n, {})
<1> DEFINE r0 == [Idle EXCEPT !.step = "carrierNew", !.email = e, !.number = n]
<1>1. r0 \in Locals
  BY DEF Idle, Locals, Steps, ROLES
<1>2. /\ r0.step = "carrierNew" /\ r0.invite = NoOne /\ r0.company = NoOne /\ r0.number = n
      /\ r0.found = {} /\ r0.email = e
  BY DEF Idle
<1> HIDE DEF r0
<1>3. Fits(r0, "carrierNew", NoOne, NoOne, n, {})
  BY <1>1, <1>2 DEF Fits, LocalOK, AboutInvite, ROLES
<1> QED BY <1>3 DEF r0

LEMMA RegisterFit ==
  ASSUME NEW e \in Emails, NEW r \in {"driver", "client"}
  PROVE  Fits([Idle EXCEPT !.step = "register", !.email = e, !.role = r],
              "register", NoOne, NoOne, NoOne, {})
<1> DEFINE r0 == [Idle EXCEPT !.step = "register", !.email = e, !.role = r]
<1>1. r0 \in Locals
  BY DEF Idle, Locals, Steps, ROLES
<1>2. /\ r0.step = "register" /\ r0.invite = NoOne /\ r0.company = NoOne /\ r0.number = NoOne
      /\ r0.found = {} /\ r0.email = e /\ r0.role = r
  BY DEF Idle
<1> HIDE DEF r0
<1>3. Fits(r0, "register", NoOne, NoOne, NoOne, {})
  BY <1>1, <1>2 DEF Fits, LocalOK, AboutInvite, ROLES
<1> QED BY <1>3 DEF r0

LEMMA ConfirmFit ==
  ASSUME NEW a \in Accounts
  PROVE  Fits([Idle EXCEPT !.step = "confirm", !.account = a],
              "confirm", NoOne, NoOne, NoOne, {})
<1> DEFINE r0 == [Idle EXCEPT !.step = "confirm", !.account = a]
<1>1. r0 \in Locals
  BY DEF Idle, Locals, Steps, ROLES
<1>2. /\ r0.step = "confirm" /\ r0.invite = NoOne /\ r0.company = NoOne /\ r0.number = NoOne
      /\ r0.found = {} /\ r0.account = a
  BY DEF Idle
<1> HIDE DEF r0
<1>3. Fits(r0, "confirm", NoOne, NoOne, NoOne, {})
  BY <1>1, <1>2 DEF Fits, LocalOK, AboutInvite, ROLES
<1> QED BY <1>3 DEF r0

LEMMA ApproveFit ==
  ASSUME NEW c \in Companies
  PROVE  Fits([Idle EXCEPT !.step = "approve", !.company = c],
              "approve", NoOne, c, NoOne, {})
<1> DEFINE r0 == [Idle EXCEPT !.step = "approve", !.company = c]
<1>1. r0 \in Locals
  BY DEF Idle, Locals, Steps, ROLES
<1>2. /\ r0.step = "approve" /\ r0.invite = NoOne /\ r0.company = c /\ r0.number = NoOne
      /\ r0.found = {}
  BY DEF Idle
<1> HIDE DEF r0
<1>3. Fits(r0, "approve", NoOne, c, NoOne, {})
  BY <1>1, <1>2 DEF Fits, LocalOK, AboutInvite, ROLES
<1> QED BY <1>3 DEF r0

LEMMA EditFit ==
  ASSUME NEW c \in Companies, NEW n \in Numbers \cup {NoOne},
         NEW s \in COMPANY_STATUSES \cup {"absent"}
  PROVE  /\ Fits([Idle EXCEPT !.step = "edit", !.company = c, !.number = n, !.status = s],
                 "edit", NoOne, c, n, {})
         /\ [Idle EXCEPT !.step = "edit", !.company = c, !.number = n, !.status = s].status = s
<1> DEFINE r0 == [Idle EXCEPT !.step = "edit", !.company = c, !.number = n, !.status = s]
<1>1. r0 \in Locals
  BY DEF Idle, Locals, Steps, ROLES
<1>2. /\ r0.step = "edit" /\ r0.invite = NoOne /\ r0.company = c /\ r0.number = n
      /\ r0.found = {} /\ r0.status = s
  BY DEF Idle
<1> HIDE DEF r0
<1>3. Fits(r0, "edit", NoOne, c, n, {})
  BY <1>1, <1>2 DEF Fits, LocalOK, AboutInvite, ROLES
<1> QED BY <1>2, <1>3 DEF r0

\* The actions that only read, and those that end a request.
ReadAction(h) ==
  \/ \E c \in Companies, e \in Emails, r \in {"dispatcher", "driver"} :
        InviteAccountRead(h, c, e, r)
  \/ \E n \in Numbers, e \in Emails : InviteCarrierRead(h, n, e)
  \/ \E i \in Invites : DeclineRead(h, i) \/ RetrieveRead(h, i)
  \/ ExpireRead(h)
  \/ \E i \in Invites : CarrierRead(h, i) \/ CommonRead(h, i) \/ DriverRead(h, i)
  \/ \E n \in Numbers, e \in Emails : CarrierNewRead(h, n, e)
  \/ \E e \in Emails, r \in {"driver", "client"} : RegisterRead(h, e, r)
  \/ \E a \in Accounts : ConfirmRead(h, a)
  \/ \E c \in Companies : ApproveRead(h, c)
  \/ \E c \in Companies : PatchCompanyRead(h, c) \/ \E n \in Numbers : CarrierEditRead(h, c, n)

LEMMA ReadActionReads ==
  ASSUME Typed, NEW h \in Handlers, ReadAction(h)
  PROVE  \E r : LocalOK(r) /\ Read(h, r) /\ r.step # "carrierAccept"
<1>1. CASE \E c \in Companies, e \in Emails, r \in {"dispatcher", "driver"} :
             InviteAccountRead(h, c, e, r)
  BY <1>1, InviteAccountFit DEF InviteAccountRead, Fits
<1>2. CASE \E n \in Numbers, e \in Emails : InviteCarrierRead(h, n, e)
  <2>1. PICK n \in Numbers, e \in Emails : InviteCarrierRead(h, n, e)
    BY <1>2
  <2>2. PendingCarrier(n) \subseteq Invites
    BY DEF PendingCarrier
  <2>3. CASE PendingCarrier(n) # {}
    BY <2>1, <2>2, <2>3, InviteAgainFit DEF InviteCarrierRead, Fits
  <2>4. CASE PendingCarrier(n) = {}
    BY <2>1, <2>4, InviteCarrierFit DEF InviteCarrierRead, Fits
  <2> QED BY <2>3, <2>4
<1>3. CASE \E i \in Invites : DeclineRead(h, i) \/ RetrieveRead(h, i)
  BY <1>3, AboutInviteFit DEF DeclineRead, RetrieveRead, Fits
<1>4. CASE ExpireRead(h)
  <2>1. LatePending \in SUBSET Invites
    BY DEF LatePending
  <2>2. CASE LatePending = {}
    <3>1. Read(h, Idle)
      BY <1>4, <2>2 DEF ExpireRead, Read, Done
    <3>2. Idle.step # "carrierAccept"
      BY DEF Idle
    <3> QED BY <3>1, <3>2, IdleOK
  <2>3. CASE LatePending # {}
    BY <1>4, <2>1, <2>3, ExpireFit DEF ExpireRead, Read, Fits
  <2> QED BY <2>2, <2>3
<1>5. CASE \E i \in Invites : CarrierRead(h, i) \/ CommonRead(h, i) \/ DriverRead(h, i)
  <2>1. \A i \in Invites : invite[i].company \in Companies \cup {NoOne}
    BY DEF Typed, TablesOK, InviteRow
  <2>2. PICK i \in Invites : CarrierRead(h, i) \/ CommonRead(h, i) \/ DriverRead(h, i)
    BY <1>5
  <2>3. CASE CarrierRead(h, i)
    BY <2>1, <2>3, CarrierFit DEF CarrierRead, Fits
  <2>4. CASE CommonRead(h, i)
    BY <2>4, AboutInviteFit DEF CommonRead, Fits
  <2>5. CASE DriverRead(h, i)
    BY <2>5, AboutInviteFit DEF DriverRead, Fits
  <2> QED BY <2>2, <2>3, <2>4, <2>5
<1>6. CASE \E n \in Numbers, e \in Emails : CarrierNewRead(h, n, e)
  BY <1>6, CarrierNewFit DEF CarrierNewRead, Fits
<1>7. CASE \E e \in Emails, r \in {"driver", "client"} : RegisterRead(h, e, r)
  BY <1>7, RegisterFit DEF RegisterRead, Fits
<1>8. CASE \E a \in Accounts : ConfirmRead(h, a)
  BY <1>8, ConfirmFit DEF ConfirmRead, Fits
<1>9. CASE \E c \in Companies : ApproveRead(h, c)
  BY <1>9, ApproveFit DEF ApproveRead, Fits
<1>10. ASSUME NEW c \in Companies, PatchCompanyRead(h, c) \/ \E n \in Numbers : CarrierEditRead(h, c, n)
       PROVE  \E r : LocalOK(r) /\ Read(h, r) /\ r.step # "carrierAccept"
  <2>1. company[c].status \in COMPANY_STATUSES \cup {"absent"} /\ company[c].number \in Numbers \cup {NoOne}
    BY DEF Typed, TablesOK, CompanyRow
  <2>2. PICK n \in Numbers \cup {NoOne} :
          Read(h, [Idle EXCEPT !.step = "edit", !.company = c, !.number = n, !.status = company[c].status])
    BY <1>10, <2>1 DEF PatchCompanyRead, CarrierEditRead
  <2> DEFINE r0 == [Idle EXCEPT !.step = "edit", !.company = c, !.number = n, !.status = company[c].status]
  <2>3. Fits(r0, "edit", NoOne, c, n, {})
    BY <2>1, EditFit
  <2>4. Read(h, r0)
    BY <2>2
  <2> HIDE DEF r0
  <2> QED BY <2>3, <2>4 DEF Fits
<1> QED BY <1>1, <1>2, <1>3, <1>4, <1>5, <1>6, <1>7, <1>8, <1>9, <1>10 DEF ReadAction

LEMMA GotoTyped ==
  ASSUME Typed, NEW h \in Handlers, handler[h].step \in {"carrier", "carrierAccount"},
         NEW s \in {"carrierAccount", "carrierAccept"}, Goto(h, s)
  PROVE  /\ handler' \in [Handlers -> Locals]
         /\ \A g \in Handlers : LocalOK(handler'[g])
         /\ handler'[h].invite = handler[h].invite
         /\ handler'[h].step = s
         /\ \A g \in Handlers : g # h => handler'[g] = handler[g]
<1> DEFINE me == handler[h]
           r == [me EXCEPT !.step = s]
<1>1. LocalOK(me) /\ me \in Locals /\ me.invite \in Invites
  BY DEF Typed, LocalOK, AboutInvite
<1>2. r \in Locals
  BY <1>1 DEF Locals, Steps
<1>3. r.invite = me.invite /\ r.step = s
  BY <1>1 DEF Locals
<1>4. LocalOK(r)
  BY <1>1, <1>2, <1>3 DEF LocalOK, AboutInvite
<1>5. Keep(h, r)
  BY GotoKeeps
<1> HIDE DEF r
<1> QED BY <1>3, <1>4, <1>5, KeepTyped

-----------------------------------------------------------------------------
(* The invariant, action by action. *)

\* What a write has to show: it types what it writes, an invitation that has
\* its account keeps it, and one that becomes accepted has one.
LEMMA WriteKeeps ==
  ASSUME IInv, NEW h \in Handlers, TablesOK',
         handler' \in [Handlers -> Locals], \A g \in Handlers : LocalOK(handler'[g]),
         \A g \in Handlers : g # h => handler'[g] = handler[g],
         handler'[h].step = "carrierAccept" =>
           \E a \in Accounts : account'[a].invite = handler'[h].invite,
         \A i \in Invites : Made(i) => Made(i)',
         \A i \in Invites : invite'[i].status = "accepted" =>
           invite[i].status = "accepted" \/ Made(i)'
  PROVE  IInv'
<1>1. Typed'
  BY DEF Typed
<1>2. AcceptedHasAccount'
  <2>1. ASSUME NEW i \in Invites, invite'[i].status = "accepted"
        PROVE  Made(i)'
    <3>1. invite[i].status = "accepted" => Made(i)
      BY DEF IInv, AcceptedHasAccount, Made
    <3> QED BY <2>1, <3>1
  <2> QED BY <2>1 DEF AcceptedHasAccount, Made
<1>3. ASSUME NEW g \in Handlers, handler'[g].step = "carrierAccept"
      PROVE  \E a \in Accounts : account'[a].invite = handler'[g].invite
  <2>1. CASE g = h
    BY <1>3, <2>1
  <2>2. CASE g # h
    <3>1. handler[g].step = "carrierAccept" /\ handler'[g].invite = handler[g].invite
      BY <1>3, <2>2
    <3>2. handler[g].invite \in Invites
      BY <3>1 DEF IInv, Typed, LocalOK, AboutInvite
    <3>3. Made(handler[g].invite)
      BY <3>1 DEF IInv
    <3>4. ASSUME NEW i \in Invites, Made(i) PROVE \E a \in Accounts : account'[a].invite = i
      BY <3>4 DEF Made
    <3> QED BY <3>1, <3>2, <3>3, <3>4
  <2> QED BY <2>1, <2>2
<1> QED BY <1>1, <1>2, <1>3 DEF IInv, Made

\* The same for a write that ends its request.
LEMMA LastWriteKeeps ==
  ASSUME IInv, NEW h \in Handlers, TablesOK', Done(h),
         \A i \in Invites : Made(i) => Made(i)',
         \A i \in Invites : invite'[i].status = "accepted" =>
           invite[i].status = "accepted" \/ Made(i)'
  PROVE  IInv'
<1>1. Typed
  BY DEF IInv
<1>2. handler'[h].step # "carrierAccept"
  BY <1>1, DoneTyped DEF Idle
<1> QED BY <1>1, <1>2, DoneTyped, WriteKeeps

LEMMA MadeStays ==
  ASSUME UNCHANGED account
  PROVE  \A i \in Invites : Made(i) => Made(i)'
BY DEF Made

LEMMA ReadKeeps ==
  ASSUME IInv, NEW h \in Handlers, ReadAction(h)
  PROVE  IInv'
<1>1. PICK r : LocalOK(r) /\ Read(h, r) /\ r.step # "carrierAccept"
  BY ReadActionReads DEF IInv
<1>2. Keep(h, r) /\ UNCHANGED <<company, account, invite, crashes>>
  BY <1>1 DEF Read
<1>3. TablesOK'
  BY <1>2 DEF IInv, Typed, TablesOK
<1>4. /\ handler' \in [Handlers -> Locals]
      /\ \A g \in Handlers : LocalOK(handler'[g])
      /\ handler'[h] = r
      /\ \A g \in Handlers : g # h => handler'[g] = handler[g]
  BY <1>1, <1>2, KeepTyped DEF IInv
<1> QED BY <1>1, <1>2, <1>3, <1>4, MadeStays, WriteKeeps

LEMMA InviteAccountWriteKeeps ==
  ASSUME IInv, NEW h \in Handlers, NEW i \in Invites, InviteAccountWrite(h, i)
  PROVE  IInv'
<1> DEFINE me == handler[h]
           row == [status |-> "pending", role |-> me.role, email |-> me.email,
                   company |-> me.company, late |-> FALSE]
<1>1. TablesOK /\ LocalOK(me) /\ me.step = "inviteAccount"
  BY DEF IInv, Typed, InviteAccountWrite
<1>2. row \in InviteRow
  BY <1>1 DEF LocalOK, InviteRow, ROLES, INVITE_STATUS
<1>3. /\ invite' = [invite EXCEPT ![i] = row] /\ row.status = "pending"
      /\ Done(h) /\ UNCHANGED <<company, account, crashes>>
  BY DEF InviteAccountWrite
<1> HIDE DEF row, me
<1>4. TablesOK'
  BY <1>1, <1>2, <1>3 DEF TablesOK
<1>5. ASSUME NEW j \in Invites, invite'[j].status = "accepted"
      PROVE  invite[j].status = "accepted"
  BY <1>1, <1>2, <1>3, <1>5 DEF TablesOK
<1> QED BY <1>3, <1>4, <1>5, MadeStays, LastWriteKeeps

\* What inviteCarrier's commit leaves in the tables.
LEMMA InviteCarrierWriteDoes ==
  ASSUME TablesOK, NEW h \in Handlers, LocalOK(handler[h]), NEW i \in Invites,
         NEW c \in Companies, InviteCarrierWrite(h, i, c)
  PROVE  /\ company' \in [Companies -> CompanyRow]
         /\ company'[c].status = "invited" /\ company'[c].number = handler[h].number
         /\ \A d \in Companies : d # c => company'[d] = company[d]
         /\ invite' \in [Invites -> InviteRow]
         /\ invite[i].status = "absent"
         /\ handler[h].invite # i
         /\ invite'[i].status = "pending" /\ invite'[i].role = "company_admin"
         /\ invite'[i].company = c
         /\ handler[h].invite # NoOne =>
              handler[h].invite \in Invites /\ invite'[handler[h].invite].status = "expired"
         /\ \A j \in Invites \ {i, handler[h].invite} : invite'[j] = invite[j]
<1> DEFINE me == handler[h]
           new == [status |-> "pending", role |-> "company_admin", email |-> me.email,
                   company |-> c, late |-> FALSE]
           row == [status |-> "invited", number |-> me.number]
<1>1. /\ me.step = "inviteCarrier" /\ invite[i] = NoInvite
      /\ company' = [company EXCEPT ![c] = row]
      /\ me.invite = NoOne => invite' = [invite EXCEPT ![i] = new]
      /\ me.invite # NoOne =>
           /\ c = invite[me.invite].company
           /\ invite' = [invite EXCEPT ![i] = new, ![me.invite].status = "expired",
                                       ![me.invite].late = TRUE]
  BY DEF InviteCarrierWrite
<1>2. me.email \in Emails /\ me.number \in Numbers /\ me.invite \in Invites \cup {NoOne}
  BY <1>1 DEF LocalOK, Locals
<1>3. new \in InviteRow /\ row \in CompanyRow
  BY <1>2 DEF InviteRow, CompanyRow, ROLES, INVITE_STATUS, COMPANY_STATUSES
<1>4. /\ new.status = "pending" /\ new.role = "company_admin" /\ new.company = c
      /\ row.status = "invited" /\ row.number = me.number
  OBVIOUS
<1>5. invite[i].status = "absent" /\ invite[i].company = NoOne
  BY <1>1 DEF NoInvite
<1>6. me.invite # i
  BY <1>1, <1>2, <1>5, NoOneAssumption
<1>7. i # NoOne
  BY NoOneAssumption
<1> HIDE DEF new, row, me
<1>8. CASE me.invite = NoOne
  BY <1>1, <1>2, <1>3, <1>4, <1>5, <1>6, <1>8 DEF TablesOK, me
<1>9. CASE me.invite # NoOne
  <2> DEFINE p == me.invite
             old == [invite[p] EXCEPT !.status = "expired", !.late = TRUE]
  <2>1. p \in Invites /\ invite[p] \in InviteRow
    BY <1>2, <1>9 DEF TablesOK
  <2>2. old \in InviteRow /\ old.status = "expired"
    BY <2>1 DEF InviteRow, INVITE_STATUS
  <2>3. invite' = [[invite EXCEPT ![i] = new] EXCEPT ![p] = old]
    BY <1>1, <1>6, <1>9, <2>1 DEF TablesOK
  <2> HIDE DEF old
  <2> QED BY <1>1, <1>3, <1>4, <1>5, <1>6, <1>9, <2>1, <2>2, <2>3 DEF TablesOK, me
<1> QED BY <1>8, <1>9

LEMMA InviteCarrierWriteKeeps ==
  ASSUME IInv, NEW h \in Handlers, NEW i \in Invites, NEW c \in Companies,
         InviteCarrierWrite(h, i, c)
  PROVE  IInv'
<1>1. TablesOK /\ LocalOK(handler[h])
  BY DEF IInv, Typed
<1>2. Done(h) /\ UNCHANGED <<account, crashes>>
  BY DEF InviteCarrierWrite
<1>3. TablesOK'
  BY <1>1, <1>2, InviteCarrierWriteDoes DEF TablesOK
<1>4. ASSUME NEW j \in Invites, invite'[j].status = "accepted"
      PROVE  invite[j].status = "accepted"
  <2>1. /\ invite'[i].status = "pending"
        /\ handler[h].invite \in Invites => invite'[handler[h].invite].status = "expired"
        /\ j \notin {i, handler[h].invite} => invite'[j] = invite[j]
    BY <1>1, NoOneAssumption, InviteCarrierWriteDoes
  <2> QED BY <1>4, <2>1
<1> QED BY <1>2, <1>3, <1>4, MadeStays, LastWriteKeeps

\* Only the time of one invitation changes.
LEMMA LateKeeps ==
  ASSUME TablesOK, NEW i \in Invites, NEW b \in BOOLEAN,
         invite' = [invite EXCEPT ![i].late = b]
  PROVE  /\ invite' \in [Invites -> InviteRow]
         /\ \A j \in Invites : /\ invite'[j].status = invite[j].status
                               /\ invite'[j].role = invite[j].role
                               /\ invite'[j].company = invite[j].company
<1>1. [invite[i] EXCEPT !.late = b] \in InviteRow
  BY DEF TablesOK, InviteRow
<1>2. /\ [invite[i] EXCEPT !.late = b].status = invite[i].status
      /\ [invite[i] EXCEPT !.late = b].role = invite[i].role
      /\ [invite[i] EXCEPT !.late = b].company = invite[i].company
  BY DEF TablesOK, InviteRow
<1> QED BY <1>1, <1>2 DEF TablesOK

LEMMA TimeKeeps ==
  ASSUME IInv, NEW i \in Invites,
         \/ TimePasses(i)
         \/ \E h \in Handlers : ResendInvite(h, i) \/ ExpireInvite(h, i)
  PROVE  IInv'
<1>1. TablesOK /\ Typed
  BY DEF IInv, Typed
<1>2. PICK b \in BOOLEAN : /\ invite' = [invite EXCEPT ![i].late = b]
                           /\ UNCHANGED <<company, account, crashes>>
  BY DEF TimePasses, ResendInvite, ExpireInvite
<1>3. TablesOK'
  BY <1>1, <1>2, LateKeeps DEF TablesOK
<1>4. \A j \in Invites : invite'[j].status = "accepted" => invite[j].status = "accepted"
  BY <1>1, <1>2, LateKeeps
<1>5. CASE UNCHANGED handler
  <2>1. /\ handler' \in [Handlers -> Locals]
        /\ \A g \in Handlers : LocalOK(handler'[g])
    BY <1>1, <1>5 DEF Typed
  <2>2. \A g \in Handlers : handler[g].step = "carrierAccept" => Made(handler[g].invite)
    BY DEF IInv
  <2>3. Typed'
    BY <1>3, <2>1 DEF Typed
  <2> QED BY <1>2, <1>4, <1>5, <2>2, <2>3 DEF IInv, AcceptedHasAccount, Made
<1>6. ASSUME NEW h \in Handlers, ExpireInvite(h, i)
      PROVE  IInv'
  <2> DEFINE r == [Idle EXCEPT !.step = "find"]
  <2>1. Keep(h, r)
    BY <1>6 DEF ExpireInvite
  <2>2. LocalOK(r) /\ r.step = "find"
    BY FindFit DEF Fits
  <2> HIDE DEF r
  <2>3. /\ handler' \in [Handlers -> Locals]
        /\ \A g \in Handlers : LocalOK(handler'[g])
        /\ handler'[h] = r
        /\ \A g \in Handlers : g # h => handler'[g] = handler[g]
    BY <1>1, <2>1, <2>2, KeepTyped
  <2> QED BY <1>2, <1>3, <1>4, <2>2, <2>3, MadeStays, WriteKeeps
<1> QED BY <1>5, <1>6 DEF TimePasses, ResendInvite

LEMMA AnswerKeeps ==
  ASSUME IInv, NEW h \in Handlers,
         DeclineWrite(h) \/ RetrieveWrite(h) \/ ExpireWrite(h) \/ CarrierAccept(h)
  PROVE  IInv'
<1>1. TablesOK /\ LocalOK(handler[h])
  BY DEF IInv, Typed
<1>2. Done(h) /\ UNCHANGED <<company, account, crashes>>
  BY DEF DeclineWrite, RetrieveWrite, ExpireWrite, CarrierAccept
<1>3. /\ invite' \in [Invites -> InviteRow]
      /\ \A i \in Invites : invite'[i].status = "accepted" =>
           \/ invite[i].status = "accepted"
           \/ handler[h].step = "carrierAccept" /\ i = handler[h].invite
  <2>0. {"declined", "expired", "accepted"} \subseteq INVITE_STATUS
    BY DEF INVITE_STATUS
  <2>1. ASSUME NEW is, NEW s \in {"declined", "expired", "accepted"}, SetStatus(is, s)
        PROVE  /\ invite' \in [Invites -> InviteRow]
               /\ \A i \in Invites : /\ i \in is => invite'[i].status = s
                                     /\ i \notin is => invite'[i] = invite[i]
    <3>1. s \in INVITE_STATUS
      BY <2>0
    <3> QED BY <1>1, <2>1, <3>1, SetStatusRows
  <2>2. CASE CarrierAccept(h)
    BY <2>1, <2>2 DEF CarrierAccept
  <2>4. CASE DeclineWrite(h)
    BY <2>1, <2>4 DEF DeclineWrite
  <2>5. CASE ExpireWrite(h)
    BY <2>1, <2>5 DEF ExpireWrite
  <2>3. CASE RetrieveWrite(h)
    <3> DEFINE i == handler[h].invite
               row == [invite[i] EXCEPT !.status = "expired", !.late = TRUE]
    <3>1. i \in Invites /\ invite[i] \in InviteRow
      BY <1>1, <2>3 DEF RetrieveWrite, LocalOK, AboutInvite, TablesOK
    <3>2. row \in InviteRow /\ row.status = "expired"
      BY <3>1 DEF InviteRow, INVITE_STATUS
    <3>3. invite' = [invite EXCEPT ![i] = row]
      BY <1>1, <2>3, <3>1 DEF RetrieveWrite, TablesOK
    <3> HIDE DEF row
    <3> QED BY <1>1, <3>1, <3>2, <3>3 DEF TablesOK
  <2> QED BY <2>2, <2>3, <2>4, <2>5
<1>4. TablesOK'
  BY <1>1, <1>2, <1>3 DEF TablesOK
<1>5. ASSUME NEW i \in Invites, handler[h].step = "carrierAccept", i = handler[h].invite
      PROVE  Made(i)'
  <2>1. Made(i)
    BY <1>5 DEF IInv
  <2> QED BY <1>2, <2>1, MadeStays
<1> QED BY <1>2, <1>3, <1>4, <1>5, MadeStays, LastWriteKeeps

\* Only the status of one company changes.
LEMMA CompanyStatusRows ==
  ASSUME TablesOK, NEW c, NEW s \in COMPANY_STATUSES,
         company' = [company EXCEPT ![c].status = s]
  PROVE  /\ company' \in [Companies -> CompanyRow]
         /\ \A d \in Companies : company'[d].number = company[d].number
         /\ \A d \in Companies : d = c => company'[d].status = s
         /\ \A d \in Companies : d # c => company'[d] = company[d]
<1>1. ASSUME NEW d \in Companies
      PROVE  /\ [company[d] EXCEPT !.status = s] \in CompanyRow
             /\ [company[d] EXCEPT !.status = s].number = company[d].number
             /\ [company[d] EXCEPT !.status = s].status = s
  BY DEF TablesOK, CompanyRow
<1> QED BY <1>1 DEF TablesOK

LEMMA CarrierCompanyKeeps ==
  ASSUME IInv, NEW h \in Handlers, CarrierCompany(h)
  PROVE  IInv'
<1>1. /\ company' = [company EXCEPT ![handler[h].company].status = "requested"]
      /\ handler[h].step = "carrier" /\ Goto(h, "carrierAccount")
      /\ UNCHANGED <<account, invite, crashes>>
  BY DEF CarrierCompany
<1>2. Typed /\ TablesOK /\ "requested" \in COMPANY_STATUSES
  BY DEF IInv, Typed, COMPANY_STATUSES
<1>3. TablesOK'
  BY <1>1, <1>2, CompanyStatusRows DEF TablesOK
<1>4. /\ handler' \in [Handlers -> Locals]
      /\ \A g \in Handlers : LocalOK(handler'[g])
      /\ handler'[h].step = "carrierAccount"
      /\ \A g \in Handlers : g # h => handler'[g] = handler[g]
  BY <1>1, <1>2, GotoTyped
<1> QED BY <1>1, <1>3, <1>4, MadeStays, WriteKeeps

LEMMA CarrierAccountKeeps ==
  ASSUME IInv, NEW h \in Handlers, CarrierAccount(h)
  PROVE  IInv'
<1> DEFINE i == handler[h].invite
<1>1. /\ NewAccount(Invited(i, FALSE, FALSE))
      /\ handler[h].step = "carrierAccount" /\ Goto(h, "carrierAccept")
      /\ UNCHANGED <<company, invite, crashes>>
  BY DEF CarrierAccount
<1>2. Typed /\ TablesOK /\ i \in Invites
  BY <1>1 DEF IInv, Typed, LocalOK, AboutInvite
<1>3. Invited(i, FALSE, FALSE) \in AccountRow /\ Invited(i, FALSE, FALSE).invite = i
  BY <1>2, InvitedRow
<1>4. /\ TablesOK'
      /\ \A j \in Invites : Made(j) => Made(j)'
      /\ \E a \in Accounts : account'[a].invite = i
  <2> DEFINE row == Invited(i, FALSE, FALSE)
  <2>1. row \in AccountRow /\ row.invite = i /\ NewAccount(row)
    BY <1>1, <1>3
  <2> HIDE DEF row
  <2>2. account' \in [Accounts -> AccountRow]
    BY <1>2, <2>1, NewAccountRow
  <2>3. \A j \in Invites : (Made(j) => Made(j)') /\ (row.invite = j => Made(j)')
    BY <1>2, <2>1, NewAccountKeeps
  <2>4. ASSUME NEW j \in Invites, Made(j)'
        PROVE  \E a \in Accounts : account'[a].invite = j
    BY <2>4 DEF Made
  <2>5. TablesOK'
    BY <1>1, <1>2, <2>2 DEF TablesOK
  <2> QED BY <1>2, <2>1, <2>3, <2>4, <2>5
<1>5. /\ handler' \in [Handlers -> Locals]
      /\ \A g \in Handlers : LocalOK(handler'[g])
      /\ handler'[h].invite = i
      /\ \A g \in Handlers : g # h => handler'[g] = handler[g]
  BY <1>1, <1>2, GotoTyped
<1>6. \A j \in Invites : invite'[j].status = "accepted" => invite[j].status = "accepted"
  BY <1>1
<1> HIDE DEF i
<1> QED BY <1>4, <1>5, <1>6, WriteKeeps

\* A request that ends by making an account; it may accept the invitation the
\* account is made from.
LEMMA AccountWriteKeeps ==
  ASSUME IInv, NEW h \in Handlers, Done(h), UNCHANGED crashes,
         company' \in [Companies -> CompanyRow], invite' \in [Invites -> InviteRow],
         NEW row \in AccountRow, NewAccount(row),
         \A i \in Invites : invite'[i].status = "accepted" =>
           invite[i].status = "accepted" \/ row.invite = i
  PROVE  IInv'
<1>1. TablesOK
  BY DEF IInv, Typed
<1>2. account' \in [Accounts -> AccountRow]
  BY <1>1, NewAccountRow
<1>3. TablesOK'
  BY <1>1, <1>2 DEF TablesOK
<1>4. \A i \in Invites : (Made(i) => Made(i)') /\ (row.invite = i => Made(i)')
  BY <1>1, NewAccountKeeps
<1> QED BY <1>3, <1>4, LastWriteKeeps

LEMMA InvitedWriteKeeps ==
  ASSUME IInv, NEW h \in Handlers, CommonWrite(h) \/ DriverWrite(h)
  PROVE  IInv'
<1> DEFINE i == handler[h].invite
<1>1. TablesOK /\ LocalOK(handler[h])
  BY DEF IInv, Typed
<1>2. i \in Invites
  BY <1>1 DEF CommonWrite, DriverWrite, LocalOK, AboutInvite
<1>3. PICK ap \in BOOLEAN, co \in BOOLEAN : NewAccount(Invited(i, ap, co))
  BY DEF CommonWrite, DriverWrite
<1>4. SetStatus({i}, "accepted") /\ Done(h) /\ UNCHANGED <<company, crashes>>
  BY DEF CommonWrite, DriverWrite
<1>5. Invited(i, ap, co) \in AccountRow /\ Invited(i, ap, co).invite = i
  BY <1>1, <1>2, InvitedRow
<1>6. /\ invite' \in [Invites -> InviteRow]
      /\ \A j \in Invites : j # i => invite'[j] = invite[j]
  <2>1. "accepted" \in INVITE_STATUS
    BY DEF INVITE_STATUS
  <2> QED BY <1>1, <1>4, <2>1, SetStatusRows
<1>7. company' \in [Companies -> CompanyRow]
  BY <1>1, <1>4 DEF TablesOK
<1>8. \A j \in Invites : invite'[j].status = "accepted" =>
        invite[j].status = "accepted" \/ Invited(i, ap, co).invite = j
  BY <1>5, <1>6
<1> QED BY <1>3, <1>4, <1>5, <1>6, <1>7, <1>8, AccountWriteKeeps

\* The rows the uninvited get.
LEMMA OwnRow ==
  ASSUME NEW e \in Emails
  PROVE  /\ \A c \in Companies :
              LET row == [NoAccount EXCEPT !.email = e, !.role = "company_admin", !.company = c]
              IN  row \in AccountRow /\ row.invite = NoOne
         /\ \A r \in {"driver", "client"}, b \in BOOLEAN :
              LET row == [NoAccount EXCEPT !.email = e, !.role = r, !.approved = b]
              IN  row \in AccountRow /\ row.invite = NoOne
BY DEF NoAccount, AccountRow, ROLES

LEMMA OwnWriteKeeps ==
  ASSUME IInv, NEW h \in Handlers,
         RegisterWrite(h) \/ \E c \in Companies : CarrierNewWrite(h, c)
  PROVE  IInv'
<1>1. TablesOK /\ LocalOK(handler[h])
  BY DEF IInv, Typed
<1>2. Done(h) /\ UNCHANGED <<invite, crashes>>
  BY DEF RegisterWrite, CarrierNewWrite
<1>3. invite' \in [Invites -> InviteRow]
  BY <1>1, <1>2 DEF TablesOK
<1>4. CASE RegisterWrite(h)
  <2> DEFINE me == handler[h]
             row == [NoAccount EXCEPT !.email = me.email, !.role = me.role,
                                      !.approved = me.role = "client"]
  <2>1. NewAccount(row) /\ UNCHANGED company
    BY <1>4 DEF RegisterWrite
  <2>2. me.email \in Emails /\ me.role \in {"driver", "client"}
    BY <1>1, <1>4 DEF RegisterWrite, LocalOK
  <2>3. (me.role = "client") \in BOOLEAN
    OBVIOUS
  <2>4. row \in AccountRow
    BY <2>2, <2>3, OwnRow
  <2>5. company' \in [Companies -> CompanyRow]
    BY <1>1, <2>1 DEF TablesOK
  <2> HIDE DEF row
  <2> QED BY <1>2, <1>3, <2>1, <2>4, <2>5, AccountWriteKeeps
<1>5. ASSUME NEW c \in Companies, CarrierNewWrite(h, c)
      PROVE  IInv'
  <2> DEFINE me == handler[h]
             row == [NoAccount EXCEPT !.email = me.email, !.role = "company_admin", !.company = c]
             com == [status |-> "requested", number |-> me.number]
  <2>1. NewAccount(row) /\ company' = [company EXCEPT ![c] = com]
    BY <1>5 DEF CarrierNewWrite
  <2>2. me.email \in Emails /\ me.number \in Numbers
    BY <1>1, <1>5 DEF CarrierNewWrite, LocalOK
  <2>3. row \in AccountRow
    BY <2>2, OwnRow
  <2>4. com \in CompanyRow
    BY <2>2 DEF CompanyRow, COMPANY_STATUSES
  <2> HIDE DEF row, com
  <2>5. company' \in [Companies -> CompanyRow]
    BY <1>1, <2>1, <2>4 DEF TablesOK
  <2> QED BY <1>2, <1>3, <2>1, <2>3, <2>5, AccountWriteKeeps
<1> QED BY <1>4, <1>5

\* Accounts that are approved or confirmed keep their invitations.
LEMMA ApprovalKeeps ==
  ASSUME IInv, NEW h \in Handlers, ConfirmWrite(h) \/ ApproveWrite(h)
  PROVE  IInv'
<1>1. TablesOK /\ LocalOK(handler[h])
  BY DEF IInv, Typed
<1>2. Done(h) /\ UNCHANGED <<invite, crashes>>
  BY DEF ConfirmWrite, ApproveWrite
<1>3. company' \in [Companies -> CompanyRow]
  <2>1. CASE ConfirmWrite(h)
    BY <1>1, <2>1 DEF ConfirmWrite, TablesOK
  <2>2. CASE ApproveWrite(h)
    <3>1. "active" \in COMPANY_STATUSES
      BY DEF COMPANY_STATUSES
    <3> QED BY <1>1, <2>2, <3>1, CompanyStatusRows DEF ApproveWrite
  <2> QED BY <2>1, <2>2
<1>4. /\ account' \in [Accounts -> AccountRow]
      /\ \A a \in Accounts : account'[a].invite = account[a].invite
  <2>1. CASE ConfirmWrite(h)
    <3> DEFINE a == handler[h].account
               row == [account[a] EXCEPT !.confirmed = TRUE, !.approved = TRUE]
    <3>1. a \in Accounts /\ account[a] \in AccountRow
      BY <1>1, <2>1 DEF ConfirmWrite, LocalOK, TablesOK
    <3>2. row \in AccountRow /\ row.invite = account[a].invite
      BY <3>1 DEF AccountRow
    <3>3. account' = [account EXCEPT ![a] = row]
      BY <1>1, <2>1, <3>1 DEF ConfirmWrite, TablesOK
    <3> HIDE DEF row
    <3> QED BY <1>1, <3>1, <3>2, <3>3 DEF TablesOK
  <2>2. CASE ApproveWrite(h)
    <3>1. ASSUME NEW a \in Accounts
          PROVE  /\ [account[a] EXCEPT !.approved = TRUE] \in AccountRow
                 /\ [account[a] EXCEPT !.approved = TRUE].invite = account[a].invite
      BY <1>1 DEF TablesOK, AccountRow
    <3>2. account' = [a \in Accounts |->
             IF account[a].company = handler[h].company
             THEN [account[a] EXCEPT !.approved = TRUE] ELSE account[a]]
      BY <2>2 DEF ApproveWrite
    <3> QED BY <1>1, <3>1, <3>2 DEF TablesOK
  <2> QED BY <2>1, <2>2
<1>5. TablesOK'
  BY <1>1, <1>2, <1>3, <1>4 DEF TablesOK
<1>6. \A i \in Invites : Made(i) => Made(i)'
  BY <1>4 DEF Made
<1> QED BY <1>2, <1>5, <1>6, LastWriteKeeps

\* The company's row is written back as it was read.
LEMMA EditWriteKeeps ==
  ASSUME IInv, NEW h \in Handlers, EditWrite(h)
  PROVE  IInv'
<1> DEFINE me == handler[h]
           com == [status |-> me.status, number |-> me.number]
<1>1. TablesOK /\ LocalOK(me)
  BY DEF IInv, Typed
<1>2. /\ company' = [company EXCEPT ![me.company] = com] /\ Done(h)
      /\ UNCHANGED <<account, invite, crashes>>
  BY DEF EditWrite
<1>3. com \in CompanyRow
  BY <1>1 DEF LocalOK, Locals, CompanyRow
<1> HIDE DEF com, me
<1>4. TablesOK'
  BY <1>1, <1>2, <1>3 DEF TablesOK
<1> QED BY <1>2, <1>4, MadeStays, LastWriteKeeps

LEMMA CrashKeeps ==
  ASSUME IInv, NEW h \in Handlers, Crash(h)
  PROVE  IInv'
<1>1. /\ Done(h) /\ UNCHANGED <<company, account, invite>>
      /\ crashes < MaxCrashes /\ crashes' = crashes + 1
  BY DEF Crash
<1>2. TablesOK
  BY DEF IInv, Typed
<1>3. crashes' \in 0..MaxCrashes
  BY <1>1, <1>2, CrashAssumption DEF TablesOK
<1>4. TablesOK'
  BY <1>1, <1>2, <1>3 DEF TablesOK
<1> QED BY <1>1, <1>4, MadeStays, LastWriteKeeps

-----------------------------------------------------------------------------
(* The theorems for requests that overlap. *)

LEMMA InitHolds == Init => IInv
<1> SUFFICES ASSUME Init PROVE IInv
  OBVIOUS
<1>1. Typed
  <2>1. Idle \in Locals
    BY IdleOK DEF LocalOK
  <2>2. \A h \in Handlers : handler[h] = Idle
    BY DEF Init
  <2> QED BY <2>1, <2>2, IdleOK, RowTypes, CrashAssumption DEF Init, Typed, TablesOK
<1>2. \A i \in Invites : invite[i].status = "absent"
  BY DEF Init, NoInvite
<1>3. \A h \in Handlers : handler[h].step = "idle"
  BY DEF Init, Idle
<1> QED BY <1>1, <1>2, <1>3 DEF IInv, AcceptedHasAccount

\* The writes, once more, for the case analysis.
LEMMA NextCases ==
  ASSUME Next
  PROVE  \/ \E i \in Invites : \/ TimePasses(i)
                               \/ \E h \in Handlers : ResendInvite(h, i) \/ ExpireInvite(h, i)
         \/ \E h \in Handlers : ReadAction(h)
         \/ \E h \in Handlers, i \in Invites : InviteAccountWrite(h, i)
         \/ \E h \in Handlers, i \in Invites, c \in Companies : InviteCarrierWrite(h, i, c)
         \/ \E h \in Handlers : DeclineWrite(h) \/ RetrieveWrite(h) \/ ExpireWrite(h)
                                  \/ CarrierAccept(h)
         \/ \E h \in Handlers : CarrierCompany(h)
         \/ \E h \in Handlers : CarrierAccount(h)
         \/ \E h \in Handlers : CommonWrite(h) \/ DriverWrite(h)
         \/ \E h \in Handlers : RegisterWrite(h) \/ \E c \in Companies : CarrierNewWrite(h, c)
         \/ \E h \in Handlers : ConfirmWrite(h) \/ ApproveWrite(h)
         \/ \E h \in Handlers : EditWrite(h)
         \/ \E h \in Handlers : Crash(h)
<1>1. CASE \E i \in Invites : TimePasses(i)
  BY <1>1
<1>2. ASSUME NEW h \in Handlers, Crash(h)
      PROVE  \E g \in Handlers : Crash(g)
  BY <1>2
<1>3. CASE \E h \in Handlers : InviteStep(h)
  BY <1>3 DEF InviteStep, ReadAction
<1>4. CASE \E h \in Handlers : RegisterStep(h)
  BY <1>4 DEF RegisterStep, ReadAction
<1> QED BY <1>1, <1>2, <1>3, <1>4 DEF Next

LEMMA NextKeeps == IInv /\ [Next]_vars => IInv'
<1> SUFFICES ASSUME IInv, [Next]_vars PROVE IInv'
  OBVIOUS
<1>1. CASE UNCHANGED vars
  BY <1>1 DEF vars, IInv, Typed, TablesOK, AcceptedHasAccount, Made
<1>2. CASE Next
  BY <1>2, NextCases, TimeKeeps, ReadKeeps, InviteAccountWriteKeeps, InviteCarrierWriteKeeps,
     AnswerKeeps, CarrierCompanyKeeps, CarrierAccountKeeps, InvitedWriteKeeps, OwnWriteKeeps,
     ApprovalKeeps, EditWriteKeeps, CrashKeeps
<1> QED BY <1>1, <1>2

\* Every request is about rows that exist, and carrier() marks an invitation
\* only after its account: whatever overlaps and wherever it stops.
THEOREM Invariance == Spec => []IInv
<1> QED BY InitHolds, NextKeeps, PTL DEF Spec

\* The tables and the locals of the requests have their types.
THEOREM TypeCorrect == Spec => []TypeOK
<1>1. IInv => TypeOK
  BY DEF IInv, Typed, TablesOK, TypeOK
<1> QED BY <1>1, Invariance, PTL

\* An accepted invitation has made an account, whatever overlaps and wherever
\* a request is cut off.
THEOREM AcceptedHasAccountHolds == Spec => []AcceptedHasAccount
<1>1. IInv => AcceptedHasAccount
  BY DEF IInv
<1> QED BY <1>1, Invariance, PTL

-----------------------------------------------------------------------------
(* One request at a time. *)

Registered(c) == company[c].status \in {"requested", "active"}
\* A carrier is asked to register by invitation i; its number.
Asked(i) == invite[i].status = "pending" /\ invite[i].role = "company_admin"
NumberOf(i) == company[invite[i].company].number

\* What a request read is still so when it writes.
InviteFacts(r) ==
  /\ r.step \in AboutInvite => invite[r.invite].status = "pending"
  /\ r.step = "carrier" => Asked(r.invite) /\ r.company = invite[r.invite].company
  /\ r.step = "expire" => \A i \in r.found : invite[i].status = "pending"

CompanyFacts(r) ==
  /\ r.step = "inviteCarrier" /\ r.invite = NoOne =>
       /\ \A i \in Invites : Asked(i) => NumberOf(i) # r.number
       /\ \A c \in Companies : Registered(c) => company[c].number # r.number
  /\ r.step = "inviteCarrier" /\ r.invite # NoOne =>
       Asked(r.invite) /\ NumberOf(r.invite) = r.number
  /\ r.step = "carrierNew" => \A c \in Companies : company[c].number # r.number
  /\ r.step = "approve" => r.company \in Companies /\ Registered(r.company)
  /\ r.step = "edit" => company[r.company] = [status |-> r.status, number |-> r.number]

\* A carrier is asked once, and if one with its number is registered, it is
\* the one that is asked.
Carriers ==
  /\ \A i \in Invites : Asked(i) =>
       invite[i].company \in Companies /\ company[invite[i].company].status # "absent"
  /\ \A i, j \in Invites : Asked(i) /\ Asked(j) /\ NumberOf(i) = NumberOf(j) => i = j
  /\ \A i \in Invites, c \in Companies :
       Asked(i) /\ Registered(c) /\ company[c].number = NumberOf(i) => c = invite[i].company
  /\ OneCarrierPerNumber

SInv ==
  /\ IInv
  /\ \A h \in Handlers : InviteFacts(handler[h]) /\ CompanyFacts(handler[h])
  /\ Carriers

OneHandler == \A g, h \in Handlers : g = h
KeepsNumbers == "renumber" \notin Calls

FactsOK == \A h \in Handlers : InviteFacts(handler[h]) /\ CompanyFacts(handler[h])

LEMMA DoneFacts ==
  ASSUME IInv, OneHandler, NEW h \in Handlers, Done(h)
  PROVE  FactsOK'
<1>1. \A g \in Handlers : handler'[g].step = "idle"
  BY DoneTyped DEF IInv, OneHandler, Idle
<1> QED BY <1>1 DEF FactsOK, InviteFacts, CompanyFacts, AboutInvite

\* The companies stay and no invitation begins to ask.
LEMMA FewerAsked ==
  ASSUME Carriers, UNCHANGED company,
         \A i \in Invites : Asked(i)' => Asked(i) /\ invite'[i].company = invite[i].company
  PROVE  Carriers'
BY DEF Carriers, Asked, NumberOf, Registered, OneCarrierPerNumber

\* The invitations stay and company c, which is asked or registered, becomes
\* or stays registered.
LEMMA OneMoreRegistered ==
  ASSUME SInv, NEW c \in Companies,
         Registered(c) \/ \E i \in Invites : Asked(i) /\ invite[i].company = c,
         NEW s \in {"requested", "active"},
         company' = [company EXCEPT ![c].status = s], UNCHANGED invite
  PROVE  Carriers'
<1>1. TablesOK /\ Carriers
  BY DEF SInv, IInv, Typed
<1>2. s \in COMPANY_STATUSES
  BY DEF COMPANY_STATUSES
<1>3. /\ \A d \in Companies : company'[d].number = company[d].number
      /\ company'[c].status = s
      /\ \A d \in Companies : d # c => company'[d] = company[d]
  BY <1>1, <1>2, CompanyStatusRows
<1>4. \A i \in Invites : (Asked(i)' <=> Asked(i))
  BY DEF Asked
<1>5. \A d \in Companies : Registered(d)' => Registered(d) \/ d = c
  BY <1>3 DEF Registered
<1>6. \A i \in Invites : Asked(i) => /\ invite[i].company \in Companies
                                     /\ company[invite[i].company].status # "absent"
  BY <1>1 DEF Carriers
<1>7. \A i \in Invites : Asked(i) => NumberOf(i)' = NumberOf(i)
  BY <1>3, <1>6 DEF NumberOf
<1>8. \A d \in Companies : Registered(d) /\ company[d].number = company[c].number => d = c
  BY <1>1 DEF Carriers, NumberOf, OneCarrierPerNumber, Registered
<1>9. \A i \in Invites : Asked(i) /\ NumberOf(i) = company[c].number => invite[i].company = c
  BY <1>1 DEF Carriers, NumberOf
<1>10. \A i \in Invites : Asked(i)' =>
         invite'[i].company \in Companies /\ company'[invite'[i].company].status # "absent"
  BY <1>3, <1>4, <1>6
<1>11. \A i, j \in Invites : Asked(i)' /\ Asked(j)' /\ NumberOf(i)' = NumberOf(j)' => i = j
  BY <1>1, <1>4, <1>7 DEF Carriers
<1>12. \A i \in Invites, d \in Companies :
         Asked(i)' /\ Registered(d)' /\ company'[d].number = NumberOf(i)' => d = invite'[i].company
  <2> SUFFICES ASSUME NEW i \in Invites, NEW d \in Companies,
                      Asked(i)', Registered(d)', company'[d].number = NumberOf(i)'
               PROVE  d = invite'[i].company
    OBVIOUS
  <2>1. Asked(i) /\ NumberOf(i)' = NumberOf(i) /\ company[d].number = NumberOf(i)
    BY <1>3, <1>4, <1>7
  <2>2. CASE d = c
    BY <1>9, <2>1, <2>2
  <2>3. CASE Registered(d)
    BY <1>1, <2>1, <2>3 DEF Carriers
  <2> QED BY <1>5, <2>2, <2>3
<1>13. OneCarrierPerNumber'
  <2> SUFFICES ASSUME NEW d \in Companies, NEW e \in Companies,
                      Registered(d)', Registered(e)', company'[d].number = company'[e].number
               PROVE  d = e
    BY DEF OneCarrierPerNumber, Registered
  <2>1. company[d].number = company[e].number
    BY <1>3
  <2>2. CASE d = c \/ e = c
    BY <1>5, <1>8, <2>1, <2>2
  <2>3. CASE Registered(d) /\ Registered(e)
    BY <1>1, <2>1, <2>3 DEF Carriers, OneCarrierPerNumber, Registered
  <2> QED BY <1>5, <2>2, <2>3
<1> QED BY <1>10, <1>11, <1>12, <1>13 DEF Carriers

LEMMA CarrierNewCarriers ==
  ASSUME SInv, NEW h \in Handlers, NEW c \in Companies, CarrierNewWrite(h, c)
  PROVE  Carriers'
<1> DEFINE me == handler[h]
           com == [status |-> "requested", number |-> me.number]
<1>1. TablesOK /\ Carriers /\ CompanyFacts(me) /\ me.step = "carrierNew"
  BY DEF SInv, IInv, Typed, CarrierNewWrite
<1>2. /\ company[c] = NoCompany /\ company' = [company EXCEPT ![c] = com]
      /\ UNCHANGED invite
  BY DEF CarrierNewWrite
<1>3. com.status = "requested" /\ com.number = me.number /\ company[c].status = "absent"
  BY <1>2 DEF NoCompany
<1> HIDE DEF com, me
<1>4. company'[c] = com /\ \A d \in Companies : d # c => company'[d] = company[d]
  BY <1>1, <1>2 DEF TablesOK
<1>5. \A d \in Companies : company[d].number # me.number
  BY <1>1 DEF CompanyFacts
<1>6. \A i \in Invites : Asked(i)' =>
        /\ Asked(i) /\ invite'[i].company = invite[i].company
        /\ invite[i].company \in Companies \ {c}
        /\ company[invite[i].company].status # "absent"
        /\ NumberOf(i)' = NumberOf(i) /\ NumberOf(i) # me.number
  BY <1>1, <1>2, <1>3, <1>4, <1>5 DEF Carriers, Asked, NumberOf
<1>7. \A d \in Companies \ {c} : Registered(d)' => Registered(d) /\ company'[d].number # me.number
  BY <1>4, <1>5 DEF Registered
<1>8. OneCarrierPerNumber'
  BY <1>1, <1>3, <1>4, <1>7 DEF Carriers, OneCarrierPerNumber, Registered
<1>9. \A i \in Invites : Asked(i)' =>
        invite'[i].company \in Companies /\ company'[invite'[i].company].status # "absent"
  BY <1>4, <1>6
<1>10. \A i, j \in Invites : Asked(i)' /\ Asked(j)' /\ NumberOf(i)' = NumberOf(j)' => i = j
  BY <1>1, <1>6 DEF Carriers
<1>11. \A i \in Invites, d \in Companies :
         Asked(i)' /\ Registered(d)' /\ company'[d].number = NumberOf(i)' => d = invite'[i].company
  BY <1>1, <1>3, <1>4, <1>6, <1>7 DEF Carriers
<1> QED BY <1>8, <1>9, <1>10, <1>11 DEF Carriers

LEMMA InviteCarrierCarriers ==
  ASSUME SInv, NEW h \in Handlers, NEW i \in Invites, NEW c \in Companies,
         InviteCarrierWrite(h, i, c)
  PROVE  Carriers'
<1> DEFINE me == handler[h]
           n == me.number
           p == me.invite
<1>1. TablesOK /\ LocalOK(me) /\ Carriers /\ CompanyFacts(me) /\ me.step = "inviteCarrier"
  BY DEF SInv, IInv, Typed, InviteCarrierWrite
<1>2. /\ p = NoOne => company[c] = NoCompany
      /\ p # NoOne => c = invite[p].company
  BY DEF InviteCarrierWrite
<1>3. /\ company'[c].status = "invited" /\ company'[c].number = n
      /\ \A d \in Companies : d # c => company'[d] = company[d]
      /\ invite[i].status = "absent"
      /\ p # i
      /\ invite'[i].status = "pending" /\ invite'[i].role = "company_admin"
      /\ invite'[i].company = c
      /\ p # NoOne => p \in Invites /\ invite'[p].status = "expired"
      /\ \A j \in Invites \ {i, p} : invite'[j] = invite[j]
  BY <1>1, InviteCarrierWriteDoes
<1> HIDE DEF n, p, me
\* The others that ask are of other companies and numbers.
<1>4. \A j \in Invites : Asked(j)' /\ j # i =>
        /\ Asked(j) /\ invite'[j].company = invite[j].company
        /\ invite[j].company \in Companies
        /\ company[invite[j].company].status # "absent"
        /\ NumberOf(j) # n
  <2> SUFFICES ASSUME NEW j \in Invites, Asked(j)', j # i
               PROVE  /\ Asked(j) /\ invite'[j].company = invite[j].company
                      /\ invite[j].company \in Companies
                      /\ company[invite[j].company].status # "absent"
                      /\ NumberOf(j) # n
    OBVIOUS
  <2>1. j # p
    BY <1>3, NoOneAssumption DEF Asked
  <2>2. invite'[j] = invite[j] /\ Asked(j)
    BY <1>3, <2>1 DEF Asked
  <2>3. invite[j].company \in Companies /\ company[invite[j].company].status # "absent"
    BY <1>1, <2>2 DEF Carriers
  <2>4. CASE p = NoOne
    <3>1. \A k \in Invites : Asked(k) => NumberOf(k) # n
      BY <1>1, <2>4 DEF CompanyFacts, me, n, p
    <3> QED BY <2>2, <2>3, <3>1
  <2>5. CASE p # NoOne
    <3>1. Asked(p) /\ NumberOf(p) = n
      BY <1>1, <2>5 DEF CompanyFacts, me, n, p
    <3>2. NumberOf(j) # n
      BY <1>1, <1>3, <2>1, <2>2, <2>5, <3>1 DEF Carriers
    <3> QED BY <2>2, <2>3, <3>2
  <2> QED BY <2>4, <2>5
\* And no other company with the number is registered.
<1>5. \A d \in Companies : Registered(d)' => Registered(d) /\ d # c /\ company[d].number # n
  <2> SUFFICES ASSUME NEW d \in Companies, Registered(d)'
               PROVE  Registered(d) /\ d # c /\ company[d].number # n
    OBVIOUS
  <2>1. d # c
    BY <1>3 DEF Registered
  <2>2. Registered(d)
    BY <1>3, <2>1 DEF Registered
  <2>3. CASE p = NoOne
    BY <1>1, <2>1, <2>2, <2>3 DEF CompanyFacts, me, n, p
  <2>4. CASE p # NoOne
    <3>1. Asked(p) /\ NumberOf(p) = n /\ p \in Invites
      BY <1>1, <1>3, <2>4 DEF CompanyFacts, me, n, p
    <3>2. company[d].number = n => d = c
      BY <1>1, <1>2, <2>2, <2>4, <3>1 DEF Carriers
    <3> QED BY <2>1, <2>2, <3>2
  <2> QED BY <2>3, <2>4
<1>6. \A j \in Invites : Asked(j)' /\ j # i => invite[j].company # c
  <2>1. CASE p = NoOne
    BY <1>2, <1>4, <2>1 DEF NoCompany
  <2>2. CASE p # NoOne
    <3>1. NumberOf(p) = n
      BY <1>1, <2>2 DEF CompanyFacts, me, n, p
    <3> QED BY <1>2, <1>4, <2>2, <3>1 DEF NumberOf
  <2> QED BY <2>1, <2>2
<1>7. \A j \in Invites : Asked(j)' /\ j # i => NumberOf(j)' = NumberOf(j)
  BY <1>3, <1>4, <1>6 DEF NumberOf
<1>8. NumberOf(i)' = n
  BY <1>3 DEF NumberOf
<1>9. \A j \in Invites : Asked(j)' =>
        invite'[j].company \in Companies /\ company'[invite'[j].company].status # "absent"
  BY <1>3, <1>4, <1>6
<1>10. \A j, k \in Invites : Asked(j)' /\ Asked(k)' /\ NumberOf(j)' = NumberOf(k)' => j = k
  BY <1>1, <1>4, <1>7, <1>8 DEF Carriers
<1>11. \A j \in Invites, d \in Companies :
         Asked(j)' /\ Registered(d)' /\ company'[d].number = NumberOf(j)' => d = invite'[j].company
  BY <1>1, <1>3, <1>4, <1>5, <1>7, <1>8 DEF Carriers
<1>12. OneCarrierPerNumber'
  BY <1>1, <1>3, <1>5 DEF Carriers, OneCarrierPerNumber, Registered
<1> QED BY <1>9, <1>10, <1>11, <1>12 DEF Carriers

\* What a read finds holds until its request writes.
LEMMA ReadFacts ==
  ASSUME SInv, KeepsNumbers, NEW h \in Handlers, ReadAction(h)
  PROVE  \E r : Read(h, r) /\ LocalOK(r) /\ InviteFacts(r) /\ CompanyFacts(r)
<1>1. CASE \E c \in Companies, e \in Emails, r \in {"dispatcher", "driver"} :
             InviteAccountRead(h, c, e, r)
  <2>1. PICK c \in Companies, e \in Emails, r \in {"dispatcher", "driver"} :
               InviteAccountRead(h, c, e, r)
    BY <1>1
  <2> DEFINE r0 == [Idle EXCEPT !.step = "inviteAccount", !.company = c, !.email = e, !.role = r]
  <2>2. Read(h, r0) /\ Fits(r0, "inviteAccount", NoOne, c, NoOne, {})
    BY <2>1, InviteAccountFit DEF InviteAccountRead
  <2> HIDE DEF r0
  <2> QED BY <2>2 DEF Fits, InviteFacts, CompanyFacts, AboutInvite
<1>2. CASE \E n \in Numbers, e \in Emails : InviteCarrierRead(h, n, e)
  <2>1. PICK n \in Numbers, e \in Emails : InviteCarrierRead(h, n, e)
    BY <1>2
  <2>2. CASE PendingCarrier(n) # {}
    <3>1. PICK p \in PendingCarrier(n) :
            Read(h, [Idle EXCEPT !.step = "inviteCarrier", !.invite = p, !.email = e, !.number = n])
      BY <2>1, <2>2 DEF InviteCarrierRead
    <3> DEFINE r0 == [Idle EXCEPT !.step = "inviteCarrier", !.invite = p, !.email = e, !.number = n]
    <3>2. p \in Invites /\ Asked(p) /\ NumberOf(p) = n
      BY <3>1 DEF PendingCarrier, Asked, NumberOf
    <3>3. Read(h, r0) /\ Fits(r0, "inviteCarrier", p, NoOne, n, {})
      BY <3>1, <3>2, InviteAgainFit
    <3>4. p # NoOne
      BY <3>2, NoOneAssumption
    <3> HIDE DEF r0
    <3> QED BY <3>2, <3>3, <3>4 DEF Fits, InviteFacts, CompanyFacts, AboutInvite
  <2>3. CASE PendingCarrier(n) = {}
    <3> DEFINE r0 == [Idle EXCEPT !.step = "inviteCarrier", !.email = e, !.number = n]
    <3>1. Read(h, r0) /\ Fits(r0, "inviteCarrier", NoOne, NoOne, n, {})
      BY <2>1, <2>3, InviteCarrierFit DEF InviteCarrierRead
    <3>2. \A c \in Companies : Registered(c) => company[c].number # n
      BY <2>1, <2>3 DEF InviteCarrierRead, Registered
    <3>3. \A i \in Invites : Asked(i) => NumberOf(i) # n
      BY <2>3 DEF PendingCarrier, Asked, NumberOf
    <3> HIDE DEF r0
    <3> QED BY <3>1, <3>2, <3>3 DEF Fits, InviteFacts, CompanyFacts, AboutInvite
  <2> QED BY <2>2, <2>3
<1>3. ASSUME NEW i \in Invites, NEW s \in {"decline", "retrieve", "common", "driver"},
             invite[i].status = "pending", Read(h, [Idle EXCEPT !.step = s, !.invite = i])
      PROVE  \E r : Read(h, r) /\ LocalOK(r) /\ InviteFacts(r) /\ CompanyFacts(r)
  <2> DEFINE r0 == [Idle EXCEPT !.step = s, !.invite = i]
  <2>1. Read(h, r0) /\ Fits(r0, s, i, NoOne, NoOne, {})
    BY <1>3, AboutInviteFit
  <2> HIDE DEF r0
  <2> QED BY <1>3, <2>1 DEF Fits, InviteFacts, CompanyFacts, AboutInvite
<1>4. CASE ExpireRead(h)
  <2>1. CASE LatePending = {}
    <3>1. Read(h, Idle)
      BY <1>4, <2>1 DEF ExpireRead, Read, Done
    <3>2. Idle.step = "idle"
      BY DEF Idle
    <3> QED BY <3>1, <3>2, IdleOK DEF Fits, InviteFacts, CompanyFacts, AboutInvite
  <2>2. CASE LatePending # {}
    <3> DEFINE r0 == [Idle EXCEPT !.step = "expire", !.found = LatePending]
    <3>1. LatePending \in SUBSET Invites /\ \A i \in LatePending : invite[i].status = "pending"
      BY DEF LatePending
    <3>2. Read(h, r0) /\ Fits(r0, "expire", NoOne, NoOne, NoOne, LatePending)
      BY <1>4, <2>2, <3>1, ExpireFit DEF ExpireRead, Read
    <3> HIDE DEF r0
    <3> QED BY <3>1, <3>2 DEF Fits, InviteFacts, CompanyFacts, AboutInvite
  <2> QED BY <2>1, <2>2
<1>5. ASSUME NEW i \in Invites, CarrierRead(h, i)
      PROVE  \E r : Read(h, r) /\ LocalOK(r) /\ InviteFacts(r) /\ CompanyFacts(r)
  <2> DEFINE r0 == [Idle EXCEPT !.step = "carrier", !.invite = i, !.company = invite[i].company]
  <2>1. invite[i].company \in Companies \cup {NoOne}
    BY DEF SInv, IInv, Typed, TablesOK, InviteRow
  <2>2. Read(h, r0) /\ Fits(r0, "carrier", i, invite[i].company, NoOne, {})
    BY <1>5, <2>1, CarrierFit DEF CarrierRead
  <2>3. Asked(i)
    BY <1>5 DEF CarrierRead, Valid, Asked
  <2> HIDE DEF r0
  <2> QED BY <2>2, <2>3 DEF Fits, InviteFacts, CompanyFacts, AboutInvite, Asked
<1>6. ASSUME NEW n \in Numbers, NEW e \in Emails, CarrierNewRead(h, n, e)
      PROVE  \E r : Read(h, r) /\ LocalOK(r) /\ InviteFacts(r) /\ CompanyFacts(r)
  <2> DEFINE r0 == [Idle EXCEPT !.step = "carrierNew", !.email = e, !.number = n]
  <2>1. Read(h, r0) /\ Fits(r0, "carrierNew", NoOne, NoOne, n, {})
    BY <1>6, CarrierNewFit DEF CarrierNewRead
  <2>2. \A c \in Companies : company[c].number # n
    BY <1>6 DEF CarrierNewRead
  <2> HIDE DEF r0
  <2> QED BY <2>1, <2>2 DEF Fits, InviteFacts, CompanyFacts, AboutInvite
<1>7. ASSUME NEW e \in Emails, NEW ro \in {"driver", "client"}, RegisterRead(h, e, ro)
      PROVE  \E r : Read(h, r) /\ LocalOK(r) /\ InviteFacts(r) /\ CompanyFacts(r)
  <2> DEFINE r0 == [Idle EXCEPT !.step = "register", !.email = e, !.role = ro]
  <2>1. Read(h, r0) /\ Fits(r0, "register", NoOne, NoOne, NoOne, {})
    BY <1>7, RegisterFit DEF RegisterRead
  <2> HIDE DEF r0
  <2> QED BY <2>1 DEF Fits, InviteFacts, CompanyFacts, AboutInvite
<1>8. ASSUME NEW a \in Accounts, ConfirmRead(h, a)
      PROVE  \E r : Read(h, r) /\ LocalOK(r) /\ InviteFacts(r) /\ CompanyFacts(r)
  <2> DEFINE r0 == [Idle EXCEPT !.step = "confirm", !.account = a]
  <2>1. Read(h, r0) /\ Fits(r0, "confirm", NoOne, NoOne, NoOne, {})
    BY <1>8, ConfirmFit DEF ConfirmRead
  <2> HIDE DEF r0
  <2> QED BY <2>1 DEF Fits, InviteFacts, CompanyFacts, AboutInvite
<1>9. ASSUME NEW c \in Companies, ApproveRead(h, c)
      PROVE  \E r : Read(h, r) /\ LocalOK(r) /\ InviteFacts(r) /\ CompanyFacts(r)
  <2> DEFINE r0 == [Idle EXCEPT !.step = "approve", !.company = c]
  <2>1. Read(h, r0) /\ Fits(r0, "approve", NoOne, c, NoOne, {}) /\ Registered(c)
    BY <1>9, ApproveFit DEF ApproveRead, Registered
  <2> HIDE DEF r0
  <2> QED BY <2>1 DEF Fits, InviteFacts, CompanyFacts, AboutInvite
<1>10. CASE \E i \in Invites : DeclineRead(h, i) \/ RetrieveRead(h, i)
  BY <1>3, <1>10 DEF DeclineRead, RetrieveRead, Valid
<1>11. CASE \E i \in Invites : CommonRead(h, i) \/ DriverRead(h, i)
  BY <1>3, <1>11 DEF CommonRead, DriverRead, Valid
<1>12. ASSUME NEW c \in Companies, PatchCompanyRead(h, c) \/ \E n \in Numbers : CarrierEditRead(h, c, n)
       PROVE  \E r : Read(h, r) /\ LocalOK(r) /\ InviteFacts(r) /\ CompanyFacts(r)
  <2> DEFINE n0 == company[c].number
             s0 == company[c].status
             r0 == [Idle EXCEPT !.step = "edit", !.company = c, !.number = n0, !.status = s0]
  <2>1. /\ s0 \in COMPANY_STATUSES \cup {"absent"} /\ n0 \in Numbers \cup {NoOne}
        /\ company[c] = [status |-> s0, number |-> n0]
    BY DEF SInv, IInv, Typed, TablesOK, CompanyRow
  <2>2. Read(h, r0)
    BY <1>12 DEF PatchCompanyRead, CarrierEditRead, KeepsNumbers
  <2> HIDE DEF s0, n0
  <2>3. Fits(r0, "edit", NoOne, c, n0, {})
    BY <2>1, EditFit
  <2>4. r0.status = s0
    BY DEF Idle
  <2> HIDE DEF r0
  <2> QED BY <2>1, <2>2, <2>3, <2>4 DEF Fits, InviteFacts, CompanyFacts, AboutInvite
<1> QED BY <1>1, <1>2, <1>4, <1>5, <1>6, <1>7, <1>8, <1>9, <1>10, <1>11, <1>12 DEF ReadAction

LEMMA SerialReads ==
  ASSUME SInv, OneHandler, KeepsNumbers, NEW h \in Handlers, ReadAction(h)
  PROVE  FactsOK' /\ Carriers'
<1>1. PICK r : Read(h, r) /\ LocalOK(r) /\ InviteFacts(r) /\ CompanyFacts(r)
  BY ReadFacts
<1>2. Keep(h, r) /\ UNCHANGED <<company, account, invite>>
  BY <1>1 DEF Read
<1>3. \A g \in Handlers : handler'[g] = r
  BY <1>1, <1>2, KeepTyped DEF SInv, IInv, OneHandler
<1>4. FactsOK'
  BY <1>1, <1>2, <1>3 DEF FactsOK, InviteFacts, CompanyFacts, Asked, NumberOf, Registered
<1>5. Carriers'
  BY <1>2, FewerAsked DEF SInv, Asked
<1> QED BY <1>4, <1>5

\* The writes that leave the companies and only answer invitations, let their
\* time pass, or invite someone to work for a carrier.
LEMMA SerialInviteWrites ==
  ASSUME SInv, OneHandler, NEW h \in Handlers, NEW i \in Invites,
         \/ InviteAccountWrite(h, i) \/ ResendInvite(h, i) \/ ExpireInvite(h, i)
         \/ TimePasses(i)
  PROVE  FactsOK' /\ Carriers'
<1>1. Typed /\ TablesOK /\ UNCHANGED company
  BY DEF SInv, IInv, Typed, InviteAccountWrite, ResendInvite, ExpireInvite, TimePasses
<1>2. CASE InviteAccountWrite(h, i)
  <2> DEFINE me == handler[h]
             row == [status |-> "pending", role |-> me.role, email |-> me.email,
                     company |-> me.company, late |-> FALSE]
  <2>1. invite' = [invite EXCEPT ![i] = row] /\ Done(h) /\ me.step = "inviteAccount"
    BY <1>2 DEF InviteAccountWrite
  <2>2. row.role # "company_admin"
    BY <1>1, <2>1 DEF Typed, LocalOK
  <2> HIDE DEF row, me
  <2>3. \A j \in Invites : Asked(j)' => Asked(j) /\ invite'[j].company = invite[j].company
    BY <1>1, <2>1, <2>2 DEF Asked, TablesOK
  <2> QED BY <1>1, <2>1, <2>3, FewerAsked, DoneFacts DEF SInv
<1>3. CASE ResendInvite(h, i) \/ ExpireInvite(h, i) \/ TimePasses(i)
  <2>1. PICK b \in BOOLEAN : invite' = [invite EXCEPT ![i].late = b]
    BY <1>3 DEF ResendInvite, ExpireInvite, TimePasses
  <2>2. \A j \in Invites : /\ invite'[j].status = invite[j].status
                           /\ invite'[j].role = invite[j].role
                           /\ invite'[j].company = invite[j].company
    BY <1>1, <2>1, LateKeeps
  <2>3. Carriers'
    BY <1>1, <2>2, FewerAsked DEF SInv, Asked
  <2>4. CASE UNCHANGED handler
    <3>1. ASSUME NEW g \in Handlers
          PROVE  InviteFacts(handler[g])' /\ CompanyFacts(handler[g])'
      <4>1. /\ handler'[g] = handler[g] /\ handler[g] \in Locals
            /\ handler[g].step \in AboutInvite => handler[g].invite \in Invites
            /\ handler[g].found \subseteq Invites
            /\ handler[g].invite # NoOne => handler[g].invite \in Invites
        BY <1>1, <2>4 DEF Typed, LocalOK, Locals
      <4>2. InviteFacts(handler[g]) /\ CompanyFacts(handler[g])
        BY DEF SInv
      <4>3. \A j \in Invites : (Asked(j)' <=> Asked(j)) /\ NumberOf(j)' = NumberOf(j)
        BY <1>1, <2>2 DEF Asked, NumberOf
      <4>4. \A c \in Companies : Registered(c)' <=> Registered(c)
        BY <1>1 DEF Registered
      <4>5. InviteFacts(handler[g])'
        BY <2>2, <4>1, <4>2, <4>3 DEF InviteFacts, AboutInvite
      <4>6. CompanyFacts(handler[g])'
        BY <1>1, <4>1, <4>2, <4>3, <4>4 DEF CompanyFacts
      <4> QED BY <4>5, <4>6
    <3> QED BY <2>3, <3>1 DEF FactsOK
  <2>5. CASE ExpireInvite(h, i)
    <3> DEFINE r0 == [Idle EXCEPT !.step = "find"]
    <3>1. Keep(h, r0) /\ Fits(r0, "find", NoOne, NoOne, NoOne, {})
      BY <2>5, FindFit DEF ExpireInvite
    <3> HIDE DEF r0
    <3>2. \A g \in Handlers : handler'[g].step = "find"
      BY <1>1, <3>1, KeepTyped DEF Fits, OneHandler
    <3> QED BY <2>3, <3>2 DEF FactsOK, InviteFacts, CompanyFacts, AboutInvite
  <2> QED BY <1>3, <2>4, <2>5 DEF ResendInvite, TimePasses
<1> QED BY <1>2, <1>3

\* The last writes of the requests that answer invitations or make accounts:
\* what they change in the invitations, they change in pending ones.
Answering(h) ==
  DeclineWrite(h) \/ RetrieveWrite(h) \/ ExpireWrite(h) \/ CarrierAccept(h)
    \/ CommonWrite(h) \/ DriverWrite(h)

LEMMA AnswersPending ==
  ASSUME SInv, NEW h \in Handlers, Answering(h)
  PROVE  /\ Done(h) /\ UNCHANGED company
         /\ \A i \in Invites :
              /\ invite'[i].role = invite[i].role
              /\ invite'[i].company = invite[i].company
              /\ \/ invite'[i] = invite[i]
                 \/ invite[i].status = "pending" /\ invite'[i].status # "pending"
<1> DEFINE me == handler[h]
<1>1. TablesOK /\ LocalOK(me) /\ InviteFacts(me)
  BY DEF SInv, IInv, Typed
<1>2. Done(h) /\ UNCHANGED company
  BY DEF Answering, DeclineWrite, RetrieveWrite, ExpireWrite, CarrierAccept, CommonWrite,
     DriverWrite
<1>3. {"declined", "expired", "accepted"} \subseteq INVITE_STATUS
  BY DEF INVITE_STATUS
<1>4. ASSUME NEW is, NEW s \in {"declined", "expired", "accepted"}, SetStatus(is, s),
             \A i \in is : invite[i].status = "pending"
      PROVE  \A i \in Invites :
               /\ invite'[i].role = invite[i].role
               /\ invite'[i].company = invite[i].company
               /\ \/ invite'[i] = invite[i]
                  \/ invite[i].status = "pending" /\ invite'[i].status # "pending"
  <2>1. s \in INVITE_STATUS
    BY <1>3
  <2>2. \A i \in Invites :
          /\ invite'[i].role = invite[i].role /\ invite'[i].company = invite[i].company
          /\ i \in is => invite'[i].status = s
          /\ i \notin is => invite'[i] = invite[i]
    BY <1>1, <1>4, <2>1, SetStatusRows
  <2> QED BY <1>4, <2>2
<1>5. CASE ExpireWrite(h)
  <2>1. SetStatus(me.found, "expired") /\ \A i \in me.found : invite[i].status = "pending"
    BY <1>1, <1>5 DEF ExpireWrite, InviteFacts
  <2> QED BY <1>2, <1>4, <2>1
<1>6. CASE RetrieveWrite(h)
  <2> DEFINE i == me.invite
             row == [invite[i] EXCEPT !.status = "expired", !.late = TRUE]
  <2>1. i \in Invites /\ invite[i] \in InviteRow /\ invite[i].status = "pending"
    BY <1>1, <1>6 DEF RetrieveWrite, LocalOK, AboutInvite, TablesOK, InviteFacts
  <2>2. /\ row.status = "expired" /\ row.role = invite[i].role
        /\ row.company = invite[i].company
    BY <2>1 DEF InviteRow
  <2>3. invite' = [invite EXCEPT ![i] = row]
    BY <1>1, <1>6, <2>1 DEF RetrieveWrite, TablesOK
  <2> HIDE DEF row
  <2> QED BY <1>1, <1>2, <2>1, <2>2, <2>3 DEF TablesOK
<1>7. CASE DeclineWrite(h)
  <2>1. SetStatus({me.invite}, "declined") /\ invite[me.invite].status = "pending"
    BY <1>1, <1>7 DEF DeclineWrite, InviteFacts, AboutInvite
  <2> QED BY <1>2, <1>4, <2>1
<1>8. CASE CarrierAccept(h) \/ CommonWrite(h) \/ DriverWrite(h)
  <2>1. SetStatus({me.invite}, "accepted") /\ invite[me.invite].status = "pending"
    BY <1>1, <1>8 DEF CarrierAccept, CommonWrite, DriverWrite, InviteFacts, AboutInvite
  <2> QED BY <1>2, <1>4, <2>1
<1> QED BY <1>5, <1>6, <1>7, <1>8 DEF Answering

LEMMA SerialAnswers ==
  ASSUME SInv, OneHandler, NEW h \in Handlers,
         Answering(h) \/ RegisterWrite(h) \/ ConfirmWrite(h) \/ Crash(h)
  PROVE  FactsOK' /\ Carriers'
<1>1. Done(h) /\ UNCHANGED company
  BY AnswersPending DEF RegisterWrite, ConfirmWrite, Crash
<1>2. \A i \in Invites : Asked(i)' => Asked(i) /\ invite'[i].company = invite[i].company
  <2>1. CASE Answering(h)
    BY <2>1, AnswersPending DEF Asked
  <2>2. CASE UNCHANGED invite
    BY <2>2 DEF Asked
  <2> QED BY <2>1, <2>2 DEF RegisterWrite, ConfirmWrite, Crash
<1>3. FactsOK'
  BY <1>1, DoneFacts DEF SInv
<1> QED BY <1>1, <1>2, <1>3, FewerAsked DEF SInv

LEMMA SerialCarrierWrites ==
  ASSUME SInv, OneHandler, NEW h \in Handlers, CarrierCompany(h) \/ CarrierAccount(h)
  PROVE  FactsOK' /\ Carriers'
<1> DEFINE me == handler[h]
<1>1. Typed /\ UNCHANGED invite /\ LocalOK(me) /\ InviteFacts(me)
  BY DEF SInv, IInv, Typed, CarrierCompany, CarrierAccount
<1>2. /\ me.step \in {"carrier", "carrierAccount"}
      /\ \E s \in {"carrierAccount", "carrierAccept"} : Goto(h, s)
  BY DEF CarrierCompany, CarrierAccount
<1>3. \A g \in Handlers : /\ handler'[g].invite = me.invite
                          /\ handler'[g].step \in {"carrierAccount", "carrierAccept"}
  BY <1>1, <1>2, GotoTyped DEF OneHandler
<1>4. invite[me.invite].status = "pending"
  BY <1>1, <1>2 DEF InviteFacts, AboutInvite
<1>5. FactsOK'
  BY <1>1, <1>3, <1>4 DEF FactsOK, InviteFacts, CompanyFacts, AboutInvite
<1>6. CASE CarrierCompany(h)
  <2>1. /\ me.invite \in Invites /\ Asked(me.invite)
        /\ invite[me.invite].company = me.company
    BY <1>1, <1>6 DEF CarrierCompany, LocalOK, InviteFacts, AboutInvite
  <2>2. me.company \in Companies
    BY <2>1 DEF SInv, Carriers
  <2>3. company' = [company EXCEPT ![me.company].status = "requested"]
    BY <1>6 DEF CarrierCompany
  <2> QED BY <1>1, <1>5, <2>1, <2>2, <2>3, OneMoreRegistered
<1>7. CASE CarrierAccount(h)
  <2>1. UNCHANGED company
    BY <1>7 DEF CarrierAccount
  <2> QED BY <1>1, <1>5, <2>1, FewerAsked DEF SInv, Asked
<1> QED BY <1>6, <1>7

LEMMA SerialCompanyWrites ==
  ASSUME SInv, OneHandler, NEW h \in Handlers,
         \/ ApproveWrite(h) \/ EditWrite(h)
         \/ \E c \in Companies : \/ CarrierNewWrite(h, c)
                                 \/ \E i \in Invites : InviteCarrierWrite(h, i, c)
  PROVE  FactsOK' /\ Carriers'
<1>1. Done(h)
  BY DEF ApproveWrite, EditWrite, CarrierNewWrite, InviteCarrierWrite
<1>2. FactsOK'
  BY <1>1, DoneFacts DEF SInv
<1>3. CASE ApproveWrite(h)
  <2> DEFINE c == handler[h].company
  <2>1. /\ company' = [company EXCEPT ![c].status = "active"]
        /\ UNCHANGED invite
    BY <1>3 DEF ApproveWrite
  <2>2. c \in Companies /\ Registered(c)
    BY <1>3 DEF ApproveWrite, SInv, CompanyFacts
  <2> QED BY <1>2, <2>1, <2>2, OneMoreRegistered
<1>4. CASE EditWrite(h)
  <2>1. company' = company /\ UNCHANGED invite
    BY <1>4 DEF EditWrite, SInv, CompanyFacts, IInv, Typed, TablesOK
  <2> QED BY <1>2, <2>1, FewerAsked DEF SInv, Asked
<1> QED BY <1>2, <1>3, <1>4, CarrierNewCarriers, InviteCarrierCarriers

LEMMA SerialInit == Init => SInv
<1> SUFFICES ASSUME Init PROVE SInv
  OBVIOUS
<1>1. \A h \in Handlers : handler[h].step = "idle"
  BY DEF Init, Idle
<1>2. /\ \A i \in Invites : invite[i].status = "absent"
      /\ \A c \in Companies : company[c].status = "absent"
  BY DEF Init, NoInvite, NoCompany
<1>3. Carriers
  BY <1>2 DEF Carriers, Asked, OneCarrierPerNumber
<1>4. \A h \in Handlers : InviteFacts(handler[h]) /\ CompanyFacts(handler[h])
  BY <1>1 DEF InviteFacts, CompanyFacts, AboutInvite
<1> QED BY <1>3, <1>4, InitHolds DEF SInv

LEMMA SerialNext ==
  ASSUME OneHandler, KeepsNumbers
  PROVE  SInv /\ [Next]_vars => SInv'
<1> SUFFICES ASSUME SInv, [Next]_vars PROVE SInv'
  OBVIOUS
<1>1. IInv'
  BY NextKeeps DEF SInv
<1>2. FactsOK' /\ Carriers'
  <2>1. CASE UNCHANGED vars
    BY <2>1 DEF vars, SInv, FactsOK, InviteFacts, CompanyFacts, Carriers, Asked, NumberOf,
       Registered, OneCarrierPerNumber
  <2>2. ASSUME NEW i \in Invites, TimePasses(i)
        PROVE  FactsOK' /\ Carriers'
    <3>1. CASE Handlers = {}
      BY <2>2, <3>1, FewerAsked, LateKeeps
         DEF TimePasses, SInv, IInv, Typed, FactsOK, Asked
    <3>2. CASE Handlers # {}
      BY <2>2, <3>2, SerialInviteWrites
    <3> QED BY <3>1, <3>2
  <2>3. CASE Next
    BY <2>2, <2>3, NextCases, SerialReads, SerialInviteWrites, SerialAnswers,
       SerialCarrierWrites, SerialCompanyWrites DEF Answering
  <2> QED BY <2>1, <2>3
<1> QED BY <1>1, <1>2 DEF SInv, FactsOK

\* With one request at a time (whichever are cut off), and carriers that keep
\* their numbers, what a request read still holds when it writes, and no carrier is asked or registered twice.
THEOREM SerialInvariance ==
  ASSUME OneHandler, KeepsNumbers
  PROVE  Spec => []SInv
<1>1. SInv /\ [Next]_vars => SInv'
  BY SerialNext
<1> QED BY <1>1, SerialInit, PTL DEF Spec

\* With one request at a time, and carriers that keep their numbers, a
\* carrier is registered once.
THEOREM OneCarrierPerNumberHolds ==
  ASSUME OneHandler, KeepsNumbers
  PROVE  Spec => []OneCarrierPerNumber
<1>1. SInv => OneCarrierPerNumber
  BY DEF SInv, Carriers
<1> QED BY <1>1, SerialInvariance, PTL

-----------------------------------------------------------------------------
(* What no step of one request at a time does. *)

LEMMA FinalStep ==
  ASSUME SInv, [Next]_vars
  PROVE  \A i \in Invites : invite[i].status \notin {"absent", "pending"} =>
           invite'[i].status = invite[i].status
<1>1. TablesOK
  BY DEF SInv, IInv, Typed
<1>2. CASE UNCHANGED invite
  BY <1>2
<1>3. ASSUME NEW i \in Invites, NEW h \in Handlers,
             ResendInvite(h, i) \/ ExpireInvite(h, i) \/ TimePasses(i)
      PROVE  \A j \in Invites : invite'[j].status = invite[j].status
  <2>1. PICK b \in BOOLEAN : invite' = [invite EXCEPT ![i].late = b]
    BY <1>3 DEF ResendInvite, ExpireInvite, TimePasses
  <2> QED BY <1>1, <2>1, LateKeeps
<1>4. ASSUME NEW i \in Invites, TimePasses(i)
      PROVE  \A j \in Invites : invite'[j].status = invite[j].status
  <2>1. invite' = [invite EXCEPT ![i].late = TRUE]
    BY <1>4 DEF TimePasses
  <2> QED BY <1>1, <2>1, LateKeeps
<1>5. ASSUME NEW i \in Invites, NEW h \in Handlers, InviteAccountWrite(h, i)
      PROVE  invite[i].status = "absent" /\ \A j \in Invites \ {i} : invite'[j] = invite[j]
  BY <1>1, <1>5 DEF InviteAccountWrite, NoInvite, TablesOK
<1>6. ASSUME NEW i \in Invites, NEW c \in Companies, NEW h \in Handlers,
             InviteCarrierWrite(h, i, c)
      PROVE  /\ invite[i].status = "absent"
             /\ \A j \in Invites \ {i} : invite'[j] = invite[j] \/ invite[j].status = "pending"
  <2>1. /\ LocalOK(handler[h]) /\ CompanyFacts(handler[h])
        /\ handler[h].step = "inviteCarrier"
    BY <1>6 DEF SInv, IInv, Typed, InviteCarrierWrite
  <2>2. /\ invite[i].status = "absent"
        /\ \A j \in Invites \ {i, handler[h].invite} : invite'[j] = invite[j]
    BY <1>1, <1>6, <2>1, InviteCarrierWriteDoes
  <2>3. handler[h].invite \in Invites => invite[handler[h].invite].status = "pending"
    BY <2>1, NoOneAssumption DEF CompanyFacts, Asked
  <2> QED BY <2>2, <2>3
<1>7. ASSUME NEW h \in Handlers, Answering(h)
      PROVE  \A i \in Invites : invite'[i] = invite[i] \/ invite[i].status = "pending"
  BY <1>7, AnswersPending
<1>8. ASSUME NEW h \in Handlers,
             \/ ReadAction(h) \/ CarrierCompany(h) \/ CarrierAccount(h) \/ RegisterWrite(h)
             \/ \E c \in Companies : CarrierNewWrite(h, c)
             \/ ConfirmWrite(h) \/ ApproveWrite(h) \/ EditWrite(h) \/ Crash(h)
      PROVE  UNCHANGED invite
  <2>1. CASE ReadAction(h)
    BY <2>1, ReadActionReads DEF Read, SInv, IInv
  <2> QED BY <1>8, <2>1 DEF CarrierCompany, CarrierAccount, RegisterWrite, CarrierNewWrite,
             ConfirmWrite, ApproveWrite, EditWrite, Crash
<1>9. CASE UNCHANGED vars
  BY <1>2, <1>9 DEF vars
<1>10. CASE Next
  BY <1>2, <1>3, <1>4, <1>5, <1>6, <1>7, <1>8, <1>10, NextCases DEF Answering
<1> QED BY <1>9, <1>10

\* With one request at a time the answers to invitations are final.
THEOREM AnswersAreFinalHolds ==
  ASSUME OneHandler, KeepsNumbers
  PROVE  Spec => AnswersAreFinal
<1>1. SInv /\ [Next]_vars =>
        [\A i \in Invites : invite[i].status \notin {"absent", "pending"} =>
            invite'[i].status = invite[i].status]_vars
  BY FinalStep
<1> QED BY <1>1, SerialInvariance, PTL DEF Spec, AnswersAreFinal

\* A new account's invitation was pending, if there is one.
LEMMA NewAccountPending ==
  ASSUME TablesOK, NEW row \in AccountRow, NewAccount(row),
         row.invite \in Invites, invite[row.invite].status = "pending"
  PROVE  \A a \in Accounts : account'[a].invite # account[a].invite =>
           invite[account'[a].invite].status = "pending"
<1>1. PICK a \in Accounts : /\ account[a] = NoAccount /\ account'[a] = row
                            /\ \A b \in Accounts : b # a => account'[b] = account[b]
  BY NewAccountRow
<1>2. account[a].invite = NoOne
  BY <1>1 DEF NoAccount
<1> QED BY <1>1, <1>2

LEMMA NewAccountUninvited ==
  ASSUME TablesOK, NEW row \in AccountRow, NewAccount(row), row.invite = NoOne
  PROVE  \A a \in Accounts : account'[a].invite = account[a].invite
<1>1. PICK a \in Accounts : /\ account[a] = NoAccount /\ account'[a] = row
                            /\ \A b \in Accounts : b # a => account'[b] = account[b]
  BY NewAccountRow
<1>2. account[a].invite = NoOne
  BY <1>1 DEF NoAccount
<1> QED BY <1>1, <1>2

LEMMA PendingStep ==
  ASSUME SInv, [Next]_vars
  PROVE  \A a \in Accounts : account'[a].invite # account[a].invite =>
           invite[account'[a].invite].status = "pending"
<1> DEFINE Goal == \A a \in Accounts : account'[a].invite # account[a].invite =>
                     invite[account'[a].invite].status = "pending"
<1>1. TablesOK
  BY DEF SInv, IInv, Typed
<1>2. CASE UNCHANGED account
  BY <1>2
<1>3. ASSUME NEW h \in Handlers, CarrierAccount(h) \/ CommonWrite(h) \/ DriverWrite(h)
      PROVE  Goal
  <2> DEFINE i == handler[h].invite
  <2>1. i \in Invites /\ invite[i].status = "pending"
    BY <1>3 DEF SInv, IInv, Typed, LocalOK, InviteFacts, AboutInvite, CarrierAccount, CommonWrite,
       DriverWrite
  <2>2. PICK ap \in BOOLEAN, co \in BOOLEAN : NewAccount(Invited(i, ap, co))
    BY <1>3 DEF CarrierAccount, CommonWrite, DriverWrite
  <2>3. Invited(i, ap, co) \in AccountRow /\ Invited(i, ap, co).invite = i
    BY <1>1, <2>1, InvitedRow
  <2> QED BY <1>1, <2>1, <2>2, <2>3, NewAccountPending
<1>4. ASSUME NEW h \in Handlers, RegisterWrite(h)
      PROVE  Goal
  <2> DEFINE me == handler[h]
             row == [NoAccount EXCEPT !.email = me.email, !.role = me.role,
                                      !.approved = me.role = "client"]
  <2>1. NewAccount(row)
    BY <1>4 DEF RegisterWrite
  <2>2. me.email \in Emails /\ me.role \in {"driver", "client"}
    BY <1>4 DEF SInv, IInv, Typed, RegisterWrite, LocalOK
  <2>3. (me.role = "client") \in BOOLEAN
    OBVIOUS
  <2>4. row \in AccountRow /\ row.invite = NoOne
    BY <2>2, <2>3, OwnRow
  <2> HIDE DEF row
  <2> QED BY <1>1, <2>1, <2>4, NewAccountUninvited
<1>5. ASSUME NEW h \in Handlers, NEW c \in Companies, CarrierNewWrite(h, c)
      PROVE  Goal
  <2> DEFINE me == handler[h]
             row == [NoAccount EXCEPT !.email = me.email, !.role = "company_admin", !.company = c]
  <2>1. NewAccount(row)
    BY <1>5 DEF CarrierNewWrite
  <2>2. me.email \in Emails
    BY <1>5 DEF SInv, IInv, Typed, CarrierNewWrite, LocalOK
  <2>3. row \in AccountRow /\ row.invite = NoOne
    BY <2>2, OwnRow
  <2> HIDE DEF row
  <2> QED BY <1>1, <2>1, <2>3, NewAccountUninvited
<1>6. ASSUME NEW h \in Handlers, ConfirmWrite(h) \/ ApproveWrite(h)
      PROVE  \A a \in Accounts : account'[a].invite = account[a].invite
  <2>1. \A a \in Accounts :
          /\ [account[a] EXCEPT !.approved = TRUE].invite = account[a].invite
          /\ [account[a] EXCEPT !.confirmed = TRUE, !.approved = TRUE].invite = account[a].invite
    BY <1>1 DEF TablesOK, AccountRow
  <2>2. CASE ApproveWrite(h)
    BY <2>1, <2>2 DEF ApproveWrite
  <2>3. CASE ConfirmWrite(h)
    <3> DEFINE b == handler[h].account
               row == [account[b] EXCEPT !.confirmed = TRUE, !.approved = TRUE]
    <3>1. b \in Accounts
      BY <2>3 DEF ConfirmWrite, SInv, IInv, Typed, LocalOK
    <3>2. account' = [account EXCEPT ![b] = row] /\ row.invite = account[b].invite
      BY <1>1, <2>1, <2>3, <3>1 DEF ConfirmWrite, TablesOK
    <3> HIDE DEF row
    <3> QED BY <1>1, <3>1, <3>2 DEF TablesOK
  <2> QED BY <1>6, <2>2, <2>3
<1>7. ASSUME NEW h \in Handlers,
             \/ ReadAction(h) \/ CarrierCompany(h) \/ EditWrite(h) \/ Crash(h)
             \/ DeclineWrite(h) \/ RetrieveWrite(h) \/ ExpireWrite(h) \/ CarrierAccept(h)
             \/ \E i \in Invites :
                  \/ InviteAccountWrite(h, i) \/ ResendInvite(h, i) \/ ExpireInvite(h, i)
                  \/ \E c \in Companies : InviteCarrierWrite(h, i, c)
      PROVE  UNCHANGED account
  <2>1. CASE ReadAction(h)
    BY <2>1, ReadActionReads DEF Read, SInv, IInv
  <2> QED BY <1>7, <2>1 DEF CarrierCompany, EditWrite, Crash, DeclineWrite, RetrieveWrite, ExpireWrite,
             CarrierAccept, InviteAccountWrite, ResendInvite, ExpireInvite, InviteCarrierWrite
<1>8. ASSUME NEW i \in Invites, TimePasses(i)
      PROVE  UNCHANGED account
  BY <1>8 DEF TimePasses
<1> HIDE DEF Goal
<1>9. Goal
  <2>1. CASE UNCHANGED account
    BY <2>1 DEF Goal
  <2>2. CASE UNCHANGED vars
    BY <2>1, <2>2 DEF vars
  <2>3. CASE Next
    BY <1>3, <1>4, <1>5, <1>6, <1>7, <1>8, <2>1, <2>3, NextCases DEF Goal
  <2> QED BY <2>2, <2>3
<1> QED BY <1>9 DEF Goal

\* With one request at a time an account is made only from an invitation that
\* is pending.
THEOREM OnlyPendingMakesAccountsHolds ==
  ASSUME OneHandler, KeepsNumbers
  PROVE  Spec => OnlyPendingMakesAccounts
<1>1. SInv /\ [Next]_vars =>
        [\A a \in Accounts : account'[a].invite # account[a].invite =>
            invite[account'[a].invite].status = "pending"]_vars
  BY PendingStep
<1> QED BY <1>1, SerialInvariance, PTL DEF Spec, OnlyPendingMakesAccounts
=============================================================================
