----------------------------- MODULE Registration -----------------------------
(***************************************************************************)
(* How carriers and the people who work for them get their accounts:       *)
(* RegisterService, with the approvals of CompanyService and               *)
(* AccountService that let an account act.                                 *)
(*                                                                         *)
(* An invitation, a company and an account are rows; an account remembers  *)
(* the invitation it was made from.  A request is a step for what it reads *)
(* and one for each statement, or each commit, that writes.  The process   *)
(* may stop between two of them (Crash).  What an invitation does to an    *)
(* order it comes with is in Dispatching.                                  *)
(***************************************************************************)
EXTENDS Naturals

CONSTANTS
  Companies, Accounts, Invites,   \* ids of rows
  Emails,
  Numbers,      \* the numbers a carrier is registered under (MC and DOT)
  Handlers,     \* slots for requests that run at the same time
  NoOne,        \* the null of a nullable column or of an unused local
  MaxCrashes,
  Calls         \* the endpoints that are called in this instance

ROLES == {"company_admin", "dispatcher", "driver", "client"}
COMPANY_STATUSES == {"invited", "requested", "active"}
INVITE_STATUS == {"pending", "accepted", "declined", "expired"}

ASSUME NoOneAssumption ==
  /\ NoOne \notin Companies \cup Accounts \cup Invites \cup Emails \cup Numbers
  /\ NoOne \notin ROLES
ASSUME CrashAssumption == MaxCrashes \in Nat

VARIABLES
  company, account, invite,   \* the tables
  handler,                    \* the locals of each request in flight
  crashes

vars == <<company, account, invite, handler, crashes>>

CompanyRow == [status : COMPANY_STATUSES \cup {"absent"}, number : Numbers \cup {NoOne}]
AccountRow == [email : Emails \cup {NoOne}, role : ROLES \cup {NoOne},
               company : Companies \cup {NoOne}, approved : BOOLEAN, confirmed : BOOLEAN,
               invite : Invites \cup {NoOne}]
\* late: its time is over.  An invitation of a company_admin is `extended'.
InviteRow == [status : INVITE_STATUS \cup {"absent"}, role : ROLES \cup {NoOne},
              email : Emails \cup {NoOne}, company : Companies \cup {NoOne}, late : BOOLEAN]

NoCompany == [status |-> "absent", number |-> NoOne]
NoAccount == [email |-> NoOne, role |-> NoOne, company |-> NoOne, approved |-> FALSE,
              confirmed |-> FALSE, invite |-> NoOne]
NoInvite == [status |-> "absent", role |-> NoOne, email |-> NoOne, company |-> NoOne,
             late |-> FALSE]

Steps == {"idle", "inviteAccount", "inviteCarrier", "carrier", "carrierAccount",
          "carrierAccept", "carrierNew", "common", "driver", "register", "confirm",
          "decline", "find", "expire", "retrieve", "approve", "edit"}
Locals == [step : Steps, invite : Invites \cup {NoOne}, company : Companies \cup {NoOne},
           account : Accounts \cup {NoOne}, email : Emails \cup {NoOne},
           role : ROLES \cup {NoOne}, number : Numbers \cup {NoOne}, found : SUBSET Invites,
           status : COMPANY_STATUSES \cup {"absent"}]

TypeOK ==
  /\ company \in [Companies -> CompanyRow]
  /\ account \in [Accounts -> AccountRow]
  /\ invite \in [Invites -> InviteRow]
  /\ handler \in [Handlers -> Locals]
  /\ crashes \in 0..MaxCrashes

Idle == [step |-> "idle", invite |-> NoOne, company |-> NoOne, account |-> NoOne,
         email |-> NoOne, role |-> NoOne, number |-> NoOne, found |-> {}, status |-> "absent"]

Init ==
  /\ company = [c \in Companies |-> NoCompany]
  /\ account = [a \in Accounts |-> NoAccount]
  /\ invite = [i \in Invites |-> NoInvite]
  /\ handler = [h \in Handlers |-> Idle]
  /\ crashes = 0

-----------------------------------------------------------------------------
Called(h, call) == handler[h] = Idle /\ call \in Calls
Keep(h, locals) == handler' = [handler EXCEPT ![h] = locals]
Done(h) == Keep(h, Idle)
Goto(h, s) == handler' = [handler EXCEPT ![h].step = s]
Read(h, locals) == Keep(h, locals) /\ UNCHANGED <<company, account, invite, crashes>>

\* validateEmailExistance.
EmailIsFree(e) == \A a \in Accounts : account[a].email # e

\* A row that does not exist yet becomes row.
NewAccount(row) ==
  \E a \in Accounts : account[a] = NoAccount /\ account' = [account EXCEPT ![a] = row]

SetStatus(is, s) ==
  invite' = [i \in Invites |-> IF i \in is THEN [invite[i] EXCEPT !.status = s] ELSE invite[i]]

\* validateInvite.
Valid(i, carrier) ==
  /\ invite[i].status = "pending" /\ ~invite[i].late
  /\ carrier <=> invite[i].role = "company_admin"

\* The account that invitation i is for; confirmed and approved as given.
Invited(i, approved, confirmed) ==
  [email |-> invite[i].email, role |-> invite[i].role, company |-> invite[i].company,
   approved |-> approved, confirmed |-> confirmed, invite |-> i]

-----------------------------------------------------------------------------
(* Invitations. *)

\* inviteAccount by an admin of company c.
InviteAccountRead(h, c, e, r) ==
  /\ Called(h, "inviteAccount") /\ EmailIsFree(e)
  /\ \E a \in Accounts : /\ account[a].role = "company_admin" /\ account[a].approved
                         /\ account[a].company = c
  /\ Read(h, [Idle EXCEPT !.step = "inviteAccount", !.company = c, !.email = e, !.role = r])

\* The invitation is saved after the mail went out.
InviteAccountWrite(h, i) ==
  LET me == handler[h]
  IN  /\ me.step = "inviteAccount" /\ invite[i] = NoInvite
      /\ invite' = [invite EXCEPT ![i] = [status |-> "pending", role |-> me.role,
                      email |-> me.email, company |-> me.company, late |-> FALSE]]
      /\ Done(h)
      /\ UNCHANGED <<company, account, crashes>>

\* The pending invitations of the carrier with number n.
PendingCarrier(n) ==
  {i \in Invites : /\ invite[i].status = "pending" /\ invite[i].role = "company_admin"
                   /\ company[invite[i].company].number = n}

\* Mutant: an invited company is as good as none, a registered one too.
InviteCarrierReadAny(h, n, e) ==
  /\ Called(h, "inviteCarrier")
  /\ IF PendingCarrier(n) # {}
     THEN \E p \in PendingCarrier(n) :
            Read(h, [Idle EXCEPT !.step = "inviteCarrier", !.invite = p, !.email = e, !.number = n])
     ELSE /\ \A a \in Accounts : account[a].email = e => ~account[a].approved
          /\ Read(h, [Idle EXCEPT !.step = "inviteCarrier", !.email = e, !.number = n])

\* inviteCarrier up to its writes: with a pending invitation nothing else is
\* asked, else the e-mail has no approved account and the carrier is not
\* registered.
InviteCarrierRead(h, n, e) ==
  /\ Called(h, "inviteCarrier")
  /\ IF PendingCarrier(n) # {}
     THEN \E p \in PendingCarrier(n) :
            Read(h, [Idle EXCEPT !.step = "inviteCarrier", !.invite = p, !.email = e, !.number = n])
     ELSE /\ \A a \in Accounts : account[a].email = e => ~account[a].approved
          /\ \A c \in Companies : company[c].number = n => company[c].status = "invited"
          /\ Read(h, [Idle EXCEPT !.step = "inviteCarrier", !.email = e, !.number = n])

\* The pending invitation expires and its company is invited again, or a new
\* company is made; a new invitation; one commit.
InviteCarrierWrite(h, i, c) ==
  LET me == handler[h]
      new == [status |-> "pending", role |-> "company_admin", email |-> me.email,
              company |-> c, late |-> FALSE]
  IN  /\ me.step = "inviteCarrier" /\ invite[i] = NoInvite
      /\ company' = [company EXCEPT ![c] = [status |-> "invited", number |-> me.number]]
      /\ IF me.invite = NoOne
         THEN /\ company[c] = NoCompany
              /\ invite' = [invite EXCEPT ![i] = new]
         ELSE /\ c = invite[me.invite].company
              /\ invite' = [invite EXCEPT ![i] = new, ![me.invite].status = "expired",
                                          ![me.invite].late = TRUE]
      /\ Done(h)
      /\ UNCHANGED <<account, crashes>>

\* resendInvite: three more days, whatever the status.
ResendInvite(h, i) ==
  /\ Called(h, "resend") /\ invite[i].status # "absent"
  /\ invite' = [invite EXCEPT ![i].late = FALSE]
  /\ UNCHANGED <<company, account, handler, crashes>>

\* declineInviteAccount, for both kinds of invitations.
DeclineRead(h, i) ==
  /\ Called(h, "decline") /\ (Valid(i, TRUE) \/ Valid(i, FALSE))
  /\ Read(h, [Idle EXCEPT !.step = "decline", !.invite = i])

DeclineWrite(h) ==
  /\ handler[h].step = "decline"
  /\ SetStatus({handler[h].invite}, "declined")
  /\ Done(h)
  /\ UNCHANGED <<company, account, crashes>>

\* retrieveInvite.
RetrieveRead(h, i) ==
  /\ Called(h, "retrieve") /\ invite[i].status = "pending"
  /\ Read(h, [Idle EXCEPT !.step = "retrieve", !.invite = i])

RetrieveWrite(h) ==
  LET i == handler[h].invite
  IN  /\ handler[h].step = "retrieve"
      /\ invite' = [invite EXCEPT ![i].status = "expired", ![i].late = TRUE]
      /\ Done(h)
      /\ UNCHANGED <<company, account, crashes>>

\* Time passes.
TimePasses(i) ==
  /\ invite[i].status # "absent" /\ ~invite[i].late
  /\ invite' = [invite EXCEPT ![i].late = TRUE]
  /\ UNCHANGED <<company, account, handler, crashes>>

\* expireInvite: their time is over now, then as the job.
ExpireInvite(h, i) ==
  /\ Called(h, "expireInvite") /\ invite[i].status # "absent"
  /\ invite' = [invite EXCEPT ![i].late = TRUE]
  /\ Keep(h, [Idle EXCEPT !.step = "find"])
  /\ UNCHANGED <<company, account, crashes>>

\* Mutant: also the invitations that were answered.
LateAndAnswered == {i \in Invites : invite[i].status \in {"pending", "accepted"} /\ invite[i].late}

LatePending == {i \in Invites : invite[i].status = "pending" /\ invite[i].late}

\* checkExpiredInvitation, by the job every hour or after expireInvite.
ExpireRead(h) ==
  /\ Called(h, "job") \/ handler[h].step = "find"
  /\ IF LatePending = {} THEN Done(h) /\ handler[h].step = "find"
     ELSE Keep(h, [Idle EXCEPT !.step = "expire", !.found = LatePending])
  /\ UNCHANGED <<company, account, invite, crashes>>

ExpireWrite(h) ==
  /\ handler[h].step = "expire"
  /\ SetStatus(handler[h].found, "expired")
  /\ Done(h)
  /\ UNCHANGED <<company, account, crashes>>

-----------------------------------------------------------------------------
(* Registrations. *)

\* carrier: the invited admin completes the company's data.
CarrierRead(h, i) ==
  /\ Called(h, "carrier") /\ Valid(i, TRUE)
  /\ Read(h, [Idle EXCEPT !.step = "carrier", !.invite = i, !.company = invite[i].company])

\* Mutant: the invitation is marked first.
CarrierCompanyAccepts(h) ==
  /\ handler[h].step = "carrier"
  /\ company' = [company EXCEPT ![handler[h].company].status = "requested"]
  /\ SetStatus({handler[h].invite}, "accepted")
  /\ Goto(h, "carrierAccount")
  /\ UNCHANGED <<account, crashes>>

CarrierCompany(h) ==
  /\ handler[h].step = "carrier"
  /\ company' = [company EXCEPT ![handler[h].company].status = "requested"]
  /\ Goto(h, "carrierAccount")
  /\ UNCHANGED <<account, invite, crashes>>

\* No e-mail is looked up here.
CarrierAccount(h) ==
  /\ handler[h].step = "carrierAccount"
  /\ NewAccount(Invited(handler[h].invite, FALSE, FALSE))
  /\ Goto(h, "carrierAccept")
  /\ UNCHANGED <<company, invite, crashes>>

CarrierAccept(h) ==
  /\ handler[h].step = "carrierAccept"
  /\ SetStatus({handler[h].invite}, "accepted")
  /\ Done(h)
  /\ UNCHANGED <<company, account, crashes>>

\* carrierNew: a carrier without an invitation.
CarrierNewRead(h, n, e) ==
  /\ Called(h, "carrierNew") /\ EmailIsFree(e)
  /\ \A c \in Companies : company[c].number # n
  /\ Read(h, [Idle EXCEPT !.step = "carrierNew", !.email = e, !.number = n])

CarrierNewWrite(h, c) ==
  LET me == handler[h]
  IN  /\ me.step = "carrierNew" /\ company[c] = NoCompany
      /\ company' = [company EXCEPT ![c] = [status |-> "requested", number |-> me.number]]
      /\ NewAccount([NoAccount EXCEPT !.email = me.email, !.role = "company_admin",
                                      !.company = c])
      /\ Done(h)
      /\ UNCHANGED <<invite, crashes>>

\* Mutant: the invitation's status is not looked at.
CommonReadAny(h, i) ==
  /\ Called(h, "common") /\ invite[i].status # "absent" /\ ~invite[i].late
  /\ invite[i].role # "company_admin" /\ EmailIsFree(invite[i].email)
  /\ Read(h, [Idle EXCEPT !.step = "common", !.invite = i])

\* common: an invited dispatcher or driver.
CommonRead(h, i) ==
  /\ Called(h, "common") /\ Valid(i, FALSE) /\ EmailIsFree(invite[i].email)
  /\ Read(h, [Idle EXCEPT !.step = "common", !.invite = i])

CommonWrite(h) ==
  LET i == handler[h].invite
  IN  /\ handler[h].step = "common"
      /\ SetStatus({i}, "accepted")
      /\ NewAccount(Invited(i, invite[i].role = "dispatcher", FALSE))
      /\ Done(h)
      /\ UNCHANGED <<company, crashes>>

\* driver, with an invitation.
DriverRead(h, i) ==
  /\ Called(h, "driver") /\ Valid(i, FALSE) /\ EmailIsFree(invite[i].email)
  /\ Read(h, [Idle EXCEPT !.step = "driver", !.invite = i])

DriverWrite(h) ==
  LET i == handler[h].invite
  IN  /\ handler[h].step = "driver"
      /\ SetStatus({i}, "accepted")
      /\ NewAccount(Invited(i, TRUE, TRUE))
      /\ Done(h)
      /\ UNCHANGED <<company, crashes>>

\* driver without one, and client.
RegisterRead(h, e, r) ==
  /\ Called(h, "register") /\ EmailIsFree(e)
  /\ Read(h, [Idle EXCEPT !.step = "register", !.email = e, !.role = r])

RegisterWrite(h) ==
  LET me == handler[h]
  IN  /\ me.step = "register"
      /\ NewAccount([NoAccount EXCEPT !.email = me.email, !.role = me.role,
                                      !.approved = me.role = "client"])
      /\ Done(h)
      /\ UNCHANGED <<company, invite, crashes>>

\* validateCode: a driver who confirms the e-mail is approved.
ConfirmRead(h, a) ==
  /\ Called(h, "confirm") /\ account[a].role \in {"driver", "client"} /\ ~account[a].confirmed
  /\ Read(h, [Idle EXCEPT !.step = "confirm", !.account = a])

ConfirmWrite(h) ==
  LET a == handler[h].account
  IN  /\ handler[h].step = "confirm"
      /\ account' = [account EXCEPT ![a].confirmed = TRUE, ![a].approved = TRUE]
      /\ Done(h)
      /\ UNCHANGED <<company, invite, crashes>>

\* CompanyService.approve.
ApproveRead(h, c) ==
  /\ Called(h, "approve") /\ company[c].status = "requested"
  /\ Read(h, [Idle EXCEPT !.step = "approve", !.company = c])

ApproveWrite(h) ==
  LET c == handler[h].company
  IN  /\ handler[h].step = "approve"
      /\ company' = [company EXCEPT ![c].status = "active"]
      /\ account' = [a \in Accounts |->
           IF account[a].company = c THEN [account[a] EXCEPT !.approved = TRUE] ELSE account[a]]
      /\ Done(h)
      /\ UNCHANGED <<invite, crashes>>

\* carrierEdit, by an admin of company c who was sent a token; with another
\* number where the instance allows it.
CarrierEditRead(h, c, n) ==
  /\ Called(h, "carrierEdit") /\ (n = company[c].number \/ "renumber" \in Calls)
  /\ \E a \in Accounts : account[a].role = "company_admin" /\ account[a].company = c
  /\ Read(h, [Idle EXCEPT !.step = "edit", !.company = c, !.number = n,
                          !.status = company[c].status])

\* CompanyService.patch.
PatchCompanyRead(h, c) ==
  /\ Called(h, "patchCompany") /\ company[c] # NoCompany
  /\ Read(h, [Idle EXCEPT !.step = "edit", !.company = c, !.number = company[c].number,
                          !.status = company[c].status])

\* Both write the row they read back, its status with it.
EditWrite(h) ==
  LET me == handler[h]
  IN  /\ me.step = "edit"
      /\ company' = [company EXCEPT ![me.company] = [status |-> me.status, number |-> me.number]]
      /\ Done(h)
      /\ UNCHANGED <<account, invite, crashes>>

\* The process stops between two statements of a request.
Crash(h) ==
  /\ handler[h] # Idle /\ crashes < MaxCrashes
  /\ crashes' = crashes + 1
  /\ Done(h)
  /\ UNCHANGED <<company, account, invite>>

-----------------------------------------------------------------------------
\* Invitations (register controller).
InviteStep(h) ==
  \/ \E c \in Companies, e \in Emails, r \in {"dispatcher", "driver"} :
        InviteAccountRead(h, c, e, r)
  \/ \E i \in Invites : InviteAccountWrite(h, i)
  \/ \E n \in Numbers, e \in Emails : InviteCarrierRead(h, n, e)
  \/ \E i \in Invites, c \in Companies : InviteCarrierWrite(h, i, c)
  \/ \E i \in Invites : ResendInvite(h, i) \/ DeclineRead(h, i) \/ RetrieveRead(h, i)
  \/ \E i \in Invites : ExpireInvite(h, i)
  \/ DeclineWrite(h)
  \/ RetrieveWrite(h)
  \/ ExpireRead(h)
  \/ ExpireWrite(h)

\* Registrations (register controller), and approvals (company and account).
RegisterStep(h) ==
  \/ \E i \in Invites : CarrierRead(h, i) \/ CommonRead(h, i) \/ DriverRead(h, i)
  \/ CarrierCompany(h)
  \/ CarrierAccount(h)
  \/ CarrierAccept(h)
  \/ \E n \in Numbers, e \in Emails : CarrierNewRead(h, n, e)
  \/ \E c \in Companies : CarrierNewWrite(h, c) \/ ApproveRead(h, c)
  \/ CommonWrite(h)
  \/ DriverWrite(h)
  \/ \E e \in Emails, r \in {"driver", "client"} : RegisterRead(h, e, r)
  \/ RegisterWrite(h)
  \/ \E a \in Accounts : ConfirmRead(h, a)
  \/ ConfirmWrite(h)
  \/ ApproveWrite(h)
  \/ \E c \in Companies, n \in Numbers : CarrierEditRead(h, c, n)
  \/ \E c \in Companies : PatchCompanyRead(h, c)
  \/ EditWrite(h)

Next ==
  \/ \E h \in Handlers : InviteStep(h) \/ RegisterStep(h) \/ Crash(h)
  \/ \E i \in Invites : TimePasses(i)

Spec == Init /\ [][Next]_vars

-----------------------------------------------------------------------------
\* A carrier is registered once: of the companies with one number at most one
\* is requested or active.  inviteCarrier and carrierNew look for the number
\* in two different ways and nothing in the database keeps it unique.  Nor
\* does carrierEdit: this is for carriers that keep their numbers.
OneCarrierPerNumber ==
  \A c, d \in Companies :
    /\ company[c].status \in {"requested", "active"}
    /\ company[d].status \in {"requested", "active"}
    /\ company[c].number = company[d].number
    => c = d

\* An invitation that says it was accepted has made an account, whatever runs
\* at the same time and wherever the process stops: carrier() has no
\* transaction, so it depends on the order of its statements.
AcceptedHasAccount ==
  \A i \in Invites : invite[i].status = "accepted" => \E a \in Accounts : account[a].invite = i

\* An account is made from an invitation only while it is pending: none that
\* was answered, taken back or expired can be used again ("Invite was used
\* before").
OnlyPendingMakesAccounts ==
  [][\A a \in Accounts : account'[a].invite # account[a].invite =>
        invite[account'[a].invite].status = "pending"]_vars

\* The answer to an invitation is final: the job, a retry, a second answer or
\* a new invitation of the carrier never turn it into another one.
AnswersAreFinal ==
  [][\A i \in Invites : invite[i].status \notin {"absent", "pending"} =>
        invite'[i].status = invite[i].status]_vars
=============================================================================
