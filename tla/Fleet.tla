-------------------------------- MODULE Fleet --------------------------------
(***************************************************************************)
(* Who works for which carrier, and under which dispatcher: the requests   *)
(* of drivers to join a carrier (JoinRequestService), leaving and being    *)
(* removed, linking a driver to a dispatcher, and the edits of an account  *)
(* that write its whole row (AccountService).                              *)
(*                                                                         *)
(* A request is a step for what it reads and one for each statement that   *)
(* writes; the process may stop between two of them (Crash).               *)
(***************************************************************************)
EXTENDS Naturals

CONSTANTS
  Drivers, Dispatchers,   \* ids of accounts
  Companies, Requests,    \* ids of rows
  Handlers,               \* slots for requests that run at the same time
  NoOne,                  \* the null of a nullable column or of an unused local
  MaxCrashes,
  Flagged,                \* the accounts that admins approve, block or delete
  Calls                   \* the endpoints that are called in this instance

Accounts == Drivers \cup Dispatchers
FLAGS == {"approved", "blocked", "deleted"}
JOIN_REQUEST_STATUS == {"pending", "accepted", "declined", "cancelled"}

ASSUME NoOneAssumption ==
  NoOne \notin Accounts \cup Companies \cup Requests
ASSUME RolesAssumption == Drivers \cap Dispatchers = {}
ASSUME FlaggedAssumption == Flagged \subseteq Accounts
ASSUME CrashAssumption == MaxCrashes \in Nat

VARIABLES
  account, request,   \* the tables
  asked,              \* history: the carriers a driver asked to join or was invited by
  handler,            \* the locals of each request in flight
  crashes

vars == <<account, request, asked, handler, crashes>>

AccountRow == [company : Companies \cup {NoOne}, dispatcher : Dispatchers \cup {NoOne},
               flags : SUBSET FLAGS]
RequestRow == [status : JOIN_REQUEST_STATUS \cup {"absent"}, driver : Drivers \cup {NoOne},
               company : Companies \cup {NoOne}]
NoRow == [company |-> NoOne, dispatcher |-> NoOne, flags |-> {}]
NoRequest == [status |-> "absent", driver |-> NoOne, company |-> NoOne]

Steps == {"idle", "create", "join", "close", "leave", "write"}
Locals == [step : Steps, request : Requests \cup {NoOne}, account : Accounts \cup {NoOne},
           company : Companies \cup {NoOne}, row : AccountRow,
           status : JOIN_REQUEST_STATUS \cup {"absent"}]
Idle == [step |-> "idle", request |-> NoOne, account |-> NoOne, company |-> NoOne,
         row |-> NoRow, status |-> "absent"]

TypeOK ==
  /\ account \in [Accounts -> AccountRow]
  /\ request \in [Requests -> RequestRow]
  /\ asked \in [Drivers -> SUBSET Companies]
  /\ handler \in [Handlers -> Locals]
  /\ crashes \in 0..MaxCrashes

\* A dispatcher was invited by a carrier; a driver too, or by nobody.
Init ==
  /\ \E employer \in [Accounts -> Companies \cup {NoOne}] :
       /\ \A p \in Dispatchers : employer[p] # NoOne
       /\ account = [a \in Accounts |->
            [company |-> employer[a], dispatcher |-> NoOne, flags |-> {"approved"}]]
       /\ asked = [d \in Drivers |-> {employer[d]} \ {NoOne}]
  /\ request = [r \in Requests |-> NoRequest]
  /\ handler = [h \in Handlers |-> Idle]
  /\ crashes = 0

-----------------------------------------------------------------------------
Called(h, call) == handler[h] = Idle /\ call \in Calls
Keep(h, locals) == handler' = [handler EXCEPT ![h] = locals]
Done(h) == Keep(h, Idle)
Read(h, locals) == Keep(h, locals) /\ UNCHANGED <<account, request, asked, crashes>>

\* JwtStrategy lets the account act.
MayAct(a) == account[a].flags = {"approved"}

Pending(d) == {r \in Requests : request[r].status = "pending" /\ request[r].driver = d}

-----------------------------------------------------------------------------
(* Requests to join a carrier. *)

\* Mutant: the requests that are open are not looked at.
CreateReadAgain(h, d, c) ==
  /\ Called(h, "joinRequest") /\ MayAct(d)
  /\ account[d].company = NoOne
  /\ Read(h, [Idle EXCEPT !.step = "create", !.account = d, !.company = c])

\* createJoinRequest, by a driver without a carrier and without an open request.
CreateRead(h, d, c) ==
  /\ Called(h, "joinRequest") /\ MayAct(d)
  /\ account[d].company = NoOne
  /\ Pending(d) = {}
  /\ Read(h, [Idle EXCEPT !.step = "create", !.account = d, !.company = c])

CreateWrite(h, r) ==
  LET me == handler[h]
  IN  /\ me.step = "create" /\ request[r] = NoRequest
      /\ request' = [request EXCEPT ![r] =
           [status |-> "pending", driver |-> me.account, company |-> me.company]]
      /\ asked' = [asked EXCEPT ![me.account] = @ \cup {me.company}]
      /\ Done(h)
      /\ UNCHANGED <<account, crashes>>

\* Mutant: a request that was answered is answered again.
AnswerReadAny(h, r, action) ==
  /\ Called(h, "answer") /\ request[r].status # "absent"
  /\ action = "cancelled" => \E d \in Drivers : MayAct(d)
  /\ Read(h, [Idle EXCEPT !.step = IF action = "accepted" THEN "join" ELSE "close",
                          !.request = r, !.account = request[r].driver,
                          !.company = request[r].company, !.status = action])

\* joinRequestAction: an admin accepts or declines, a driver cancels.
AnswerRead(h, r, action) ==
  /\ Called(h, "answer") /\ request[r].status = "pending"
  /\ action = "cancelled" => \E d \in Drivers : MayAct(d)
  /\ Read(h, [Idle EXCEPT !.step = IF action = "accepted" THEN "join" ELSE "close",
                          !.request = r, !.account = request[r].driver,
                          !.company = request[r].company, !.status = action])

\* Mutant: the driver is employed by whoever comes first.
JoinAny(h) ==
  LET me == handler[h]
  IN  /\ me.step = "join"
      /\ \E c \in Companies : account' = [account EXCEPT ![me.account].company = c]
      /\ Keep(h, [me EXCEPT !.step = "close"])
      /\ UNCHANGED <<request, asked, crashes>>

\* joinCompany, before the request is closed.
Join(h) ==
  LET me == handler[h]
  IN  /\ me.step = "join"
      /\ account' = [account EXCEPT ![me.account].company = me.company]
      /\ Keep(h, [me EXCEPT !.step = "close"])
      /\ UNCHANGED <<request, asked, crashes>>

Close(h) ==
  LET me == handler[h]
  IN  /\ me.step = "close"
      /\ request' = [request EXCEPT ![me.request].status = me.status]
      /\ Done(h)
      /\ UNCHANGED <<account, asked, crashes>>

-----------------------------------------------------------------------------
(* The account's own row. *)

\* leaveCompany by the driver, or kickOut of any account by an admin.
LeaveRead(h, a) ==
  /\ account[a].company # NoOne
  /\ \/ Called(h, "leave") /\ a \in Drivers /\ MayAct(a)
     \/ Called(h, "kickOut") /\ "deleted" \notin account[a].flags
  /\ Read(h, [Idle EXCEPT !.step = "leave", !.account = a])

\* Mutant: the driver keeps the dispatcher.
LeaveWriteCompany(h) ==
  /\ handler[h].step = "leave"
  /\ account' = [account EXCEPT ![handler[h].account].company = NoOne]
  /\ Done(h)
  /\ UNCHANGED <<request, asked, crashes>>

LeaveWrite(h) ==
  LET a == handler[h].account
  IN  /\ handler[h].step = "leave"
      /\ account' = [account EXCEPT ![a].company = NoOne, ![a].dispatcher = NoOne]
      /\ Done(h)
      /\ UNCHANGED <<request, asked, crashes>>

\* An admin of company c finds its own accounts, the super admin (c = NoOne) all.
Finds(c, a) ==
  IF c = NoOne THEN "superLink" \in Calls ELSE account[a].company = c

\* linkDriverToDispatcher up to its write.
LinkRead(h, c, p, d, link) ==
  /\ Called(h, "link")
  /\ Finds(c, p) /\ Finds(c, d)
  /\ link => account[d].dispatcher # p
  /\ Read(h, [Idle EXCEPT !.step = "write", !.account = d,
                 !.row = [account[d] EXCEPT !.dispatcher = IF link THEN p ELSE NoOne]])

\* patch and editMyProfile: the profile itself is not kept here.
EditRead(h, a) ==
  /\ Called(h, "edit") /\ "deleted" \notin account[a].flags
  /\ Read(h, [Idle EXCEPT !.step = "write", !.account = a, !.row = account[a]])

\* All of them write the row as they read it.
RowWrite(h) ==
  LET me == handler[h]
  IN  /\ me.step = "write"
      /\ account' = [account EXCEPT ![me.account] = me.row]
      /\ Done(h)
      /\ UNCHANGED <<request, asked, crashes>>

\* approve, blockAccounts, blockAccount and delete: one statement.
SetFlag(as, f, on) ==
  /\ f \in Calls
  /\ account' = [a \in Accounts |->
       IF a \in as
       THEN [account[a] EXCEPT !.flags = IF on THEN @ \cup {f} ELSE @ \ {f}]
       ELSE account[a]]
  /\ UNCHANGED <<request, asked, handler, crashes>>

\* The process stops between two statements of a request.
Crash(h) ==
  /\ handler[h] # Idle /\ crashes < MaxCrashes
  /\ crashes' = crashes + 1
  /\ Done(h)
  /\ UNCHANGED <<account, request, asked>>

-----------------------------------------------------------------------------
\* Join requests (joinRequest controller), then what carriers and accounts do.
Step(h) ==
  \/ \E d \in Drivers, c \in Companies : CreateRead(h, d, c)
  \/ \E r \in Requests : CreateWrite(h, r)
  \/ \E r \in Requests, action \in JOIN_REQUEST_STATUS \ {"pending"} : AnswerRead(h, r, action)
  \/ Join(h)
  \/ Close(h)
  \/ \E a \in Accounts : LeaveRead(h, a) \/ EditRead(h, a)
  \/ LeaveWrite(h)
  \/ \E c \in Companies \cup {NoOne}, p \in Dispatchers, d \in Drivers, link \in BOOLEAN :
        LinkRead(h, c, p, d, link)
  \/ RowWrite(h)
  \/ Crash(h)

Next ==
  \/ \E h \in Handlers : Step(h)
  \/ \E as \in SUBSET Flagged, f \in FLAGS, on \in BOOLEAN : SetFlag(as, f, on)

Spec == Init /\ [][Next]_vars

-----------------------------------------------------------------------------
(* Properties. *)

\* A driver works only for a carrier he asked to join or was invited by,
\* however the writes of whole rows, the answers and the removals meet
\* (joinRequestAction, linkDriverToDispatcher, patch).
WorksWhereAsked ==
  \A d \in Drivers : account[d].company # NoOne => account[d].company \in asked[d]

\* As long as requests do not overlap, a driver's dispatcher works for the
\* driver's carrier, or for none any more: through leaving, joining again,
\* removals and crashes in an answer (leaveCompany, linkDriverToDispatcher).
DispatcherOfOwnCompany ==
  \A d \in Drivers : LET p == account[d].dispatcher
                     IN  p # NoOne /\ account[p].company # NoOne
                         => account[p].company = account[d].company

\* As long as requests do not overlap, a driver has at most one open request,
\* and while he has one, he works for nobody or, when the process stopped
\* between joinCompany and the end of joinRequestAction, for the one it names.
OneOpenRequest ==
  \A r, q \in Requests :
    /\ request[r].status = "pending" /\ request[q].status = "pending"
       /\ request[r].driver = request[q].driver => r = q
    /\ request[r].status = "pending" =>
         account[request[r].driver].company \in {NoOne, request[r].company}

\* As long as requests do not overlap, an answer to a request is final.
AnswersAreFinal ==
  [][\A r \in Requests : request[r].status \in JOIN_REQUEST_STATUS \ {"pending"}
                         => request'[r] = request[r]]_vars

=============================================================================
