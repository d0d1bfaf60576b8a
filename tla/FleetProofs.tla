----------------------------- MODULE FleetProofs -----------------------------
(***************************************************************************)
(* Fleet for every number of accounts, carriers, requests and crashes.     *)
(* For requests that overlap: types, and a driver works only where he      *)
(* asked or was invited.  For one request at a time and links by admins of *)
(* a carrier: a driver's dispatcher is a colleague, a driver has one open  *)
(* request, and answers are final.                                         *)
(***************************************************************************)
EXTENDS Fleet, TLAPS

\* The locals a step relies on.
LocalOK(r) ==
  /\ r \in Locals
  /\ r.step = "create" => r.account \in Drivers /\ r.company \in Companies
  /\ r.step = "join" => r.account \in Drivers /\ r.company \in asked[r.account]
  /\ r.step \in {"join", "close"} =>
       r.request \in Requests /\ r.status \in JOIN_REQUEST_STATUS \ {"pending"}
  /\ r.step \in {"leave", "write"} => r.account \in Accounts
  /\ r.step = "write" /\ r.account \in Drivers /\ r.row.company # NoOne =>
       r.row.company \in asked[r.account]

\* An open request was asked for.
RequestsAsked ==
  \A r \in Requests :
    request[r].status = "pending" =>
      request[r].driver \in Drivers /\ request[r].company \in asked[request[r].driver]

IInv ==
  /\ TypeOK
  /\ WorksWhereAsked
  /\ RequestsAsked
  /\ \A h \in Handlers : LocalOK(handler[h])

-----------------------------------------------------------------------------
(* Requests in flight. *)

LEMMA IdleOK == LocalOK(Idle)
BY DEF LocalOK, Idle, Locals, Steps, NoRow, AccountRow

LEMMA KeepOK ==
  ASSUME TypeOK, \A h \in Handlers : LocalOK(handler[h]),
         NEW h \in Handlers, NEW r, LocalOK(r), Keep(h, r)
  PROVE  /\ handler' \in [Handlers -> Locals]
         /\ handler'[h] = r
         /\ \A g \in Handlers : g # h => handler'[g] = handler[g]
         /\ \A g \in Handlers : LocalOK(handler'[g])
<1>1. r \in Locals
  BY DEF LocalOK
<1>2. handler' \in [Handlers -> Locals]
  BY <1>1 DEF Keep, TypeOK
<1>3. handler'[h] = r /\ \A g \in Handlers : g # h => handler'[g] = handler[g]
  BY DEF Keep, TypeOK
<1> QED BY <1>2, <1>3

\* What was asked stays asked.
LEMMA Persists ==
  ASSUME TypeOK, \A d \in Drivers : asked[d] \subseteq asked'[d],
         NEW h \in Handlers, LocalOK(handler'[h])
  PROVE  LocalOK(handler[h])'
BY DEF LocalOK

\* A read leaves everything but the locals alone.
LEMMA ReadInv ==
  ASSUME IInv, NEW h \in Handlers, NEW r, LocalOK(r), Read(h, r)
  PROVE  IInv'
<1>1. UNCHANGED <<account, request, asked, crashes>> /\ Keep(h, r)
  BY DEF Read
<1>2. handler' \in [Handlers -> Locals] /\ \A g \in Handlers : LocalOK(handler'[g])
  BY <1>1, KeepOK DEF IInv
<1>3. TypeOK'
  BY <1>1, <1>2 DEF IInv, TypeOK
<1>4. (\A g \in Handlers : LocalOK(handler[g]))'
  BY <1>1, <1>2, Persists DEF IInv
<1>5. WorksWhereAsked' /\ RequestsAsked'
  BY <1>1 DEF IInv, WorksWhereAsked, RequestsAsked
<1> QED BY <1>3, <1>4, <1>5 DEF IInv

\* The end of a request that changed the accounts.
LEMMA AccountsInv ==
  ASSUME IInv, NEW h \in Handlers, NEW r, LocalOK(r), Keep(h, r),
         account' \in [Accounts -> AccountRow], UNCHANGED <<request, asked, crashes>>,
         \A d \in Drivers : account'[d].company # NoOne => account'[d].company \in asked[d]
  PROVE  IInv'
<1>1. handler' \in [Handlers -> Locals] /\ \A g \in Handlers : LocalOK(handler'[g])
  BY KeepOK DEF IInv
<1>2. TypeOK'
  BY <1>1 DEF IInv, TypeOK
<1>3. (\A g \in Handlers : LocalOK(handler[g]))'
  BY <1>1, Persists DEF IInv
<1>4. WorksWhereAsked' /\ RequestsAsked'
  BY DEF IInv, WorksWhereAsked, RequestsAsked
<1> QED BY <1>2, <1>3, <1>4 DEF IInv

-----------------------------------------------------------------------------
(* The locals that each read leaves. *)

CreateLocals(d, c) == [Idle EXCEPT !.step = "create", !.account = d, !.company = c]
AnswerLocals(r, action) ==
  [Idle EXCEPT !.step = IF action = "accepted" THEN "join" ELSE "close",
               !.request = r, !.account = request[r].driver,
               !.company = request[r].company, !.status = action]
WriteLocals(a, row) == [Idle EXCEPT !.step = "write", !.account = a, !.row = row]
LeaveLocals(a) == [Idle EXCEPT !.step = "leave", !.account = a]

LEMMA CreateLocalsOK ==
  ASSUME NEW d \in Drivers, NEW c \in Companies
  PROVE  /\ LocalOK(CreateLocals(d, c))
         /\ CreateLocals(d, c).step = "create"
         /\ CreateLocals(d, c).account = d /\ CreateLocals(d, c).company = c
<1>1. /\ CreateLocals(d, c).step = "create"
      /\ CreateLocals(d, c).account = d /\ CreateLocals(d, c).company = c
  BY DEF CreateLocals, Idle
<1>2. CreateLocals(d, c) \in Locals
  BY DEF CreateLocals, Idle, Locals, Steps, NoRow, AccountRow, Accounts
<1> QED BY <1>1, <1>2 DEF LocalOK

LEMMA AnswerLocalsOK ==
  ASSUME IInv, NEW r \in Requests, request[r].status = "pending",
         NEW action \in JOIN_REQUEST_STATUS \ {"pending"}
  PROVE  /\ LocalOK(AnswerLocals(r, action))
         /\ AnswerLocals(r, action).step \in {"join", "close"}
         /\ AnswerLocals(r, action).request = r
         /\ AnswerLocals(r, action).account = request[r].driver
         /\ AnswerLocals(r, action).company = request[r].company
<1>1. /\ request[r].driver \in Drivers /\ request[r].company \in asked[request[r].driver]
      /\ request[r].company \in Companies
  BY NoOneAssumption DEF IInv, RequestsAsked, TypeOK
<1>2. /\ AnswerLocals(r, action).step = (IF action = "accepted" THEN "join" ELSE "close")
      /\ AnswerLocals(r, action).request = r
      /\ AnswerLocals(r, action).account = request[r].driver
      /\ AnswerLocals(r, action).company = request[r].company
      /\ AnswerLocals(r, action).status = action
  BY DEF AnswerLocals, Idle
<1>3. AnswerLocals(r, action) \in Locals
  BY <1>1 DEF AnswerLocals, Idle, Locals, Steps, NoRow, AccountRow, Accounts
<1> QED BY <1>1, <1>2, <1>3 DEF LocalOK

LEMMA WriteLocalsOK ==
  ASSUME NEW a \in Accounts, NEW row \in AccountRow,
         a \in Drivers /\ row.company # NoOne => row.company \in asked[a]
  PROVE  /\ LocalOK(WriteLocals(a, row))
         /\ WriteLocals(a, row).step = "write"
         /\ WriteLocals(a, row).account = a /\ WriteLocals(a, row).row = row
<1>1. /\ WriteLocals(a, row).step = "write"
      /\ WriteLocals(a, row).account = a /\ WriteLocals(a, row).row = row
  BY DEF WriteLocals, Idle
<1>2. WriteLocals(a, row) \in Locals
  BY DEF WriteLocals, Idle, Locals, Steps
<1> QED BY <1>1, <1>2 DEF LocalOK

LEMMA LeaveLocalsOK ==
  ASSUME NEW a \in Accounts
  PROVE  /\ LocalOK(LeaveLocals(a))
         /\ LeaveLocals(a).step = "leave" /\ LeaveLocals(a).account = a
<1>1. LeaveLocals(a).step = "leave" /\ LeaveLocals(a).account = a
  BY DEF LeaveLocals, Idle
<1>2. LeaveLocals(a) \in Locals
  BY DEF LeaveLocals, Idle, Locals, Steps, NoRow, AccountRow
<1> QED BY <1>1, <1>2 DEF LocalOK

\* The row that a link writes.
LEMMA LinkRow ==
  ASSUME TypeOK, NEW d \in Drivers, NEW p \in Dispatchers \cup {NoOne}
  PROVE  /\ [account[d] EXCEPT !.dispatcher = p] \in AccountRow
         /\ [account[d] EXCEPT !.dispatcher = p].company = account[d].company
         /\ [account[d] EXCEPT !.dispatcher = p].dispatcher = p
BY DEF TypeOK, AccountRow, Accounts

-----------------------------------------------------------------------------
(* Each action, with requests that overlap. *)

LEMMA CreateReadInv ==
  ASSUME IInv, NEW h \in Handlers, NEW d \in Drivers, NEW c \in Companies, CreateRead(h, d, c)
  PROVE  IInv'
BY CreateLocalsOK, ReadInv DEF CreateRead, CreateLocals

LEMMA AnswerReadInv ==
  ASSUME IInv, NEW h \in Handlers, NEW r \in Requests,
         NEW action \in JOIN_REQUEST_STATUS \ {"pending"}, AnswerRead(h, r, action)
  PROVE  IInv'
BY AnswerLocalsOK, ReadInv DEF AnswerRead, AnswerLocals

LEMMA LeaveReadInv ==
  ASSUME IInv, NEW h \in Handlers, NEW a \in Accounts, LeaveRead(h, a)
  PROVE  IInv'
BY LeaveLocalsOK, ReadInv DEF LeaveRead, LeaveLocals

LEMMA EditReadInv ==
  ASSUME IInv, NEW h \in Handlers, NEW a \in Accounts, EditRead(h, a)
  PROVE  IInv'
<1>1. account[a] \in AccountRow
  BY DEF IInv, TypeOK
<1>2. LocalOK(WriteLocals(a, account[a]))
  BY <1>1, WriteLocalsOK DEF IInv, WorksWhereAsked
<1> QED BY <1>2, ReadInv DEF EditRead, WriteLocals

LEMMA LinkReadInv ==
  ASSUME IInv, NEW h \in Handlers, NEW c, NEW p \in Dispatchers, NEW d \in Drivers,
         NEW link, LinkRead(h, c, p, d, link)
  PROVE  IInv'
<1> DEFINE q == IF link THEN p ELSE NoOne
           row == [account[d] EXCEPT !.dispatcher = q]
<1>1. q \in Dispatchers \cup {NoOne}
  OBVIOUS
<1>2. row \in AccountRow /\ row.company = account[d].company
  BY <1>1, LinkRow DEF IInv
<1>3. d \in Accounts /\ (account[d].company # NoOne => account[d].company \in asked[d])
  BY DEF Accounts, IInv, WorksWhereAsked
<1>4. Read(h, WriteLocals(d, row))
  BY DEF LinkRead, WriteLocals
<1> HIDE DEF row
<1>5. LocalOK(WriteLocals(d, row))
  BY <1>2, <1>3, WriteLocalsOK
<1> QED BY <1>4, <1>5, ReadInv

\* A new request.
LEMMA CreateWriteDoes ==
  ASSUME IInv, NEW h \in Handlers, NEW r \in Requests, CreateWrite(h, r)
  PROVE  /\ request' \in [Requests -> RequestRow]
         /\ request[r].status = "absent"
         /\ request'[r].status = "pending"
         /\ request'[r].driver = handler[h].account /\ request'[r].company = handler[h].company
         /\ \A q \in Requests : q # r => request'[q] = request[q]
         /\ asked' \in [Drivers -> SUBSET Companies]
         /\ \A d \in Drivers : asked[d] \subseteq asked'[d]
         /\ handler[h].account \in Drivers
         /\ handler[h].company \in asked'[handler[h].account]
<1> DEFINE me == handler[h]
           new == [status |-> "pending", driver |-> me.account, company |-> me.company]
<1>1. me.account \in Drivers /\ me.company \in Companies
  BY DEF IInv, LocalOK, CreateWrite
<1>2. /\ new \in RequestRow /\ new.status = "pending"
      /\ new.driver = me.account /\ new.company = me.company
  BY <1>1 DEF RequestRow, JOIN_REQUEST_STATUS
<1>3. request[r].status = "absent" /\ request' = [request EXCEPT ![r] = new]
  BY DEF CreateWrite, NoRequest
<1>4. asked' = [asked EXCEPT ![me.account] = asked[me.account] \cup {me.company}]
  BY DEF CreateWrite
<1> HIDE DEF new
<1> QED BY <1>1, <1>2, <1>3, <1>4 DEF IInv, TypeOK

LEMMA CreateWriteInv ==
  ASSUME IInv, NEW h \in Handlers, NEW r \in Requests, CreateWrite(h, r)
  PROVE  IInv'
<1>1. Keep(h, Idle) /\ UNCHANGED <<account, crashes>>
  BY DEF CreateWrite, Done
<1>2. handler' \in [Handlers -> Locals] /\ \A g \in Handlers : LocalOK(handler'[g])
  BY <1>1, IdleOK, KeepOK DEF IInv
<1>3. TypeOK'
  BY <1>1, <1>2, CreateWriteDoes DEF IInv, TypeOK
<1>4. (\A g \in Handlers : LocalOK(handler[g]))'
  BY <1>2, Persists, CreateWriteDoes DEF IInv
<1>5. WorksWhereAsked'
  BY <1>1, CreateWriteDoes DEF IInv, WorksWhereAsked
<1>6. RequestsAsked'
  BY CreateWriteDoes DEF IInv, RequestsAsked
<1> QED BY <1>3, <1>4, <1>5, <1>6 DEF IInv


LEMMA JoinDoes ==
  ASSUME IInv, NEW h \in Handlers, Join(h)
  PROVE  /\ handler[h].account \in Drivers
         /\ handler[h].company \in asked[handler[h].account]
         /\ handler[h].company \in Companies
         /\ account' \in [Accounts -> AccountRow]
         /\ account'[handler[h].account].company = handler[h].company
         /\ account'[handler[h].account].dispatcher = account[handler[h].account].dispatcher
         /\ \A a \in Accounts : a # handler[h].account => account'[a] = account[a]
         /\ LocalOK([handler[h] EXCEPT !.step = "close"])
         /\ [handler[h] EXCEPT !.step = "close"].step = "close"
         /\ [handler[h] EXCEPT !.step = "close"].request = handler[h].request
         /\ [handler[h] EXCEPT !.step = "close"].account = handler[h].account
         /\ [handler[h] EXCEPT !.step = "close"].company = handler[h].company
<1> DEFINE me == handler[h]
           a == me.account
           row == [account[a] EXCEPT !.company = me.company]
           r == [me EXCEPT !.step = "close"]
<1>1. /\ me \in Locals /\ me.step = "join"
      /\ a \in Drivers /\ me.company \in asked[a]
      /\ me.request \in Requests /\ me.status \in JOIN_REQUEST_STATUS \ {"pending"}
  BY DEF IInv, LocalOK, Join
<1>2. me.company \in Companies /\ a \in Accounts
  BY <1>1 DEF IInv, TypeOK, Accounts
<1>3. /\ row \in AccountRow /\ row.company = me.company
      /\ row.dispatcher = account[a].dispatcher
  BY <1>2 DEF IInv, TypeOK, AccountRow
<1>4. account' = [account EXCEPT ![a] = row]
  BY <1>1, <1>2 DEF Join, IInv, TypeOK
<1>5. /\ r \in Locals /\ r.step = "close" /\ r.request = me.request /\ r.status = me.status
      /\ r.account = a /\ r.company = me.company
  BY <1>1 DEF Locals, Steps
<1> HIDE DEF row, r
<1>6. LocalOK(r)
  BY <1>1, <1>5 DEF LocalOK
<1>7. /\ account' \in [Accounts -> AccountRow] /\ account'[a] = row
      /\ \A b \in Accounts : b # a => account'[b] = account[b]
  BY <1>2, <1>3, <1>4 DEF IInv, TypeOK
<1> QED BY <1>1, <1>2, <1>3, <1>5, <1>6, <1>7 DEF r

LEMMA JoinInv ==
  ASSUME IInv, NEW h \in Handlers, Join(h)
  PROVE  IInv'
<1> DEFINE r == [handler[h] EXCEPT !.step = "close"]
<1>1. Keep(h, r) /\ UNCHANGED <<request, asked, crashes>>
  BY DEF Join
<1>2. LocalOK(r) /\ account' \in [Accounts -> AccountRow]
  BY JoinDoes
<1>3. \A d \in Drivers : account'[d].company # NoOne => account'[d].company \in asked[d]
  BY JoinDoes DEF IInv, WorksWhereAsked, Accounts
<1> HIDE DEF r
<1> QED BY <1>1, <1>2, <1>3, AccountsInv

LEMMA CloseDoes ==
  ASSUME IInv, NEW h \in Handlers, Close(h)
  PROVE  /\ handler[h].request \in Requests
         /\ request' \in [Requests -> RequestRow]
         /\ request'[handler[h].request].status \in JOIN_REQUEST_STATUS \ {"pending"}
         /\ \A q \in Requests : /\ q # handler[h].request => request'[q] = request[q]
                                /\ request'[q].driver = request[q].driver
                                /\ request'[q].company = request[q].company
<1> DEFINE me == handler[h]
           q == me.request
           row == [request[q] EXCEPT !.status = me.status]
<1>1. q \in Requests /\ me.status \in JOIN_REQUEST_STATUS \ {"pending"}
  BY DEF IInv, LocalOK, Close
<1>2. /\ row \in RequestRow /\ row.status = me.status
      /\ row.driver = request[q].driver /\ row.company = request[q].company
  BY <1>1 DEF IInv, TypeOK, RequestRow
<1>3. request' = [request EXCEPT ![q] = row]
  BY <1>1 DEF Close, IInv, TypeOK
<1> HIDE DEF row
<1> QED BY <1>1, <1>2, <1>3 DEF IInv, TypeOK

LEMMA CloseInv ==
  ASSUME IInv, NEW h \in Handlers, Close(h)
  PROVE  IInv'
<1>1. Keep(h, Idle) /\ UNCHANGED <<account, asked, crashes>>
  BY DEF Close, Done
<1>2. handler' \in [Handlers -> Locals] /\ \A g \in Handlers : LocalOK(handler'[g])
  BY <1>1, IdleOK, KeepOK DEF IInv
<1>3. TypeOK'
  BY <1>1, <1>2, CloseDoes DEF IInv, TypeOK
<1>4. (\A g \in Handlers : LocalOK(handler[g]))'
  BY <1>1, <1>2, Persists DEF IInv
<1>5. WorksWhereAsked' /\ RequestsAsked'
  BY <1>1, CloseDoes DEF IInv, WorksWhereAsked, RequestsAsked
<1> QED BY <1>3, <1>4, <1>5 DEF IInv

LEMMA LeaveWriteDoes ==
  ASSUME IInv, NEW h \in Handlers, LeaveWrite(h)
  PROVE  /\ handler[h].account \in Accounts
         /\ account' \in [Accounts -> AccountRow]
         /\ account'[handler[h].account].company = NoOne
         /\ account'[handler[h].account].dispatcher = NoOne
         /\ \A b \in Accounts : b # handler[h].account => account'[b] = account[b]
<1> DEFINE a == handler[h].account
           row == [account[a] EXCEPT !.company = NoOne, !.dispatcher = NoOne]
<1>1. a \in Accounts
  BY DEF IInv, LocalOK, LeaveWrite
<1>2. row \in AccountRow /\ row.company = NoOne /\ row.dispatcher = NoOne
  BY <1>1 DEF IInv, TypeOK, AccountRow
<1>3. account' = [account EXCEPT ![a] = row]
  BY <1>1 DEF LeaveWrite, IInv, TypeOK
<1> HIDE DEF row
<1> QED BY <1>1, <1>2, <1>3 DEF IInv, TypeOK

LEMMA LeaveWriteInv ==
  ASSUME IInv, NEW h \in Handlers, LeaveWrite(h)
  PROVE  IInv'
<1>1. Keep(h, Idle) /\ UNCHANGED <<request, asked, crashes>>
  BY DEF LeaveWrite, Done
<1>2. \A d \in Drivers : account'[d].company # NoOne => account'[d].company \in asked[d]
  BY LeaveWriteDoes DEF IInv, WorksWhereAsked, Accounts
<1> QED BY <1>1, <1>2, IdleOK, LeaveWriteDoes, AccountsInv

LEMMA RowWriteDoes ==
  ASSUME IInv, NEW h \in Handlers, RowWrite(h)
  PROVE  /\ handler[h].account \in Accounts
         /\ account' \in [Accounts -> AccountRow]
         /\ account'[handler[h].account] = handler[h].row
         /\ \A b \in Accounts : b # handler[h].account => account'[b] = account[b]
<1>1. handler[h].account \in Accounts /\ handler[h].row \in AccountRow
  BY DEF IInv, LocalOK, RowWrite, Locals
<1> QED BY <1>1 DEF RowWrite, IInv, TypeOK

LEMMA RowWriteInv ==
  ASSUME IInv, NEW h \in Handlers, RowWrite(h)
  PROVE  IInv'
<1>1. Keep(h, Idle) /\ UNCHANGED <<request, asked, crashes>>
  BY DEF RowWrite, Done
<1>2. LocalOK(handler[h]) /\ handler[h].step = "write"
  BY DEF IInv, RowWrite
<1>3. \A d \in Drivers : account'[d].company # NoOne => account'[d].company \in asked[d]
  BY <1>2, RowWriteDoes DEF IInv, WorksWhereAsked, Accounts, LocalOK
<1> QED BY <1>1, <1>3, IdleOK, RowWriteDoes, AccountsInv

\* Flags leave carriers and dispatchers alone.
LEMMA SetFlagDoes ==
  ASSUME IInv, NEW as, NEW f \in FLAGS, NEW on \in BOOLEAN, SetFlag(as, f, on)
  PROVE  /\ account' \in [Accounts -> AccountRow]
         /\ \A a \in Accounts : /\ account'[a].company = account[a].company
                                /\ account'[a].dispatcher = account[a].dispatcher
         /\ UNCHANGED <<request, asked, handler, crashes>>
<1> DEFINE New(a) ==
      [account[a] EXCEPT !.flags = IF on THEN account[a].flags \cup {f} ELSE account[a].flags \ {f}]
<1>1. ASSUME NEW a \in Accounts
      PROVE  /\ New(a) \in AccountRow /\ New(a).company = account[a].company
             /\ New(a).dispatcher = account[a].dispatcher
  BY DEF IInv, TypeOK, AccountRow
<1>2. account' = [a \in Accounts |-> IF a \in as THEN New(a) ELSE account[a]]
  BY DEF SetFlag
<1> HIDE DEF New
<1>3. UNCHANGED <<request, asked, handler, crashes>>
  BY DEF SetFlag
<1> QED BY <1>1, <1>2, <1>3 DEF IInv, TypeOK

LEMMA SetFlagInv ==
  ASSUME IInv, NEW as, NEW f \in FLAGS, NEW on \in BOOLEAN, SetFlag(as, f, on)
  PROVE  IInv'
<1>1. TypeOK'
  BY SetFlagDoes DEF IInv, TypeOK
<1>2. (\A g \in Handlers : LocalOK(handler[g]))'
  BY SetFlagDoes DEF IInv, LocalOK
<1>3. WorksWhereAsked' /\ RequestsAsked'
  BY SetFlagDoes DEF IInv, WorksWhereAsked, RequestsAsked, Accounts
<1> QED BY <1>1, <1>2, <1>3 DEF IInv

LEMMA CrashInv ==
  ASSUME IInv, NEW h \in Handlers, Crash(h)
  PROVE  IInv'
<1>1. Keep(h, Idle) /\ UNCHANGED <<account, request, asked>> /\ crashes' \in 0..MaxCrashes
  BY CrashAssumption DEF Crash, Done, IInv, TypeOK
<1>2. handler' \in [Handlers -> Locals] /\ \A g \in Handlers : LocalOK(handler'[g])
  BY <1>1, IdleOK, KeepOK DEF IInv
<1>3. TypeOK'
  BY <1>1, <1>2 DEF IInv, TypeOK
<1>4. (\A g \in Handlers : LocalOK(handler[g]))'
  BY <1>1, <1>2, Persists DEF IInv
<1>5. WorksWhereAsked' /\ RequestsAsked'
  BY <1>1 DEF IInv, WorksWhereAsked, RequestsAsked
<1> QED BY <1>3, <1>4, <1>5 DEF IInv


LEMMA InitInv == Init => IInv
<1> SUFFICES ASSUME Init PROVE IInv
  OBVIOUS
<1>1. PICK employer \in [Accounts -> Companies \cup {NoOne}] :
        /\ account = [a \in Accounts |->
             [company |-> employer[a], dispatcher |-> NoOne, flags |-> {"approved"}]]
        /\ asked = [d \in Drivers |-> {employer[d]} \ {NoOne}]
  BY DEF Init
<1>2. \A d \in Drivers : employer[d] \in Companies \cup {NoOne}
  BY DEF Accounts
<1>3. account \in [Accounts -> AccountRow] /\ asked \in [Drivers -> SUBSET Companies]
  BY <1>1, <1>2 DEF AccountRow, FLAGS
<1>4. request \in [Requests -> RequestRow] /\ \A r \in Requests : request[r].status = "absent"
  BY DEF Init, NoRequest, RequestRow
<1>5. handler \in [Handlers -> Locals] /\ \A h \in Handlers : LocalOK(handler[h])
  BY IdleOK DEF Init, LocalOK
<1>6. crashes \in 0..MaxCrashes
  BY CrashAssumption DEF Init
<1>7. WorksWhereAsked
  BY <1>1, <1>2 DEF WorksWhereAsked, Accounts
<1> QED BY <1>3, <1>4, <1>5, <1>6, <1>7 DEF IInv, TypeOK, RequestsAsked

LEMMA NextInv == IInv /\ [Next]_vars => IInv'
<1> SUFFICES ASSUME IInv, [Next]_vars PROVE IInv'
  OBVIOUS
<1>1. CASE UNCHANGED vars
  BY <1>1 DEF vars, IInv, TypeOK, WorksWhereAsked, RequestsAsked, LocalOK
<1>2. ASSUME NEW h \in Handlers, Step(h)
      PROVE  IInv'
  BY <1>2, CreateReadInv, CreateWriteInv, AnswerReadInv, JoinInv, CloseInv, LeaveReadInv,
     LeaveWriteInv, LinkReadInv, EditReadInv, RowWriteInv, CrashInv DEF Step
<1> QED BY <1>1, <1>2, SetFlagInv DEF Next

\* Types, and where a driver works, with requests that overlap.
THEOREM Invariance == Spec => []IInv
BY InitInv, NextInv, PTL DEF Spec

\* The rows and the locals of requests in flight keep their types, whatever
\* overlaps (TypeOK: the tables account and joinRequest).
THEOREM TypeCorrect == Spec => []TypeOK
<1>1. IInv => TypeOK
  BY DEF IInv
<1> QED BY <1>1, Invariance, PTL

\* A driver works only for a carrier he asked to join or was invited by,
\* whatever requests overlap and whatever row is written back late.
THEOREM WorksWhereAskedHolds == Spec => []WorksWhereAsked
<1>1. IInv => WorksWhereAsked
  BY DEF IInv
<1> QED BY <1>1, Invariance, PTL

-----------------------------------------------------------------------------
(* One request at a time. *)

OneHandler == \A g, h \in Handlers : g = h
OwnLinks == "superLink" \notin Calls

\* What a request that was read finds when it writes.
Fresh(r) ==
  /\ r.step = "create" => account[r.account].company = NoOne /\ Pending(r.account) = {}
  /\ r.step \in {"join", "close"} => request[r.request].status = "pending"
  /\ r.step = "join" => /\ request[r.request].driver = r.account
                        /\ request[r.request].company = r.company
  /\ r.step = "write" =>
       /\ r.row.company = account[r.account].company
       /\ \/ r.row.dispatcher = account[r.account].dispatcher
          \/ r.row.dispatcher = NoOne
          \/ /\ r.row.company # NoOne
             /\ account[r.row.dispatcher].company = r.row.company

SInv ==
  /\ IInv
  /\ DispatcherOfOwnCompany
  /\ OneOpenRequest
  /\ \A d \in Drivers : account[d].company = NoOne => account[d].dispatcher = NoOne
  /\ \A h \in Handlers : Fresh(handler[h])

LEMMA SerialInit == Init => SInv
<1> SUFFICES ASSUME Init PROVE SInv
  OBVIOUS
<1>1. IInv
  BY InitInv
<1>2. \A a \in Accounts : account[a].dispatcher = NoOne
  BY DEF Init
<1>3. \A r \in Requests : request[r].status = "absent"
  BY DEF Init, NoRequest
<1>4. \A h \in Handlers : Fresh(handler[h])
  BY DEF Init, Idle, Fresh
<1> QED BY <1>1, <1>2, <1>3, <1>4 DEF SInv, DispatcherOfOwnCompany, OneOpenRequest, Accounts

\* A read that leaves fresh locals.
LEMMA SerialRead ==
  ASSUME SInv, OneHandler, NEW h \in Handlers, NEW r, LocalOK(r), Fresh(r), Read(h, r)
  PROVE  SInv'
<1>1. IInv'
  BY ReadInv DEF SInv
<1>2. UNCHANGED <<account, request, asked, crashes>> /\ Keep(h, r)
  BY DEF Read
<1>3. \A g \in Handlers : handler'[g] = r
  BY <1>2, KeepOK DEF SInv, IInv, OneHandler
<1>4. (\A g \in Handlers : Fresh(handler[g]))'
  BY <1>2, <1>3 DEF Fresh, Pending
<1>5. DispatcherOfOwnCompany' /\ OneOpenRequest'
  BY <1>2 DEF SInv, DispatcherOfOwnCompany, OneOpenRequest
<1> QED BY <1>1, <1>2, <1>4, <1>5 DEF SInv

\* Nothing is in flight after the last step of a request.
LEMMA SerialDone ==
  ASSUME IInv, OneHandler, NEW h \in Handlers, Done(h)
  PROVE  (\A g \in Handlers : Fresh(handler[g]))'
<1>1. \A g \in Handlers : handler'[g] = Idle
  BY IdleOK, KeepOK DEF Done, IInv, OneHandler
<1> QED BY <1>1 DEF Fresh, Idle

LEMMA SerialReads ==
  ASSUME SInv, OneHandler, OwnLinks, NEW h \in Handlers,
         \/ \E d \in Drivers, c \in Companies : CreateRead(h, d, c)
         \/ \E r \in Requests, action \in JOIN_REQUEST_STATUS \ {"pending"} :
              AnswerRead(h, r, action)
         \/ \E a \in Accounts : LeaveRead(h, a) \/ EditRead(h, a)
  PROVE  SInv'
<1>1. ASSUME NEW d \in Drivers, NEW c \in Companies, CreateRead(h, d, c)
      PROVE  SInv'
  <2> DEFINE r == CreateLocals(d, c)
  <2>1. Read(h, r) /\ account[d].company = NoOne /\ Pending(d) = {}
    BY <1>1 DEF CreateRead, CreateLocals
  <2>2. LocalOK(r) /\ r.step = "create" /\ r.account = d
    BY CreateLocalsOK
  <2> HIDE DEF r
  <2>3. Fresh(r)
    BY <2>1, <2>2 DEF Fresh
  <2> QED BY <2>1, <2>2, <2>3, SerialRead
<1>2. ASSUME NEW q \in Requests, NEW action \in JOIN_REQUEST_STATUS \ {"pending"},
             AnswerRead(h, q, action)
      PROVE  SInv'
  <2> DEFINE r == AnswerLocals(q, action)
  <2>1. Read(h, r) /\ request[q].status = "pending"
    BY <1>2 DEF AnswerRead, AnswerLocals
  <2>2. /\ LocalOK(r) /\ r.step \in {"join", "close"} /\ r.request = q
        /\ r.account = request[q].driver /\ r.company = request[q].company
    BY <2>1, AnswerLocalsOK DEF SInv
  <2> HIDE DEF r
  <2>3. Fresh(r)
    BY <2>1, <2>2 DEF Fresh
  <2> QED BY <2>1, <2>2, <2>3, SerialRead
<1>3. ASSUME NEW a \in Accounts, LeaveRead(h, a)
      PROVE  SInv'
  <2> DEFINE r == LeaveLocals(a)
  <2>1. Read(h, r)
    BY <1>3 DEF LeaveRead, LeaveLocals
  <2>2. LocalOK(r) /\ r.step = "leave"
    BY LeaveLocalsOK
  <2> HIDE DEF r
  <2>3. Fresh(r)
    BY <2>2 DEF Fresh
  <2> QED BY <2>1, <2>2, <2>3, SerialRead
<1>4. ASSUME NEW a \in Accounts, EditRead(h, a)
      PROVE  SInv'
  <2> DEFINE r == WriteLocals(a, account[a])
  <2>1. Read(h, r)
    BY <1>4 DEF EditRead, WriteLocals
  <2>2. account[a] \in AccountRow
    BY DEF SInv, IInv, TypeOK
  <2>3. LocalOK(r) /\ r.step = "write" /\ r.account = a /\ r.row = account[a]
    BY <2>2, WriteLocalsOK DEF SInv, IInv, WorksWhereAsked
  <2> HIDE DEF r
  <2>4. Fresh(r)
    BY <2>3 DEF Fresh
  <2> QED BY <2>1, <2>3, <2>4, SerialRead
<1> QED BY <1>1, <1>2, <1>3, <1>4


LEMMA SerialLink ==
  ASSUME SInv, OneHandler, OwnLinks, NEW h \in Handlers, NEW c \in Companies \cup {NoOne},
         NEW p \in Dispatchers, NEW d \in Drivers, NEW link \in BOOLEAN, LinkRead(h, c, p, d, link)
  PROVE  SInv'
<1> DEFINE q == IF link THEN p ELSE NoOne
           row == [account[d] EXCEPT !.dispatcher = q]
           r == WriteLocals(d, row)
<1>1. q \in {p, NoOne}
  OBVIOUS
<1>2. row \in AccountRow /\ row.company = account[d].company /\ row.dispatcher = q
  BY <1>1, LinkRow DEF SInv, IInv
<1>3. d \in Accounts /\ (account[d].company # NoOne => account[d].company \in asked[d])
  BY DEF Accounts, SInv, IInv, WorksWhereAsked
<1>4. Read(h, r)
  BY DEF LinkRead, WriteLocals
<1>5. c # NoOne /\ account[p].company = c /\ account[d].company = c
  BY DEF LinkRead, Finds, OwnLinks
<1> HIDE DEF q, row
<1>6. LocalOK(r) /\ r.step = "write" /\ r.account = d /\ r.row = row
  BY <1>2, <1>3, WriteLocalsOK
<1> HIDE DEF r
<1>7. Fresh(r)
  BY <1>1, <1>2, <1>5, <1>6 DEF Fresh
<1> QED BY <1>4, <1>6, <1>7, SerialRead

LEMMA SerialCreate ==
  ASSUME SInv, OneHandler, NEW h \in Handlers, NEW r \in Requests, CreateWrite(h, r)
  PROVE  SInv'
<1>1. IInv' /\ UNCHANGED account
  BY CreateWriteInv DEF SInv, CreateWrite
<1>2. (\A g \in Handlers : Fresh(handler[g]))'
  BY SerialDone DEF SInv, CreateWrite
<1>3. DispatcherOfOwnCompany'
  BY <1>1 DEF SInv, DispatcherOfOwnCompany
<1>4. /\ account[handler[h].account].company = NoOne
      /\ \A q \in Requests : ~(request[q].status = "pending"
                               /\ request[q].driver = handler[h].account)
  BY DEF SInv, Fresh, CreateWrite, Pending
<1>5. /\ request'[r].driver = handler[h].account
      /\ \A q \in Requests : q # r => request'[q] = request[q]
  BY CreateWriteDoes DEF SInv
<1>6. OneOpenRequest'
  BY <1>1, <1>4, <1>5 DEF SInv, OneOpenRequest
<1> QED BY <1>1, <1>2, <1>3, <1>6 DEF SInv

LEMMA SerialJoin ==
  ASSUME SInv, OneHandler, NEW h \in Handlers, Join(h)
  PROVE  SInv'
<1> DEFINE a == handler[h].account
           c == handler[h].company
           r == [handler[h] EXCEPT !.step = "close"]
<1>1. IInv' /\ UNCHANGED request /\ Keep(h, r)
  BY JoinInv DEF SInv, Join
<1>2. /\ a \in Drivers /\ c \in Companies
      /\ account'[a].company = c /\ account'[a].dispatcher = account[a].dispatcher
      /\ \A b \in Accounts : b # a => account'[b] = account[b]
      /\ LocalOK(r) /\ r.step = "close" /\ r.request = handler[h].request
  BY JoinDoes DEF SInv
<1>3. /\ handler[h].request \in Requests
      /\ request[handler[h].request].status = "pending"
      /\ request[handler[h].request].driver = a /\ request[handler[h].request].company = c
  BY DEF SInv, IInv, LocalOK, Fresh, Join
<1>4. account[a].company \in {NoOne, c}
  BY <1>3 DEF SInv, OneOpenRequest
<1>5. \A g \in Handlers : handler'[g] = r
  BY <1>1, <1>2, KeepOK DEF SInv, IInv, OneHandler
<1> HIDE DEF r
<1>6. (\A g \in Handlers : Fresh(handler[g]))'
  BY <1>1, <1>2, <1>3, <1>5 DEF Fresh
<1>7. a \in Accounts /\ a \notin Dispatchers /\ c # NoOne
  BY <1>2, RolesAssumption, NoOneAssumption DEF Accounts
<1>8. account[a].company = NoOne => account[a].dispatcher = NoOne
  BY <1>2 DEF SInv
<1> HIDE DEF a, c
<1>9. \A p \in Dispatchers : account'[p] = account[p]
  BY <1>2, <1>7 DEF Accounts
<1>10. \A d \in Drivers : account[d].dispatcher \in Dispatchers \cup {NoOne}
  BY DEF SInv, IInv, TypeOK, AccountRow, Accounts
<1>11. DispatcherOfOwnCompany'
  <2> SUFFICES ASSUME NEW d \in Drivers,
                      account'[d].dispatcher # NoOne,
                      account'[account'[d].dispatcher].company # NoOne
               PROVE  account'[account'[d].dispatcher].company = account'[d].company
    BY DEF DispatcherOfOwnCompany
  <2>1. account'[d].dispatcher = account[d].dispatcher
    BY <1>2 DEF Accounts
  <2>2. account'[d].company = account[d].company
    BY <1>2, <1>4, <1>8, <2>1 DEF Accounts
  <2> QED BY <1>9, <1>10, <2>1, <2>2 DEF SInv, DispatcherOfOwnCompany
<1>12. OneOpenRequest'
  BY <1>1, <1>2, <1>3 DEF SInv, OneOpenRequest, Accounts, IInv, RequestsAsked
<1>13. (\A d \in Drivers : account[d].company = NoOne => account[d].dispatcher = NoOne)'
  BY <1>2, <1>7 DEF SInv, Accounts
<1> QED BY <1>1, <1>6, <1>11, <1>12, <1>13 DEF SInv

LEMMA SerialClose ==
  ASSUME SInv, OneHandler, NEW h \in Handlers, Close(h)
  PROVE  SInv'
<1>1. IInv' /\ UNCHANGED account
  BY CloseInv DEF SInv, Close
<1>2. (\A g \in Handlers : Fresh(handler[g]))'
  BY SerialDone DEF SInv, Close
<1>3. DispatcherOfOwnCompany' /\ OneOpenRequest'
  BY <1>1, CloseDoes DEF SInv, DispatcherOfOwnCompany, OneOpenRequest
<1> QED BY <1>1, <1>2, <1>3 DEF SInv

LEMMA SerialLeave ==
  ASSUME SInv, OneHandler, NEW h \in Handlers, LeaveWrite(h)
  PROVE  SInv'
<1>1. IInv' /\ UNCHANGED request
  BY LeaveWriteInv DEF SInv, LeaveWrite
<1>2. (\A g \in Handlers : Fresh(handler[g]))'
  BY SerialDone DEF SInv, LeaveWrite
<1>3. \A d \in Drivers : account[d].dispatcher \in Dispatchers \cup {NoOne}
  BY DEF SInv, IInv, TypeOK, AccountRow, Accounts
<1>4. DispatcherOfOwnCompany'
  BY <1>3, LeaveWriteDoes DEF SInv, DispatcherOfOwnCompany, Accounts
<1>5. OneOpenRequest'
  BY <1>1, LeaveWriteDoes DEF SInv, OneOpenRequest, IInv, RequestsAsked, Accounts
<1>6. (\A d \in Drivers : account[d].company = NoOne => account[d].dispatcher = NoOne)'
  BY LeaveWriteDoes DEF SInv, Accounts
<1> QED BY <1>1, <1>2, <1>4, <1>5, <1>6 DEF SInv

LEMMA SerialRow ==
  ASSUME SInv, OneHandler, NEW h \in Handlers, RowWrite(h)
  PROVE  SInv'
<1> DEFINE a == handler[h].account
           row == handler[h].row
<1>1. IInv' /\ UNCHANGED request
  BY RowWriteInv DEF SInv, RowWrite
<1>2. (\A g \in Handlers : Fresh(handler[g]))'
  BY SerialDone DEF SInv, RowWrite
<1>3. /\ a \in Accounts /\ account'[a] = row
      /\ \A b \in Accounts : b # a => account'[b] = account[b]
  BY RowWriteDoes DEF SInv
<1>4. /\ row.company = account[a].company
      /\ \/ row.dispatcher \in {account[a].dispatcher, NoOne}
         \/ row.company # NoOne /\ account[row.dispatcher].company = row.company
  BY DEF SInv, Fresh, RowWrite
<1> HIDE DEF a, row
<1>5. \A b \in Accounts : account'[b].company = account[b].company
  BY <1>3, <1>4
<1>6. \A d \in Drivers : account'[d].dispatcher \in Dispatchers \cup {NoOne}
  BY <1>1 DEF IInv, TypeOK, AccountRow, Accounts
<1>7. DispatcherOfOwnCompany'
  <2> SUFFICES ASSUME NEW d \in Drivers, NEW p \in Dispatchers,
                      account'[d].dispatcher = p, account[p].company # NoOne
               PROVE  account[p].company = account[d].company
    BY <1>5, <1>6 DEF DispatcherOfOwnCompany, Accounts
  <2>1. CASE account[d].dispatcher = p
    BY <2>1, NoOneAssumption DEF SInv, DispatcherOfOwnCompany, Accounts
  <2>2. CASE account[d].dispatcher # p
    <3>1. d = a /\ row.dispatcher = p
      BY <1>3, <2>2 DEF Accounts
    <3>2. p # NoOne
      BY NoOneAssumption DEF Accounts
    <3> QED BY <1>4, <2>2, <3>1, <3>2
  <2> QED BY <2>1, <2>2
<1>8. OneOpenRequest'
  BY <1>1, <1>5 DEF SInv, OneOpenRequest, IInv, RequestsAsked, Accounts
<1>9. (\A d \in Drivers : account[d].company = NoOne => account[d].dispatcher = NoOne)'
  BY <1>3, <1>4 DEF SInv, Accounts
<1> QED BY <1>1, <1>2, <1>7, <1>8, <1>9 DEF SInv

LEMMA SerialFlag ==
  ASSUME SInv, NEW as, NEW f \in FLAGS, NEW on \in BOOLEAN, SetFlag(as, f, on)
  PROVE  SInv'
<1>1. IInv'
  BY SetFlagInv DEF SInv
<1>2. /\ UNCHANGED <<request, asked, handler>>
      /\ \A a \in Accounts : /\ account'[a].company = account[a].company
                             /\ account'[a].dispatcher = account[a].dispatcher
  BY SetFlagDoes DEF SInv
<1>3. \A d \in Drivers : account[d].dispatcher \in Dispatchers \cup {NoOne}
  BY DEF SInv, IInv, TypeOK, AccountRow, Accounts
<1>4. DispatcherOfOwnCompany'
  BY <1>2, <1>3 DEF SInv, DispatcherOfOwnCompany, Accounts
<1>5. OneOpenRequest'
  BY <1>2 DEF SInv, OneOpenRequest, IInv, RequestsAsked, Accounts
<1>6. ASSUME NEW h \in Handlers
      PROVE  Fresh(handler[h])'
  <2>1. LocalOK(handler[h]) /\ Fresh(handler[h]) /\ handler[h] \in Locals
    BY DEF SInv, IInv, TypeOK
  <2>2. handler[h].row.dispatcher \in Dispatchers \cup {NoOne}
    BY <2>1 DEF Locals, AccountRow
  <2>3. CASE handler[h].step = "write"
    BY <1>2, <2>1, <2>2, <2>3 DEF Fresh, LocalOK, Accounts
  <2>4. CASE handler[h].step # "write"
    BY <1>2, <2>1, <2>4 DEF Fresh, LocalOK, Pending, Accounts
  <2> QED BY <2>3, <2>4
<1>7. (\A d \in Drivers : account[d].company = NoOne => account[d].dispatcher = NoOne)'
  BY <1>2 DEF SInv, Accounts
<1> QED BY <1>1, <1>4, <1>5, <1>6, <1>7 DEF SInv

LEMMA SerialCrash ==
  ASSUME SInv, OneHandler, NEW h \in Handlers, Crash(h)
  PROVE  SInv'
<1>1. IInv' /\ UNCHANGED <<account, request>>
  BY CrashInv DEF SInv, Crash
<1>2. (\A g \in Handlers : Fresh(handler[g]))'
  BY SerialDone DEF SInv, Crash
<1>3. DispatcherOfOwnCompany' /\ OneOpenRequest'
  BY <1>1 DEF SInv, DispatcherOfOwnCompany, OneOpenRequest
<1> QED BY <1>1, <1>2, <1>3 DEF SInv

LEMMA SerialNext == OneHandler /\ OwnLinks /\ SInv /\ [Next]_vars => SInv'
<1> SUFFICES ASSUME OneHandler, OwnLinks, SInv, [Next]_vars PROVE SInv'
  OBVIOUS
<1>1. CASE UNCHANGED vars
  <2>1. IInv'
    BY NextInv DEF SInv
  <2> QED BY <1>1, <2>1 DEF vars, SInv, DispatcherOfOwnCompany, OneOpenRequest, Fresh, Pending
<1>2. ASSUME NEW h \in Handlers, Step(h)
      PROVE  SInv'
  BY <1>2, SerialReads, SerialLink, SerialCreate, SerialJoin, SerialClose, SerialLeave,
     SerialRow, SerialCrash DEF Step
<1> QED BY <1>1, <1>2, SerialFlag DEF Next

\* With one request at a time, and links by carriers, what a request has read
\* still stands when it writes (joinRequest.service.ts, account.service.ts).
THEOREM SerialInvariance ==
  ASSUME OneHandler, OwnLinks
  PROVE  Spec => []SInv
<1>1. SInv /\ [Next]_vars => SInv'
  BY SerialNext
<1> QED BY <1>1, SerialInit, PTL DEF Spec

\* With one request at a time, and links by admins of a carrier, a driver's
\* dispatcher is a colleague or has left, wherever a request is cut off.
THEOREM DispatcherOfOwnCompanyHolds ==
  ASSUME OneHandler, OwnLinks
  PROVE  Spec => []DispatcherOfOwnCompany
<1>1. SInv => DispatcherOfOwnCompany
  BY DEF SInv
<1> QED BY <1>1, SerialInvariance, PTL

\* With one request at a time a driver has one open request, which names his
\* employer if he has one.
THEOREM OneOpenRequestHolds ==
  ASSUME OneHandler, OwnLinks
  PROVE  Spec => []OneOpenRequest
<1>1. SInv => OneOpenRequest
  BY DEF SInv
<1> QED BY <1>1, SerialInvariance, PTL

LEMMA FinalStep ==
  ASSUME SInv, [Next]_vars
  PROVE  \A r \in Requests : request[r].status \in JOIN_REQUEST_STATUS \ {"pending"}
                             => request'[r] = request[r]
<1>1. ASSUME NEW h \in Handlers, NEW r \in Requests, CreateWrite(h, r)
      PROVE  \A q \in Requests : request'[q] = request[q] \/ request[q].status = "absent"
  BY <1>1, CreateWriteDoes DEF SInv
<1>2. ASSUME NEW h \in Handlers, Close(h)
      PROVE  \A q \in Requests : request'[q] = request[q] \/ request[q].status = "pending"
  <2>1. request[handler[h].request].status = "pending"
    BY <1>2 DEF SInv, Fresh, Close
  <2> QED BY <1>2, <2>1, CloseDoes DEF SInv
<1>3. ASSUME NEW h \in Handlers, Step(h), UNCHANGED request
      PROVE  \A q \in Requests : request'[q] = request[q]
  BY <1>3
<1>4. ASSUME NEW h \in Handlers, Step(h)
      PROVE  \/ UNCHANGED request
             \/ Close(h)
             \/ \E r \in Requests : CreateWrite(h, r)
  BY <1>4 DEF Step, Read, CreateRead, AnswerRead, Join, LeaveRead, EditRead, LeaveWrite, LinkRead,
     RowWrite, Crash
<1>5. CASE UNCHANGED vars
  BY <1>5 DEF vars
<1> QED BY <1>1, <1>2, <1>4, <1>5 DEF Next, SetFlag, JOIN_REQUEST_STATUS

\* With one request at a time an answer to a join request is final.
THEOREM AnswersAreFinalHolds ==
  ASSUME OneHandler, OwnLinks
  PROVE  Spec => AnswersAreFinal
<1>1. SInv /\ [Next]_vars =>
        [\A r \in Requests : request[r].status \in JOIN_REQUEST_STATUS \ {"pending"}
                             => request'[r] = request[r]]_vars
  BY FinalStep
<1> QED BY <1>1, SerialInvariance, PTL DEF Spec, AnswersAreFinal
=============================================================================
