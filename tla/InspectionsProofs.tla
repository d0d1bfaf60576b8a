-------------------------- MODULE InspectionsProofs --------------------------
(***************************************************************************)
(* Inspections for any number of cars, drivers, photos and overlapping     *)
(* requests: types, photos that stay, signed reports that are final, and,  *)
(* where the driver's requests do not overlap, finished reports behind a   *)
(* requested signature.  The invariant says what a request in flight       *)
(* presupposes of the report it has read: it is still there, and nobody    *)
(* copied the pick-up's over it meanwhile.                                 *)
(***************************************************************************)
EXTENDS Inspections, FiniteSetTheorems, TLAPS

EditSteps == {"edit", "editRow", "editCheck", "editFinish"}

Table == [Cars -> [INSPECTION_TYPE -> Row]]

\* rp is the table of reports, ca what was carried over from the pick-ups.
LocalOK(r, rp, ca) ==
  /\ r \in Locals
  /\ r.step \in AboutReport \cup {"create"} => r.car \in Cars /\ r.type \in INSPECTION_TYPE
  /\ r.step \in AboutReport => rp[r.car][r.type].status # "absent" /\ ~r.signed
  /\ r.step = "damage" => r.type = "delivery" /\ ca[r.car] \subseteq r.images
  /\ r.step \in EditSteps /\ r.type = "delivery" => ca[r.car] = {}
  /\ r.step \in {"request", "requestWrite", "sign"}
       => r.type \in INSPECTION_TYPE /\ r.value \in OrderStatuses

ReportsOK(rp, ca) ==
  /\ rp \in Table
  /\ ca \in [Cars -> SUBSET Photos]
  /\ \A c \in Cars :
       /\ rp[c]["delivery"].status = "started" => ca[c] = {}
       /\ rp[c]["delivery"].status # "absent" => ca[c] \subseteq rp[c]["delivery"].images

OrderOK(o, as) == o \in OrderRow /\ as \in SUBSET Cars

HandlersOK(hs, rp, ca) ==
  /\ hs \in [Handlers -> Locals]
  /\ \A h \in Handlers : LocalOK(hs[h], rp, ca)

IInv ==
  /\ HandlersOK(handler, report, carried)
  /\ ReportsOK(report, carried)
  /\ OrderOK(order, asked)

-----------------------------------------------------------------------------
(* Requests in flight. *)

\* What no request in flight notices: reports stay, and what was carried into
\* the ones there are.
Keeps(rp, ca) ==
  \A c \in Cars, t \in INSPECTION_TYPE :
    Present(c, t) => rp[c][t].status # "absent" /\ (t = "delivery" => ca[c] = carried[c])

LEMMA KeepsLocal ==
  ASSUME NEW rp, NEW ca, Keeps(rp, ca), NEW r, LocalOK(r, report, carried)
  PROVE  LocalOK(r, rp, ca)
BY DEF Keeps, LocalOK, Present, AboutReport, EditSteps, INSPECTION_TYPE

LEMMA KeepsSame == Keeps(report, carried)
BY DEF Keeps, Present

\* One request moves on, or ends.
LEMMA HandlerStep ==
  ASSUME IInv, NEW rp, NEW ca, Keeps(rp, ca), NEW h \in Handlers, NEW r, LocalOK(r, rp, ca)
  PROVE  HandlersOK([handler EXCEPT ![h] = r], rp, ca)
<1> DEFINE hs == [handler EXCEPT ![h] = r]
<1>1. hs \in [Handlers -> Locals]
  BY DEF IInv, HandlersOK, LocalOK
<1>2. ASSUME NEW g \in Handlers PROVE LocalOK(hs[g], rp, ca)
  <2>1. CASE g = h
    BY <2>1 DEF IInv, HandlersOK
  <2>2. CASE g # h
    <3>1. hs[g] = handler[g] /\ LocalOK(handler[g], report, carried)
      BY <2>2 DEF IInv, HandlersOK
    <3> QED BY <3>1, KeepsLocal
  <2> QED BY <2>1, <2>2
<1> HIDE DEF hs
<1>3. HandlersOK(hs, rp, ca)
  BY <1>1, <1>2 DEF HandlersOK
<1> QED BY <1>3 DEF hs

LEMMA NothingSeenType == NoReport \in Row /\ NothingSeen \in [Cars -> Row]
BY DEF NoReport, NothingSeen, Row, INSPECTION_STATUS

LEMMA IdleOK == ASSUME NEW rp, NEW ca PROVE LocalOK(Idle, rp, ca)
BY NothingSeenType DEF LocalOK, Idle, Locals, Steps, AboutReport, EditSteps

\* A request that ends, and a request that only reads, leave the invariant alone.
LEMMA ReadStep ==
  ASSUME IInv, NEW h \in Handlers, NEW r, LocalOK(r, report, carried), Read(h, r)
  PROVE  IInv'
<1>1. HandlersOK([handler EXCEPT ![h] = r], report, carried)
  BY KeepsSame, HandlerStep
<1> QED BY <1>1 DEF Read, Keep, tables, history, IInv

LEMMA AbortStep ==
  ASSUME IInv, NEW h \in Handlers, Abort(h)
  PROVE  IInv'
<1>1. Read(h, Idle)
  BY DEF Abort, Read, Done, Keep
<1> QED BY <1>1, IdleOK, ReadStep
-----------------------------------------------------------------------------
(* The table of reports. *)

LEMMA SetReportTable ==
  ASSUME report \in Table, NEW c \in Cars, NEW t \in INSPECTION_TYPE, NEW row \in Row,
         SetReport(c, t, row)
  PROVE  /\ report' \in Table
         /\ report'[c][t] = row
         /\ \A k \in Cars, u \in INSPECTION_TYPE :
              k # c \/ u # t => report'[k][u] = report[k][u]
BY DEF SetReport, Table

LEMMA AllOfTypeTable ==
  ASSUME NEW r \in Table, NEW t \in INSPECTION_TYPE, NEW s \in INSPECTION_STATUS
  PROVE  /\ AllOfType(r, t, s) \in Table
         /\ \A k \in Cars, u \in INSPECTION_TYPE :
              AllOfType(r, t, s)[k][u] =
                IF u = t /\ r[k][u].status # "absent" THEN [r[k][u] EXCEPT !.status = s]
                ELSE r[k][u]
<1>1. ASSUME NEW k \in Cars
      PROVE  /\ AllOfType(r, t, s)[k] \in [INSPECTION_TYPE -> Row]
             /\ \A u \in INSPECTION_TYPE :
                  AllOfType(r, t, s)[k][u] =
                    IF u = t /\ r[k][u].status # "absent" THEN [r[k][u] EXCEPT !.status = s]
                    ELSE r[k][u]
  <2>1. r[k] \in [INSPECTION_TYPE -> Row] /\ r[k][t] \in Row
    BY DEF Table
  <2>2. AllOfType(r, t, s)[k] =
          [r[k] EXCEPT ![t] = IF r[k][t].status = "absent" THEN [r[k][t] EXCEPT !.status = "absent"]
                              ELSE [r[k][t] EXCEPT !.status = s]]
    BY <2>1 DEF AllOfType, Row
  <2>3. r[k][t].status = "absent" => [r[k][t] EXCEPT !.status = "absent"] = r[k][t]
    BY <2>1 DEF Row
  <2>4. [r[k][t] EXCEPT !.status = s] \in Row
    BY <2>1 DEF Row
  <2> QED BY <2>1, <2>2, <2>3, <2>4
<1>2. AllOfType(r, t, s) = [k \in Cars |-> AllOfType(r, t, s)[k]]
  BY DEF AllOfType
<1> QED BY <1>1, <1>2 DEF Table

\* What is copied never lands on a report that is there.
LEMMA CopiedTable ==
  ASSUME report \in Table, NEW seen \in [Cars -> Row], ~CopyFails(seen)
  PROVE  /\ Copied(seen) \in Table
         /\ \A k \in Cars :
              /\ Copied(seen)[k]["pickup"] = report[k]["pickup"]
              /\ Copied(seen)[k]["delivery"] =
                   IF seen[k] = NoReport THEN report[k]["delivery"]
                   ELSE [seen[k] EXCEPT !.status = "finished"]
              /\ Present(k, "delivery") => seen[k] = NoReport
<1>1. ASSUME NEW k \in Cars
      PROVE  /\ Copied(seen)[k] \in [INSPECTION_TYPE -> Row]
             /\ Copied(seen)[k]["pickup"] = report[k]["pickup"]
             /\ Copied(seen)[k]["delivery"] =
                  IF seen[k] = NoReport THEN report[k]["delivery"]
                  ELSE [seen[k] EXCEPT !.status = "finished"]
  <2>1. report[k] \in [INSPECTION_TYPE -> Row] /\ seen[k] \in Row
    BY DEF Table
  <2>2. [seen[k] EXCEPT !.status = "finished"] \in Row
    BY <2>1 DEF Row, INSPECTION_STATUS
  <2> QED BY <2>1, <2>2 DEF Copied, INSPECTION_TYPE
<1>2. Copied(seen) = [k \in Cars |-> Copied(seen)[k]]
  BY DEF Copied
<1> QED BY <1>1, <1>2 DEF Table, CopyFails

\* The pick-up's reports are neither made nor deleted by a copy.
CopiedPickups(rp) ==
  \A k \in Cars :
    /\ rp[k]["pickup"].status = "absent" <=> report[k]["pickup"].status = "absent"
    /\ rp[k]["pickup"].status = "started" => report[k]["pickup"].status = "started"

\* Copying the pick-up's reports and updating all of a type: the invariant on
\* the reports, and that signed ones of the other type stay.
LEMMA CopyStep ==
  ASSUME IInv, NEW seen \in [Cars -> Row], ~CopyFails(seen), NEW t \in INSPECTION_TYPE,
         NEW rp, rp = AllOfType(Copied(seen), t, "signature_requested"),
         NEW ca, ca = Carried(seen)
  PROVE  /\ ReportsOK(rp, ca)
         /\ Keeps(rp, ca)
         /\ \A k \in Cars, u \in INSPECTION_TYPE :
              u # t /\ Present(k, u) => rp[k][u] = report[k][u]
         /\ CopiedPickups(rp)
<1> DEFINE after == Copied(seen)
<1>1. report \in Table /\ carried \in [Cars -> SUBSET Photos]
  BY DEF IInv, ReportsOK
<1>2. /\ after \in Table
      /\ \A k \in Cars :
           /\ after[k]["pickup"] = report[k]["pickup"]
           /\ after[k]["delivery"] = IF seen[k] = NoReport THEN report[k]["delivery"]
                                     ELSE [seen[k] EXCEPT !.status = "finished"]
           /\ Present(k, "delivery") => seen[k] = NoReport
  BY <1>1, CopiedTable
<1> HIDE DEF after
<1>3. rp = AllOfType(after, t, "signature_requested")
  BY DEF after
<1>4. /\ rp \in Table
      /\ \A k \in Cars, u \in INSPECTION_TYPE :
           rp[k][u] = IF u = t /\ after[k][u].status # "absent"
                      THEN [after[k][u] EXCEPT !.status = "signature_requested"]
                      ELSE after[k][u]
  <2>1. "signature_requested" \in INSPECTION_STATUS
    BY DEF INSPECTION_STATUS
  <2> QED BY <1>2, <1>3, <2>1, AllOfTypeTable
<1>5. ca \in [Cars -> SUBSET Photos]
  BY <1>1 DEF Carried, Row
<1>6. \A k \in Cars : ca[k] = IF seen[k] = NoReport THEN carried[k] ELSE seen[k].images
  BY DEF Carried
<1>7. ASSUME NEW k \in Cars
      PROVE  /\ rp[k]["delivery"].status = "started" => ca[k] = {}
             /\ rp[k]["delivery"].status # "absent" => ca[k] \subseteq rp[k]["delivery"].images
  <2>1. after[k]["delivery"] \in Row /\ seen[k] \in Row /\ report[k]["delivery"] \in Row
    BY <1>1, <1>2 DEF Table, INSPECTION_TYPE
  <2>2. /\ rp[k]["delivery"].images = after[k]["delivery"].images
        /\ rp[k]["delivery"].status \in {"started", "absent"}
             => rp[k]["delivery"].status = after[k]["delivery"].status
        /\ after[k]["delivery"].status = "absent" => rp[k]["delivery"].status = "absent"
    BY <1>4, <2>1 DEF INSPECTION_TYPE, Row
  <2>3. CASE seen[k] = NoReport
    BY <1>2, <1>6, <2>2, <2>3 DEF IInv, ReportsOK
  <2>4. CASE seen[k] # NoReport
    <3>1. after[k]["delivery"].status = "finished" /\ after[k]["delivery"].images = seen[k].images
      BY <1>2, <2>1, <2>4 DEF Row
    <3> QED BY <1>6, <2>2, <2>4, <3>1
  <2> QED BY <2>3, <2>4
<1>8. ReportsOK(rp, ca)
  BY <1>4, <1>5, <1>7 DEF ReportsOK
<1>9. ASSUME NEW k \in Cars, NEW u \in INSPECTION_TYPE, Present(k, u)
      PROVE  after[k][u] = report[k][u] /\ (u = "delivery" => ca[k] = carried[k])
  BY <1>2, <1>6, <1>9 DEF INSPECTION_TYPE
<1>10. Keeps(rp, ca)
  <2> SUFFICES ASSUME NEW k \in Cars, NEW u \in INSPECTION_TYPE, Present(k, u)
               PROVE  rp[k][u].status # "absent" /\ (u = "delivery" => ca[k] = carried[k])
    BY DEF Keeps
  <2>1. after[k][u] \in Row /\ after[k][u].status # "absent"
    BY <1>2, <1>9 DEF Table, Present
  <2>2. [after[k][u] EXCEPT !.status = "signature_requested"].status # "absent"
    BY <2>1 DEF Row
  <2>3. rp[k][u].status # "absent"
    BY <1>4, <2>1, <2>2
  <2> QED BY <1>9, <2>3
<1>11. CopiedPickups(rp)
  <2> SUFFICES ASSUME NEW k \in Cars
               PROVE  /\ rp[k]["pickup"].status = "absent" <=> report[k]["pickup"].status = "absent"
                      /\ rp[k]["pickup"].status = "started" => report[k]["pickup"].status = "started"
    BY DEF CopiedPickups
  <2>1. after[k]["pickup"] = report[k]["pickup"] /\ after[k]["pickup"] \in Row
    BY <1>2 DEF Table, INSPECTION_TYPE
  <2>2. [after[k]["pickup"] EXCEPT !.status = "signature_requested"].status = "signature_requested"
    BY <2>1 DEF Row
  <2>3. rp[k]["pickup"] = IF "pickup" = t /\ after[k]["pickup"].status # "absent"
                          THEN [after[k]["pickup"] EXCEPT !.status = "signature_requested"]
                          ELSE after[k]["pickup"]
    BY <1>4 DEF INSPECTION_TYPE
  <2> QED BY <2>1, <2>2, <2>3
<1> QED BY <1>4, <1>8, <1>9, <1>10, <1>11
-----------------------------------------------------------------------------
(* The steps. *)

\* The step of SignedReportsAreFinal.
FinalStep ==
  \A c \in Cars, t \in INSPECTION_TYPE :
    report[c][t].status = "signed" /\ (\A h \in Handlers : ~Holds(h, c, t))
      => report'[c][t] \in {report[c][t], NoReport}

\* No report of a pick-up is made or deleted, and none is begun again.
PickupsStay ==
  \A c \in Cars :
    /\ report'[c]["pickup"].status = "absent" <=> report[c]["pickup"].status = "absent"
    /\ report'[c]["pickup"].status = "started" => report[c]["pickup"].status = "started"

LEMMA SameReports == ASSUME UNCHANGED report PROVE FinalStep /\ PickupsStay
BY DEF FinalStep, PickupsStay

\* A request rewrites the report it has read, and goes on or ends.
LEMMA CellStep ==
  ASSUME IInv, NEW h \in Handlers, handler[h].step \in AboutReport,
         NEW row \in Row, row.status # "absent",
         handler[h].type = "delivery" =>
           /\ row.status = "started" => carried[handler[h].car] = {}
           /\ carried[handler[h].car] \subseteq row.images,
         row.status = "started" => report[handler[h].car][handler[h].type].status = "started",
         SetReport(handler[h].car, handler[h].type, row),
         UNCHANGED history, order' \in OrderRow,
         NEW r, LocalOK(r, report, carried), handler' = [handler EXCEPT ![h] = r]
  PROVE  IInv' /\ FinalStep /\ PickupsStay
<1> DEFINE c == handler[h].car
           t == handler[h].type
<1>1. c \in Cars /\ t \in INSPECTION_TYPE /\ Present(c, t) /\ ~handler[h].signed
  BY DEF IInv, HandlersOK, LocalOK, Present
<1>2. report \in Table
  BY DEF IInv, ReportsOK
<1>3. SetReport(c, t, row)
  OBVIOUS
<1>4. handler[h].type = t /\ handler[h].car = c
  OBVIOUS
<1> HIDE DEF c, t
<1>5. /\ report' \in Table /\ report'[c][t] = row
      /\ \A k \in Cars, u \in INSPECTION_TYPE : k # c \/ u # t => report'[k][u] = report[k][u]
  BY <1>1, <1>2, <1>3, SetReportTable
<1>6. carried' = carried /\ asked' = asked
  BY DEF history
<1>7. ReportsOK(report', carried)
  <2> SUFFICES ASSUME NEW k \in Cars
               PROVE  /\ report'[k]["delivery"].status = "started" => carried[k] = {}
                      /\ report'[k]["delivery"].status # "absent"
                           => carried[k] \subseteq report'[k]["delivery"].images
    BY <1>5 DEF IInv, ReportsOK
  <2>1. CASE k = c /\ t = "delivery"
    BY <1>4, <1>5, <2>1
  <2>2. CASE ~(k = c /\ t = "delivery")
    BY <1>5, <2>2 DEF IInv, ReportsOK, INSPECTION_TYPE
  <2> QED BY <2>1, <2>2
<1>8. Keeps(report', carried)
  BY <1>1, <1>5 DEF Keeps, Present
<1>9. HandlersOK(handler', report', carried)
  BY <1>8, KeepsLocal, HandlerStep
<1>10. PickupsStay
  <2> SUFFICES ASSUME NEW k \in Cars
               PROVE  /\ report'[k]["pickup"].status = "absent"
                           <=> report[k]["pickup"].status = "absent"
                      /\ report'[k]["pickup"].status = "started"
                           => report[k]["pickup"].status = "started"
    BY DEF PickupsStay
  <2>1. CASE k = c /\ t = "pickup"
    BY <1>1, <1>4, <1>5, <2>1 DEF Present
  <2>2. CASE ~(k = c /\ t = "pickup")
    BY <1>5, <2>2 DEF INSPECTION_TYPE
  <2> QED BY <2>1, <2>2
<1>11. FinalStep
  BY <1>1, <1>4, <1>5 DEF FinalStep, Holds
<1>12. OrderOK(order', asked)
  BY DEF IInv, OrderOK
<1> QED BY <1>6, <1>7, <1>9, <1>10, <1>11, <1>12 DEF IInv

\* The next step of a request about a report.
LEMMA GoOn ==
  ASSUME IInv, NEW h \in Handlers, handler[h].step \in EditSteps, NEW s \in EditSteps
  PROVE  LocalOK([handler[h] EXCEPT !.step = s], report, carried)
BY DEF IInv, HandlersOK, LocalOK, Locals, Steps, EditSteps, AboutReport

LEMMA EditStep ==
  ASSUME IInv, NEW h \in Handlers, NEW complete \in BOOLEAN, NEW photos \in SUBSET Photos,
         EditDetails(h, complete) \/ EditRow(h, complete, photos) \/ EditCheck(h) \/ EditFinish(h)
  PROVE  IInv' /\ FinalStep /\ PickupsStay
<1> DEFINE me == handler[h]
           row == report[me.car][me.type]
<1>1. /\ me.step \in EditSteps /\ me.step \in AboutReport
      /\ handler \in [Handlers -> Locals]
  BY DEF EditDetails, EditRow, EditCheck, EditFinish, EditSteps, AboutReport, IInv, HandlersOK
<1>2. /\ me.car \in Cars /\ me.type \in INSPECTION_TYPE
      /\ row.status # "absent"
      /\ me.type = "delivery" => carried[me.car] = {}
  BY <1>1 DEF IInv, HandlersOK, LocalOK
<1>3. row \in Row
  BY <1>2 DEF IInv, ReportsOK, Table
<1>4. order \in OrderRow
  BY DEF IInv, OrderOK
<1>5. \A s \in EditSteps : LocalOK([me EXCEPT !.step = s], report, carried)
  BY <1>1, GoOn
<1>6. CASE EditDetails(h, complete)
  <2> DEFINE new == [row EXCEPT !.complete = complete]
  <2>1. new \in Row /\ new.status = row.status
    BY <1>3 DEF Row
  <2>2. SetReport(me.car, me.type, new)
    BY <1>6 DEF EditDetails, SetReport
  <2>3. handler' = [handler EXCEPT ![h] = [me EXCEPT !.step = "editRow"]]
    BY <1>1, <1>6 DEF EditDetails, Goto
  <2> HIDE DEF new, me
  <2>4. LocalOK([me EXCEPT !.step = "editRow"], report, carried)
    BY <1>5 DEF EditSteps
  <2> USE DEF me
  <2> QED BY <1>1, <1>2, <1>4, <1>6, <2>1, <2>2, <2>3, <2>4, CellStep DEF EditDetails
<1>7. CASE EditRow(h, complete, photos)
  <2> DEFINE new == [row EXCEPT !.complete = complete, !.images = IF photos = {} THEN @ ELSE photos]
  <2>1. new \in Row /\ new.status = row.status
    BY <1>3 DEF Row
  <2>2. SetReport(me.car, me.type, new)
    BY <1>7 DEF EditRow
  <2>3. handler' = [handler EXCEPT ![h] = [me EXCEPT !.step = "editCheck"]]
    BY <1>1, <1>7 DEF EditRow, Goto
  <2> HIDE DEF new, me
  <2>4. LocalOK([me EXCEPT !.step = "editCheck"], report, carried)
    BY <1>5 DEF EditSteps
  <2> USE DEF me
  <2> QED BY <1>1, <1>2, <1>4, <1>7, <2>1, <2>2, <2>3, <2>4, CellStep DEF EditRow
<1>8. CASE EditCheck(h)
  <2>1. LocalOK([me EXCEPT !.step = "editFinish"], report, carried) /\ LocalOK(Idle, report, carried)
    BY <1>5, IdleOK DEF EditSteps
  <2>2. Read(h, [me EXCEPT !.step = "editFinish"]) \/ Read(h, Idle)
    BY <1>1, <1>8 DEF EditCheck, Goto, Done, Keep, Read
  <2> QED BY <1>8, <2>1, <2>2, ReadStep, SameReports DEF EditCheck, tables
<1>9. CASE EditFinish(h)
  <2> DEFINE new == [row EXCEPT !.status = "finished"]
  <2>1. new \in Row /\ new.status = "finished"
    BY <1>3 DEF Row, INSPECTION_STATUS
  <2>2. SetReport(me.car, me.type, new)
    BY <1>9 DEF EditFinish, UpdateStatus, SetReport
  <2>3. handler' = [handler EXCEPT ![h] = Idle] /\ UNCHANGED <<order, history>>
    BY <1>9 DEF EditFinish, Done, Keep
  <2> HIDE DEF new
  <2> QED BY <1>1, <1>2, <1>4, <2>1, <2>2, <2>3, IdleOK, CellStep
<1> QED BY <1>6, <1>7, <1>8, <1>9
LEMMA ViewStep ==
  ASSUME IInv, NEW h \in Handlers, ViewWrite(h)
  PROVE  IInv' /\ FinalStep /\ PickupsStay
<1> DEFINE me == handler[h]
           new == [report[me.car][me.type] EXCEPT !.status = "viewed"]
<1>1. me.step \in AboutReport
  BY DEF ViewWrite, AboutReport
<1>2. me.car \in Cars /\ me.type \in INSPECTION_TYPE /\ report[me.car][me.type].status # "absent"
  BY <1>1 DEF IInv, HandlersOK, LocalOK
<1>3. report[me.car][me.type] \in Row /\ order \in OrderRow
  BY <1>2 DEF IInv, ReportsOK, OrderOK, Table
<1>4. new \in Row /\ new.status = "viewed" /\ new.images = report[me.car][me.type].images
  BY <1>3 DEF Row, INSPECTION_STATUS
<1>5. me.type = "delivery" => carried[me.car] \subseteq new.images
  BY <1>2, <1>4 DEF IInv, ReportsOK
<1>6. SetReport(me.car, me.type, new)
  BY DEF ViewWrite, UpdateStatus, SetReport
<1>7. handler' = [handler EXCEPT ![h] = Idle] /\ UNCHANGED <<order, history>>
  BY DEF ViewWrite, Done, Keep
<1> HIDE DEF new
<1> QED BY <1>1, <1>3, <1>4, <1>5, <1>6, <1>7, IdleOK, CellStep

LEMMA DamageStep ==
  ASSUME IInv, NEW h \in Handlers, NEW complete \in BOOLEAN, NEW photos \in SUBSET Photos,
         DamageWrite(h, complete, photos) \/ DamageNotes(h, complete)
  PROVE  IInv' /\ FinalStep /\ PickupsStay
<1> DEFINE me == handler[h]
           row == report[me.car]["delivery"]
<1>1. me.step \in AboutReport /\ me.step = "damage"
  BY DEF DamageWrite, DamageNotes, AboutReport
<1>2. /\ me.car \in Cars /\ me.type = "delivery" /\ row.status # "absent"
      /\ carried[me.car] \subseteq me.images /\ me \in Locals
  BY <1>1 DEF IInv, HandlersOK, LocalOK
<1>3. row \in Row /\ order \in OrderRow
  BY <1>2 DEF IInv, ReportsOK, OrderOK, Table, INSPECTION_TYPE
<1>4. /\ row.status = "started" => carried[me.car] = {}
      /\ carried[me.car] \subseteq row.images
  BY <1>2 DEF IInv, ReportsOK
<1>5. handler' = [handler EXCEPT ![h] = Idle] /\ UNCHANGED history
  BY DEF DamageWrite, DamageNotes, Done, Keep
<1>6. CASE DamageWrite(h, complete, photos)
  <2> DEFINE new == [row EXCEPT !.complete = complete, !.images = me.images \cup photos]
  <2>1. me.images \in SUBSET Photos
    BY <1>2 DEF Locals
  <2>2. new \in Row /\ new.status = row.status /\ new.images = me.images \cup photos
    BY <1>3, <2>1 DEF Row
  <2>3. order' = [order EXCEPT !.preStatus = "claimed"] /\ SetReport(me.car, me.type, new)
    BY <1>2, <1>6 DEF DamageWrite
  <2>4. order' \in OrderRow /\ order'.status = order.status
    BY <1>3, <2>3 DEF OrderRow, OrderStatuses
  <2> HIDE DEF new
  <2> QED BY <1>1, <1>2, <1>4, <1>5, <2>2, <2>3, <2>4, IdleOK, CellStep
<1>7. CASE DamageNotes(h, complete)
  <2> DEFINE new == [row EXCEPT !.complete = complete]
  <2>1. new \in Row /\ new.status = row.status /\ new.images = row.images
    BY <1>3 DEF Row
  <2>2. order' = order /\ SetReport(me.car, me.type, new)
    BY <1>2, <1>7 DEF DamageNotes
  <2> HIDE DEF new
  <2> QED BY <1>1, <1>2, <1>3, <1>4, <1>5, <2>1, <2>2, IdleOK, CellStep
<1> QED BY <1>6, <1>7

LEMMA CreateStep ==
  ASSUME IInv, NEW h \in Handlers, NEW complete \in BOOLEAN, NEW photos \in SUBSET Photos,
         CreateWrite(h, complete, photos)
  PROVE  IInv' /\ FinalStep
<1> DEFINE me == handler[h]
           row == [status |-> IF complete THEN "finished" ELSE "started", driver |-> me.driver,
                   complete |-> complete, images |-> photos]
           c == me.car
           t == me.type
<1>1. c \in Cars /\ t \in INSPECTION_TYPE /\ me \in Locals /\ ~Present(c, t)
  BY DEF CreateWrite, IInv, HandlersOK, LocalOK
<1>2. row \in Row
  BY <1>1 DEF Row, Locals, INSPECTION_STATUS
<1>3. /\ SetReport(c, t, row)
      /\ carried' = IF t = "delivery" THEN [carried EXCEPT ![c] = {}] ELSE carried
      /\ handler' = [handler EXCEPT ![h] = Idle] /\ UNCHANGED <<order, asked>>
  BY DEF CreateWrite, Done, Keep
<1>4. report \in Table /\ carried \in [Cars -> SUBSET Photos]
  BY DEF IInv, ReportsOK
<1>5. row.status \in {"started", "finished"}
  OBVIOUS
<1> HIDE DEF row, c, t
<1>6. /\ report' \in Table /\ report'[c][t] = row
      /\ \A k \in Cars, u \in INSPECTION_TYPE : k # c \/ u # t => report'[k][u] = report[k][u]
  BY <1>1, <1>2, <1>3, <1>4, SetReportTable
<1>7. /\ carried' \in [Cars -> SUBSET Photos]
      /\ \A k \in Cars : carried'[k] = IF t = "delivery" /\ k = c THEN {} ELSE carried[k]
  BY <1>1, <1>3, <1>4
<1>8. ReportsOK(report', carried')
  <2> SUFFICES ASSUME NEW k \in Cars
               PROVE  /\ report'[k]["delivery"].status = "started" => carried'[k] = {}
                      /\ report'[k]["delivery"].status # "absent"
                           => carried'[k] \subseteq report'[k]["delivery"].images
    BY <1>6, <1>7 DEF ReportsOK
  <2>1. CASE k = c /\ t = "delivery"
    BY <1>7, <2>1
  <2>2. CASE ~(k = c /\ t = "delivery")
    BY <1>6, <1>7, <2>2 DEF IInv, ReportsOK, INSPECTION_TYPE
  <2> QED BY <2>1, <2>2
<1>9. Keeps(report', carried')
  BY <1>1, <1>6, <1>7 DEF Keeps, Present
<1>10. HandlersOK(handler', report', carried')
  BY <1>3, <1>9, IdleOK, HandlerStep
<1>11. OrderOK(order', asked')
  BY <1>3 DEF IInv, OrderOK
<1>12. FinalStep
  BY <1>1, <1>6 DEF FinalStep, Present
<1> QED BY <1>8, <1>10, <1>11, <1>12 DEF IInv

\* The reports found finished are looked for, and nothing changes.
LEMMA FindStep ==
  ASSUME IInv, NEW h \in Handlers, RequestFind(h)
  PROVE  IInv' /\ FinalStep /\ PickupsStay
<1>1. /\ handler \in [Handlers -> Locals] /\ LocalOK(handler[h], report, carried)
      /\ handler[h].step = "request"
  BY DEF RequestFind, IInv, HandlersOK
<1>2. LocalOK([handler[h] EXCEPT !.step = "requestWrite"], report, carried)
  BY <1>1 DEF LocalOK, Locals, Steps, EditSteps, AboutReport
<1>3. Read(h, [handler[h] EXCEPT !.step = "requestWrite"])
  BY <1>1 DEF RequestFind, Goto, Keep, Read
<1> QED BY <1>2, <1>3, ReadStep, SameReports DEF RequestFind, tables

LEMMA RequestStep ==
  ASSUME IInv, NEW h \in Handlers, RequestWrite(h)
  PROVE  IInv' /\ FinalStep /\ PickupsStay
<1> DEFINE me == handler[h]
<1>1. /\ me.type \in INSPECTION_TYPE /\ me.value \in OrderStatuses
      /\ me.seen \in [Cars -> Row] /\ me.cars \in SUBSET Cars
  BY DEF RequestWrite, IInv, HandlersOK, LocalOK, Locals
<1>2. /\ ~CopyFails(me.seen) /\ me.step = "requestWrite"
      /\ order' = [order EXCEPT !.status = "signature_requested", !.preStatus = me.value]
      /\ report' = AllOfType(Copied(me.seen), me.type, "signature_requested")
      /\ carried' = Carried(me.seen)
      /\ asked' = IF me.type = "pickup" THEN me.cars ELSE {}
      /\ handler' = [handler EXCEPT ![h] = Idle]
  BY DEF RequestWrite, Done, Keep
<1>3. /\ ReportsOK(report', carried')
      /\ Keeps(report', carried')
      /\ \A k \in Cars, u \in INSPECTION_TYPE :
           u # me.type /\ Present(k, u) => report'[k][u] = report[k][u]
      /\ CopiedPickups(report')
  BY <1>1, <1>2, CopyStep
<1>4. HandlersOK(handler', report', carried')
  BY <1>2, <1>3, IdleOK, HandlerStep
<1>5. OrderOK(order', asked')
  BY <1>1, <1>2 DEF IInv, OrderOK, OrderRow, OrderStatuses
<1>6. FinalStep
  BY <1>1, <1>2, <1>3 DEF FinalStep, Holds, Present
<1>7. PickupsStay
  BY <1>3 DEF PickupsStay, CopiedPickups
<1> QED BY <1>3, <1>4, <1>5, <1>6, <1>7 DEF IInv

LEMMA ClientDeliveryStep ==
  ASSUME IInv, NEW h \in Handlers, ClientDeliveryWrite(h)
  PROVE  IInv' /\ FinalStep /\ PickupsStay
<1> DEFINE me == handler[h]
<1>1. me.seen \in [Cars -> Row] /\ "delivery" \in INSPECTION_TYPE /\ me.step = "clientDelivery"
  BY DEF ClientDeliveryWrite, IInv, HandlersOK, LocalOK, Locals, INSPECTION_TYPE
<1>2. /\ ~CopyFails(me.seen)
      /\ order' = [order EXCEPT !.status = "signature_requested"]
      /\ report' = AllOfType(Copied(me.seen), "delivery", "signature_requested")
      /\ carried' = Carried(me.seen)
      /\ asked' = {}
      /\ handler' = [handler EXCEPT ![h] = Idle]
  BY DEF ClientDeliveryWrite, Done, Keep
<1>3. /\ ReportsOK(report', carried')
      /\ Keeps(report', carried')
      /\ \A k \in Cars, u \in INSPECTION_TYPE :
           u # "delivery" /\ Present(k, u) => report'[k][u] = report[k][u]
      /\ CopiedPickups(report')
  BY <1>1, <1>2, CopyStep
<1>4. HandlersOK(handler', report', carried')
  BY <1>2, <1>3, IdleOK, HandlerStep
<1>5. OrderOK(order', asked')
  BY <1>2 DEF IInv, OrderOK, OrderRow, OrderStatuses
<1>6. FinalStep
  BY <1>1, <1>3 DEF FinalStep, Holds, Present
<1>7. PickupsStay
  BY <1>3 DEF PickupsStay, CopiedPickups
<1> QED BY <1>3, <1>4, <1>5, <1>6, <1>7 DEF IInv

LEMMA SignStep ==
  ASSUME IInv, NEW h \in Handlers, SignWrite(h)
  PROVE  IInv' /\ FinalStep /\ PickupsStay
<1> DEFINE me == handler[h]
<1>1. me.type \in INSPECTION_TYPE /\ me.value \in OrderStatuses
  BY DEF SignWrite, IInv, HandlersOK, LocalOK
<1>2. /\ order' = [order EXCEPT !.status = me.value, !.preStatus = NoOne]
      /\ report' = AllOfType(report, me.type, "signed")
      /\ carried' = carried /\ asked' = {}
      /\ handler' = [handler EXCEPT ![h] = Idle]
  BY DEF SignWrite, Done, Keep
<1>3. report \in Table /\ "signed" \in INSPECTION_STATUS
  BY DEF IInv, ReportsOK, INSPECTION_STATUS
<1>4. /\ report' \in Table
      /\ \A k \in Cars, u \in INSPECTION_TYPE :
           report'[k][u] = IF u = me.type /\ report[k][u].status # "absent"
                           THEN [report[k][u] EXCEPT !.status = "signed"] ELSE report[k][u]
  BY <1>1, <1>2, <1>3, AllOfTypeTable
<1>5. \A k \in Cars, u \in INSPECTION_TYPE :
        /\ report[k][u] \in Row
        /\ report'[k][u].images = report[k][u].images
        /\ report'[k][u].status \in {"signed", report[k][u].status}
        /\ report'[k][u].status = "absent" <=> report[k][u].status = "absent"
        /\ report[k][u].status = "signed" => report'[k][u] = report[k][u]
  <2> SUFFICES ASSUME NEW k \in Cars, NEW u \in INSPECTION_TYPE
               PROVE  /\ report[k][u] \in Row
                      /\ report'[k][u].images = report[k][u].images
                      /\ report'[k][u].status \in {"signed", report[k][u].status}
                      /\ report'[k][u].status = "absent" <=> report[k][u].status = "absent"
                      /\ report[k][u].status = "signed" => report'[k][u] = report[k][u]
    OBVIOUS
  <2>1. report[k][u] \in Row
    BY <1>3 DEF Table
  <2>2. CASE u = me.type /\ report[k][u].status # "absent"
    <3>1. report'[k][u] = [report[k][u] EXCEPT !.status = "signed"]
      BY <1>4, <2>2
    <3> QED BY <2>1, <2>2, <3>1 DEF Row
  <2>3. CASE ~(u = me.type /\ report[k][u].status # "absent")
    <3>1. report'[k][u] = report[k][u]
      BY <1>4, <2>3
    <3> QED BY <2>1, <3>1
  <2> QED BY <2>2, <2>3
<1>6. ReportsOK(report', carried')
  BY <1>2, <1>4, <1>5 DEF IInv, ReportsOK, INSPECTION_TYPE
<1>7. HandlersOK(handler', report', carried')
  <2>1. Keeps(report', carried')
    BY <1>2, <1>5 DEF Keeps, Present
  <2> QED BY <1>2, <2>1, IdleOK, HandlerStep
<1>8. OrderOK(order', asked')
  BY <1>1, <1>2 DEF IInv, OrderOK, OrderRow
<1>9. FinalStep
  BY <1>5 DEF FinalStep
<1>10. PickupsStay
  BY <1>5 DEF PickupsStay, INSPECTION_TYPE
<1> QED BY <1>6, <1>7, <1>8, <1>9, <1>10 DEF IInv

\* Every report is deleted, and with it what the requests about one were to do.
LEMMA DeclineStep ==
  ASSUME IInv, NEW h \in Handlers, DeclineWrite(h)
  PROVE  IInv' /\ FinalStep
<1>1. /\ order' = [order EXCEPT !.status = "declined"] /\ asked' = {}
      /\ report' = [c \in Cars |-> [t \in INSPECTION_TYPE |-> NoReport]]
      /\ carried' = [c \in Cars |-> {}]
      /\ handler' = [g \in Handlers |->
           IF g = h \/ handler[g].step \in AboutReport THEN Idle ELSE handler[g]]
  BY DEF DeclineWrite
<1>2. ReportsOK(report', carried')
  <2>1. report' \in Table
    BY <1>1, NothingSeenType DEF Table
  <2> QED BY <1>1, <2>1 DEF ReportsOK, NoReport, INSPECTION_TYPE
<1>3. HandlersOK(handler', report', carried')
  <2>1. ASSUME NEW g \in Handlers
        PROVE  LocalOK(handler'[g], report', carried')
    <3>1. CASE g = h \/ handler[g].step \in AboutReport
      BY <1>1, <3>1, IdleOK
    <3>2. CASE ~(g = h \/ handler[g].step \in AboutReport)
      <4>1. handler'[g] = handler[g] /\ LocalOK(handler[g], report, carried)
        BY <1>1, <3>2 DEF IInv, HandlersOK
      <4> QED BY <3>2, <4>1 DEF LocalOK, AboutReport, EditSteps
    <3> QED BY <3>1, <3>2
  <2>2. handler' \in [Handlers -> Locals]
    BY <1>1, <2>1 DEF LocalOK
  <2> QED BY <2>1, <2>2 DEF HandlersOK
<1>4. OrderOK(order', asked')
  BY <1>1 DEF IInv, OrderOK, OrderRow, OrderStatuses
<1>5. FinalStep
  BY <1>1 DEF FinalStep
<1> QED BY <1>2, <1>3, <1>4, <1>5 DEF IInv

\* The order moves and the reports stay.
LEMMA MoveStep ==
  ASSUME IInv, NEW h \in Handlers,
         \/ CancelWrite(h) \/ (\E d \in Drivers : SendDriver(h, d) \/ AssignDriver(h, d))
         \/ Arrive(h, "on_way_to_pickup", "on_pickup") \/ Arrive(h, "picked_up", "on_delivery")
         \/ \E cars \in SUBSET Cars : PatchCars(h, cars)
  PROVE  IInv' /\ FinalStep /\ PickupsStay
<1>1. order \in OrderRow
  BY DEF IInv, OrderOK
<1>2. report' = report /\ carried' = carried
  BY DEF CancelWrite, SendDriver, AssignDriver, Arrive, PatchCars, history
<1>3. HandlersOK(handler', report, carried)
  <2>1. CASE CancelWrite(h)
    BY <2>1, KeepsSame, IdleOK, HandlerStep DEF CancelWrite, Done, Keep
  <2>2. CASE ~CancelWrite(h)
    BY <2>2 DEF SendDriver, AssignDriver, Arrive, PatchCars, IInv
  <2> QED BY <2>1, <2>2
<1>4. order' \in OrderRow
  <2>1. CASE CancelWrite(h)
    BY <1>1, <2>1 DEF CancelWrite, OrderRow, OrderStatuses
  <2>2. CASE \E d \in Drivers : SendDriver(h, d)
    BY <1>1, <2>2 DEF SendDriver, OrderRow, OrderStatuses
  <2>3. CASE \E d \in Drivers : AssignDriver(h, d)
    BY <1>1, <2>3 DEF AssignDriver, OrderRow
  <2>4. CASE Arrive(h, "on_way_to_pickup", "on_pickup") \/ Arrive(h, "picked_up", "on_delivery")
    BY <1>1, <2>4 DEF Arrive, OrderRow, OrderStatuses
  <2>5. CASE \E cars \in SUBSET Cars : PatchCars(h, cars)
    BY <1>1, <2>5 DEF PatchCars, OrderRow
  <2> QED BY <2>1, <2>2, <2>3, <2>4, <2>5
<1>5. OrderOK(order', asked')
  BY <1>4 DEF CancelWrite, SendDriver, AssignDriver, Arrive, PatchCars, history, IInv, OrderOK
<1>6. IInv'
  BY <1>2, <1>3, <1>5 DEF IInv, ReportsOK
<1> QED BY <1>2, <1>6, SameReports
-----------------------------------------------------------------------------
(* What the requests presuppose when they have read. *)

LEMMA AboutType ==
  ASSUME NEW s \in Steps, NEW c \in Cars, NEW t \in INSPECTION_TYPE, NEW d \in Drivers \cup {NoOne}
  PROVE  /\ About(s, c, t, d) \in Locals
         /\ About(s, c, t, d).step = s /\ About(s, c, t, d).car = c /\ About(s, c, t, d).type = t
         /\ About(s, c, t, d).signed = (report[c][t].status = "signed")
BY NothingSeenType DEF About, Idle, Locals

LEMMA ToCopyType == ASSUME report \in Table PROVE ToCopy \in [Cars -> Row]
BY NothingSeenType DEF ToCopy, Table, INSPECTION_TYPE

LEMMA ReadingStep ==
  ASSUME IInv, NEW h \in Handlers, NEW c \in Cars, NEW t \in INSPECTION_TYPE, NEW byClient \in BOOLEAN,
         \/ CreateRead(h, c, t) \/ EditRead(h, c, t) \/ ViewRead(h, c, t) \/ DamageRead(h, c)
         \/ RequestRead(h, t) \/ ClientDeliveryRead(h) \/ SignRead(h, t, byClient)
         \/ DeclineRead(h) \/ CancelRead(h)
  PROVE  IInv' /\ FinalStep /\ PickupsStay
<1>1. /\ report \in Table /\ order \in OrderRow /\ order.driver \in Drivers \cup {NoOne}
      /\ order.status \in OrderStatuses /\ order.cars \in SUBSET Cars
  BY DEF IInv, OrderOK, ReportsOK, OrderRow
<1>2. ASSUME NEW r, LocalOK(r, report, carried), Read(h, r)
      PROVE  IInv' /\ FinalStep /\ PickupsStay
  BY <1>2, ReadStep, SameReports DEF Read, tables
<1>3. CASE CreateRead(h, c, t)
  <2> DEFINE r == About("create", c, t, order.driver)
  <2>1. r \in Locals /\ r.step = "create" /\ r.car = c /\ r.type = t
    BY <1>1, AboutType DEF Steps
  <2>2. Read(h, r)
    BY <1>3 DEF CreateRead
  <2> HIDE DEF r
  <2>3. LocalOK(r, report, carried)
    BY <2>1 DEF LocalOK, AboutReport, EditSteps
  <2> QED BY <1>2, <2>2, <2>3
<1>4. CASE EditRead(h, c, t)
  <2> DEFINE r == About("edit", c, t, NoOne)
  <2>1. /\ r \in Locals /\ r.step = "edit" /\ r.car = c /\ r.type = t
        /\ r.signed = (report[c][t].status = "signed")
    BY <1>1, AboutType DEF Steps
  <2>2. Read(h, r) /\ report[c][t].status = "started"
    BY <1>4 DEF EditRead
  <2> HIDE DEF r
  <2>3. LocalOK(r, report, carried)
    BY <2>1, <2>2 DEF LocalOK, AboutReport, EditSteps, IInv, ReportsOK
  <2> QED BY <1>2, <2>2, <2>3
<1>5. CASE ViewRead(h, c, t)
  <2> DEFINE r == About("view", c, t, NoOne)
  <2>1. /\ r \in Locals /\ r.step = "view" /\ r.car = c /\ r.type = t
        /\ r.signed = (report[c][t].status = "signed")
    BY <1>1, AboutType DEF Steps
  <2>2. Read(h, r) /\ report[c][t].status \in {"signature_requested", "finished"}
    BY <1>5 DEF ViewRead
  <2> HIDE DEF r
  <2>3. LocalOK(r, report, carried)
    BY <2>1, <2>2 DEF LocalOK, AboutReport, EditSteps
  <2> QED BY <1>2, <2>2, <2>3
<1>6. CASE DamageRead(h, c)
  <2> DEFINE a == About("damage", c, "delivery", NoOne)
             r == [a EXCEPT !.images = report[c]["delivery"].images]
  <2>1. /\ a \in Locals /\ a.step = "damage" /\ a.car = c /\ a.type = "delivery"
        /\ a.signed = (report[c]["delivery"].status = "signed")
    BY <1>1, AboutType DEF Steps, INSPECTION_TYPE
  <2>2. Read(h, r) /\ report[c]["delivery"].status \notin {"absent", "signed"}
    BY <1>6 DEF DamageRead
  <2>3. report[c]["delivery"].images \in SUBSET Photos
    BY <1>1 DEF Table, Row, INSPECTION_TYPE
  <2> HIDE DEF a
  <2>4. /\ r \in Locals /\ r.step = "damage" /\ r.car = c /\ r.type = "delivery"
        /\ r.signed = (report[c]["delivery"].status = "signed")
        /\ r.images = report[c]["delivery"].images
    BY <2>1, <2>3 DEF Locals
  <2> HIDE DEF r
  <2>5. carried[c] \subseteq report[c]["delivery"].images
    BY <2>2 DEF IInv, ReportsOK
  <2>6. LocalOK(r, report, carried)
    BY <2>2, <2>4, <2>5 DEF LocalOK, AboutReport, EditSteps, INSPECTION_TYPE
  <2> QED BY <1>2, <2>2, <2>6
<1>7. CASE RequestRead(h, t)
  <2> DEFINE seen == IF t = "delivery" THEN ToCopy ELSE NothingSeen
             r == [Idle EXCEPT !.step = "request", !.type = t, !.value = order.status,
                              !.cars = order.cars, !.seen = seen]
  <2>1. seen \in [Cars -> Row]
    BY <1>1, ToCopyType, NothingSeenType
  <2>2. Read(h, r)
    BY <1>7 DEF RequestRead
  <2> HIDE DEF seen
  <2>3. LocalOK(r, report, carried)
    BY <1>1, <2>1 DEF LocalOK, Idle, Locals, Steps, AboutReport, EditSteps
  <2> QED BY <1>2, <2>2, <2>3
<1>8. CASE ClientDeliveryRead(h)
  <2> DEFINE seen == IF order.driver # NoOne THEN ToCopy ELSE NothingSeen
             r == [Idle EXCEPT !.step = "clientDelivery", !.seen = seen]
  <2>1. seen \in [Cars -> Row]
    BY <1>1, ToCopyType, NothingSeenType
  <2>2. Read(h, r)
    BY <1>8 DEF ClientDeliveryRead
  <2> HIDE DEF seen
  <2>3. LocalOK(r, report, carried)
    BY <1>1, <2>1 DEF LocalOK, Idle, Locals, Steps, AboutReport, EditSteps
  <2> QED BY <1>2, <2>2, <2>3
<1>9. CASE SignRead(h, t, byClient)
  <2> DEFINE next == CASE t = "pickup"                 -> "picked_up"
                       [] order.preStatus = "declined" -> "claimed"
                       [] OTHER                        -> "delivered"
             r == [Idle EXCEPT !.step = "sign", !.type = t, !.value = next]
  <2>1. next \in OrderStatuses
    BY DEF OrderStatuses, INSPECTION_TYPE
  <2>2. Read(h, r)
    BY <1>9 DEF SignRead
  <2> HIDE DEF next
  <2>3. LocalOK(r, report, carried)
    BY <1>1, <2>1, NothingSeenType DEF LocalOK, Idle, Locals, Steps, AboutReport, EditSteps
  <2> QED BY <1>2, <2>2, <2>3
<1>10. ASSUME NEW s \in {"decline", "cancel"}, Read(h, [Idle EXCEPT !.step = s])
       PROVE  IInv' /\ FinalStep /\ PickupsStay
  <2>1. LocalOK([Idle EXCEPT !.step = s], report, carried)
    BY <1>10, NothingSeenType DEF LocalOK, Idle, Locals, Steps, AboutReport, EditSteps
  <2> QED BY <1>2, <1>10, <2>1
<1> QED BY <1>3, <1>4, <1>5, <1>6, <1>7, <1>8, <1>9, <1>10 DEF DeclineRead, CancelRead

-----------------------------------------------------------------------------
LEMMA InitIInv == Init => IInv
<1> SUFFICES ASSUME Init PROVE IInv
  OBVIOUS
<1>1. HandlersOK(handler, report, carried)
  BY IdleOK DEF Init, HandlersOK, LocalOK
<1>2. ReportsOK(report, carried)
  <2>1. report \in Table
    BY NothingSeenType DEF Init, Table
  <2> QED BY <2>1 DEF Init, ReportsOK, NoReport, INSPECTION_TYPE
<1>3. OrderOK(order, asked)
  BY DEF Init, OrderOK, OrderRow, OrderStatuses
<1> QED BY <1>1, <1>2, <1>3 DEF IInv

LEMMA NextIInv == IInv /\ [Next]_vars => IInv' /\ FinalStep
<1> SUFFICES ASSUME IInv, [Next]_vars PROVE IInv' /\ FinalStep
  OBVIOUS
<1>1. ASSUME NEW h \in Handlers, Reporting(h)
      PROVE  IInv' /\ FinalStep
  BY <1>1, ReadingStep, CreateStep, EditStep DEF Reporting
<1>2. ASSUME NEW h \in Handlers, Commenting(h)
      PROVE  IInv' /\ FinalStep
  <2>1. ASSUME NEW c \in Cars, NEW t \in INSPECTION_TYPE, ViewRead(h, c, t) \/ DamageRead(h, c)
        PROVE  IInv' /\ FinalStep
    BY <2>1, ReadingStep
  <2>2. ASSUME NEW complete \in BOOLEAN, NEW photos \in SUBSET Photos,
               DamageNotes(h, complete) \/ DamageWrite(h, complete, photos)
        PROVE  IInv' /\ FinalStep
    BY <2>2, DamageStep
  <2>3. "pickup" \in INSPECTION_TYPE /\ {} \in SUBSET Photos
    BY DEF INSPECTION_TYPE
  <2> QED BY <1>2, <2>1, <2>2, <2>3, ViewStep DEF Commenting
<1>3. ASSUME NEW h \in Handlers, Signing(h)
      PROVE  IInv' /\ FinalStep
  <2>1. PICK c \in Cars : TRUE
    BY CarsAssumption
  <2>2. "pickup" \in INSPECTION_TYPE /\ TRUE \in BOOLEAN
    BY DEF INSPECTION_TYPE
  <2>3. ASSUME NEW t \in INSPECTION_TYPE, NEW byClient \in BOOLEAN,
               RequestRead(h, t) \/ SignRead(h, t, byClient) \/ ClientDeliveryRead(h)
        PROVE  IInv' /\ FinalStep
    BY <2>1, <2>3, ReadingStep
  <2> QED BY <1>3, <2>2, <2>3, FindStep, RequestStep, ClientDeliveryStep, SignStep DEF Signing
<1>4. ASSUME NEW h \in Handlers, Moving(h)
      PROVE  IInv' /\ FinalStep
  <2>1. PICK c \in Cars : TRUE
    BY CarsAssumption
  <2>2. ASSUME DeclineRead(h) \/ CancelRead(h)
        PROVE  IInv' /\ FinalStep
    <3>1. "pickup" \in INSPECTION_TYPE /\ TRUE \in BOOLEAN
      BY DEF INSPECTION_TYPE
    <3> QED BY <2>1, <2>2, <3>1, ReadingStep
  <2>3. ASSUME \/ CancelWrite(h) \/ \E d \in Drivers : SendDriver(h, d) \/ AssignDriver(h, d)
               \/ Arrive(h, "on_way_to_pickup", "on_pickup") \/ Arrive(h, "picked_up", "on_delivery")
               \/ \E cars \in SUBSET Cars : PatchCars(h, cars)
        PROVE  IInv' /\ FinalStep
    BY <2>3, MoveStep
  <2> QED BY <1>4, <2>2, <2>3, DeclineStep DEF Moving
<1>5. ASSUME NEW h \in Handlers, Abort(h)
      PROVE  IInv' /\ FinalStep
  BY <1>5, AbortStep, SameReports DEF Abort, tables
<1>6. CASE UNCHANGED vars
  BY <1>6, SameReports DEF vars, IInv
<1> QED BY <1>1, <1>2, <1>3, <1>4, <1>5, <1>6 DEF Next

\* The invariant holds for every instance.
THEOREM Invariance == Spec => []IInv
<1>1. IInv /\ [Next]_vars => IInv'
  BY NextIInv
<1> QED BY <1>1, InitIInv, PTL DEF Spec

\* Types of the tables and of the requests in flight.
THEOREM TypeCorrect == Spec => []TypeOK
<1>1. IInv => TypeOK
  BY DEF IInv, HandlersOK, ReportsOK, OrderOK, LocalOK, Table, TypeOK
<1> QED BY <1>1, Invariance, PTL

\* No overlap of requests makes a delivery report lose a photo of its pick-up.
THEOREM PhotosTheorem == Spec => []PickupPhotosKept
<1>1. IInv => PickupPhotosKept
  BY DEF IInv, ReportsOK, PickupPhotosKept, Present
<1> QED BY <1>1, Invariance, PTL

\* What was signed stays as it was signed, but for requests in flight that
\* had found it unsigned (Holds), whatever overlaps.
THEOREM FinalTheorem == Spec => SignedReportsAreFinal
<1>1. IInv /\ [Next]_vars =>
        [\A c \in Cars, t \in INSPECTION_TYPE :
           report[c][t].status = "signed" /\ (\A h \in Handlers : ~Holds(h, c, t))
             => report'[c][t] \in {report[c][t], NoReport}]_vars
  BY NextIInv DEF FinalStep
<1> QED BY <1>1, Invariance, PTL DEF Spec, SignedReportsAreFinal
-----------------------------------------------------------------------------
(* What the driver's request has found is still there when it is written:   *)
(* it holds where the driver's requests come one at a time (DriverSerial).  *)

Asking == {"request", "requestWrite"}
Waits(o) == o.status = "signature_requested"
HasPickup(c) == report[c]["pickup"].status # "absent"
Reported(c) == report[c]["pickup"].status \notin {"absent", "started"}

\* A request runs in a slot that calls its endpoint.
CalledOK(h) ==
  /\ handler[h].step \in Asking => "request" \in Calls[h]
  /\ handler[h].step \in {"create", "decline"} => handler[h].step \in Calls[h]

\* Until it has found the reports, all there are belong to the cars it read;
\* from then on each of these cars has one that was finished.
AskingOK(h) ==
  handler[h].type = "pickup" =>
    /\ handler[h].step \in Asking => \A c \in Cars : HasPickup(c) => c \in handler[h].cars
    /\ handler[h].step = "requestWrite" => \A c \in handler[h].cars : Reported(c)

RInv ==
  /\ \A h \in Handlers : CalledOK(h) /\ AskingOK(h)
  /\ \A c \in Cars : HasPickup(c) => c \in order.cars
  /\ Waits(order) => \A c \in asked : Reported(c)

\* The steps a request may not just go to: those of a request for a signature,
\* and what the slot does not call.
NotFree(h) == Asking \cup ({"create", "decline"} \ Calls[h])

\* What most steps are to a request for a signature: no car with a report
\* leaves, no request for a signature begins or goes on, none gets pending.
Quiet ==
  /\ PickupsStay
  /\ \A c \in Cars : HasPickup(c) /\ c \in order.cars => c \in order'.cars
  /\ \A g \in Handlers :
       handler'[g] = handler[g] \/ handler'[g].step \notin NotFree(g)
  /\ asked' = {} \/ (asked' = asked /\ (Waits(order') => Waits(order)))

LEMMA QuietStep ==
  ASSUME IInv, RInv, Quiet
  PROVE  RInv'
<1>1. \A c \in Cars : (HasPickup(c)' <=> HasPickup(c)) /\ (Reported(c) => Reported(c)')
  BY DEF Quiet, PickupsStay, HasPickup, Reported
<1>2. ASSUME NEW h \in Handlers PROVE CalledOK(h)' /\ AskingOK(h)'
  <2>1. CASE handler'[h] = handler[h]
    <3>1. handler[h].cars \in SUBSET Cars
      BY DEF IInv, HandlersOK, Locals
    <3> QED BY <1>1, <2>1, <3>1 DEF RInv, CalledOK, AskingOK
  <2>2. CASE handler'[h].step \notin NotFree(h)
    BY <2>2 DEF CalledOK, AskingOK, Asking, NotFree
  <2> QED BY <2>1, <2>2 DEF Quiet
<1>3. \A c \in Cars : HasPickup(c)' => c \in order'.cars
  BY <1>1 DEF RInv, Quiet
<1>4. Waits(order') => \A c \in asked' : Reported(c)'
  <2>1. asked \in SUBSET Cars
    BY DEF IInv, OrderOK
  <2> QED BY <1>1, <2>1 DEF RInv, Quiet
<1> QED BY <1>2, <1>3, <1>4 DEF RInv, Waits

\* One slot goes on or ends, the order keeps its cars.
LEMMA QuietHandler ==
  ASSUME IInv, NEW h \in Handlers, NEW r, handler' = [handler EXCEPT ![h] = r],
         r.step \notin NotFree(h)
  PROVE  \A g \in Handlers :
           handler'[g] = handler[g] \/ handler'[g].step \notin NotFree(g)
BY DEF IInv, HandlersOK

LEMMA IdleQuiet == \A h \in Handlers : Idle.step \notin NotFree(h)
BY DEF Idle, Asking, NotFree

LEMMA ReportingQuiet ==
  ASSUME IInv, NEW h \in Handlers, NEW complete \in BOOLEAN, NEW photos \in SUBSET Photos,
         \/ EditDetails(h, complete) \/ EditRow(h, complete, photos) \/ EditCheck(h) \/ EditFinish(h)
         \/ ViewWrite(h) \/ DamageWrite(h, complete, photos) \/ DamageNotes(h, complete)
  PROVE  Quiet
<1>1. PickupsStay
  BY EditStep, ViewStep, DamageStep
<1>2. order \in OrderRow /\ handler \in [Handlers -> Locals]
  BY DEF IInv, OrderOK, HandlersOK
<1>3. order'.cars = order.cars /\ order'.status = order.status /\ asked' = asked
  BY <1>2 DEF EditDetails, EditRow, EditCheck, EditFinish, ViewWrite, DamageWrite, DamageNotes,
              tables, history, OrderRow
<1>4. \/ handler' = [handler EXCEPT ![h] = Idle]
      \/ \E s \in EditSteps : handler' = [handler EXCEPT ![h] = [handler[h] EXCEPT !.step = s]]
  <2>1. CASE EditDetails(h, complete) \/ EditRow(h, complete, photos)
    BY <2>1 DEF EditDetails, EditRow, Goto, EditSteps
  <2>2. CASE ~(EditDetails(h, complete) \/ EditRow(h, complete, photos))
    BY <2>2 DEF EditCheck, EditFinish, ViewWrite, DamageWrite, DamageNotes, Goto, Done, Keep, EditSteps
  <2> QED BY <2>1, <2>2
<1>5. \A g \in Handlers :
        handler'[g] = handler[g] \/ handler'[g].step \notin NotFree(g)
  <2>1. CASE handler' = [handler EXCEPT ![h] = Idle]
    BY <2>1, IdleQuiet, QuietHandler
  <2>2. ASSUME NEW s \in EditSteps, handler' = [handler EXCEPT ![h] = [handler[h] EXCEPT !.step = s]]
        PROVE  \A g \in Handlers : handler'[g] = handler[g] \/ handler'[g].step \notin NotFree(g)
    <3>1. [handler[h] EXCEPT !.step = s].step \notin NotFree(h)
      BY <1>2, <2>2 DEF Locals, EditSteps, Asking, NotFree
    <3> QED BY <2>2, <3>1, QuietHandler
  <2> QED BY <1>4, <2>1, <2>2
<1> QED BY <1>1, <1>3, <1>5 DEF Quiet, Waits

LEMMA SigningQuiet ==
  ASSUME IInv, RInv, NEW h \in Handlers, ClientDeliveryWrite(h) \/ SignWrite(h)
  PROVE  Quiet
<1>1. PickupsStay
  BY ClientDeliveryStep, SignStep
<1>2. handler' = [handler EXCEPT ![h] = Idle] /\ asked' = {}
  BY DEF ClientDeliveryWrite, SignWrite, Done, Keep
<1>3. order'.cars = order.cars
  BY DEF ClientDeliveryWrite, SignWrite, IInv, OrderOK, OrderRow
<1> QED BY <1>1, <1>2, <1>3, IdleQuiet, QuietHandler DEF Quiet

LEMMA MovingQuiet ==
  ASSUME IInv, NEW h \in Handlers,
         \/ CancelWrite(h) \/ (\E d \in Drivers : SendDriver(h, d) \/ AssignDriver(h, d))
         \/ Arrive(h, "on_way_to_pickup", "on_pickup") \/ Arrive(h, "picked_up", "on_delivery")
         \/ \E cars \in SUBSET Cars : PatchCars(h, cars)
  PROVE  Quiet
<1>1. PickupsStay
  BY MoveStep
<1>2. order \in OrderRow
  BY DEF IInv, OrderOK
<1>3. handler' = handler \/ handler' = [handler EXCEPT ![h] = Idle]
  BY DEF CancelWrite, SendDriver, AssignDriver, Arrive, PatchCars, Done, Keep
<1>4. \A g \in Handlers : handler'[g] = handler[g] \/ handler'[g].step \notin NotFree(g)
  BY <1>3, IdleQuiet, QuietHandler
<1>5. \A c \in Cars : HasPickup(c) /\ c \in order.cars => c \in order'.cars
  <2>1. CASE \E cars \in SUBSET Cars : PatchCars(h, cars)
    <3>1. PICK cars \in SUBSET Cars : PatchCars(h, cars)
      BY <2>1
    <3>2. order'.cars = cars /\ \A c \in order.cars \ cars : ~Present(c, "pickup")
      BY <1>2, <3>1 DEF PatchCars, OrderRow, INSPECTION_TYPE
    <3> QED BY <3>2 DEF HasPickup, Present
  <2>2. CASE ~\E cars \in SUBSET Cars : PatchCars(h, cars)
    BY <1>2, <2>2 DEF CancelWrite, SendDriver, AssignDriver, Arrive, OrderRow
  <2> QED BY <2>1, <2>2
<1>6. asked' = {} \/ (asked' = asked /\ (Waits(order') => Waits(order)))
  <2>1. CASE CancelWrite(h)
    BY <2>1 DEF CancelWrite
  <2>2. CASE \E d \in Drivers : SendDriver(h, d)
    BY <1>2, <2>2 DEF SendDriver, OrderRow, Waits, history
  <2>3. CASE \E d \in Drivers : AssignDriver(h, d)
    BY <1>2, <2>3 DEF AssignDriver, OrderRow, Waits, history
  <2>4. CASE Arrive(h, "on_way_to_pickup", "on_pickup") \/ Arrive(h, "picked_up", "on_delivery")
    BY <1>2, <2>4 DEF Arrive, OrderRow, Waits, history
  <2>5. CASE \E cars \in SUBSET Cars : PatchCars(h, cars)
    BY <1>2, <2>5 DEF PatchCars, OrderRow, Waits, history
  <2> QED BY <2>1, <2>2, <2>3, <2>4, <2>5
<1> QED BY <1>1, <1>4, <1>5, <1>6 DEF Quiet

LEMMA ReadingQuiet ==
  ASSUME IInv, NEW h \in Handlers, NEW r, Read(h, r), r.step \notin NotFree(h)
  PROVE  Quiet
<1>1. PickupsStay
  BY SameReports DEF Read, tables
<1>2. \A g \in Handlers : handler'[g] = handler[g] \/ handler'[g].step \notin NotFree(g)
  BY QuietHandler DEF Read, Keep
<1> QED BY <1>1, <1>2 DEF Quiet, Read, tables, history

LEMMA BeginsQuiet ==
  ASSUME IInv, NEW h \in Handlers, NEW c \in Cars, NEW t \in INSPECTION_TYPE, NEW byClient \in BOOLEAN,
         \/ CreateRead(h, c, t) \/ EditRead(h, c, t) \/ ViewRead(h, c, t) \/ DamageRead(h, c)
         \/ ClientDeliveryRead(h) \/ SignRead(h, t, byClient)
         \/ DeclineRead(h) \/ CancelRead(h) \/ Abort(h)
  PROVE  Quiet
<1>1. ASSUME NEW r, Read(h, r), r.step \notin NotFree(h)
      PROVE  Quiet
  BY <1>1, ReadingQuiet
<1>2. ASSUME NEW s \in {"create", "edit", "view", "damage"}, NEW d, NEW u
      PROVE  About(s, c, u, d).step = s
  BY DEF About, Idle
<1>3. CASE CreateRead(h, c, t)
  <2>1. "create" \notin NotFree(h)
    BY <1>3 DEF CreateRead, Called, NotFree, Asking
  <2> QED BY <1>1, <1>2, <1>3, <2>1 DEF CreateRead
<1>4. CASE EditRead(h, c, t) \/ ViewRead(h, c, t)
  <2>1. "edit" \notin NotFree(h) /\ "view" \notin NotFree(h)
    BY DEF NotFree, Asking
  <2> QED BY <1>1, <1>2, <1>4, <2>1 DEF EditRead, ViewRead
<1>5. CASE DamageRead(h, c)
  <2> DEFINE r == [About("damage", c, "delivery", NoOne) EXCEPT !.images = report[c]["delivery"].images]
  <2>1. r.step = "damage"
    BY DEF About, Idle
  <2>2. "damage" \notin NotFree(h)
    BY DEF NotFree, Asking
  <2>3. Read(h, r)
    BY <1>5 DEF DamageRead
  <2> QED BY <1>1, <2>1, <2>2, <2>3
<1>6. CASE ClientDeliveryRead(h) \/ SignRead(h, t, byClient) \/ CancelRead(h) \/ Abort(h)
  <2>1. \A s \in {"clientDelivery", "sign", "cancel", "idle"} : s \notin NotFree(h)
    BY DEF NotFree, Asking
  <2>2. CASE ClientDeliveryRead(h)
    BY <1>1, <2>1, <2>2 DEF ClientDeliveryRead, Idle
  <2>3. CASE SignRead(h, t, byClient)
    BY <1>1, <2>1, <2>3 DEF SignRead, Idle
  <2>4. CASE CancelRead(h)
    BY <1>1, <2>1, <2>4 DEF CancelRead, Idle
  <2>5. CASE Abort(h)
    <3>1. Read(h, Idle)
      BY <2>5 DEF Abort, Done, Keep, Read
    <3> QED BY <1>1, <3>1, IdleQuiet
  <2> QED BY <1>6, <2>2, <2>3, <2>4, <2>5
<1>7. CASE DeclineRead(h)
  <2>1. "decline" \notin NotFree(h)
    BY <1>7 DEF DeclineRead, Called, NotFree, Asking
  <2> QED BY <1>1, <1>7, <2>1 DEF DeclineRead, Idle
<1> QED BY <1>3, <1>4, <1>5, <1>6, <1>7

-----------------------------------------------------------------------------
(* The driver's request, and what could take from it what it has found.     *)

LEMMA AskingReads ==
  ASSUME IInv, RInv, NEW h \in Handlers, NEW t \in INSPECTION_TYPE, RequestRead(h, t)
  PROVE  RInv'
<1> DEFINE seen == IF t = "delivery" THEN ToCopy ELSE NothingSeen
           r == [Idle EXCEPT !.step = "request", !.type = t, !.value = order.status,
                             !.cars = order.cars, !.seen = seen]
<1>1. handler' = [handler EXCEPT ![h] = r] /\ UNCHANGED <<tables, history>> /\ "request" \in Calls[h]
  BY DEF RequestRead, Read, Keep, Called
<1> HIDE DEF seen
<1>2. r.step = "request" /\ r.type = t /\ r.cars = order.cars
  BY DEF Idle
<1> HIDE DEF r
<1>3. ASSUME NEW g \in Handlers PROVE CalledOK(g)' /\ AskingOK(g)'
  <2>1. CASE g = h
    <3>1. handler'[g] = r /\ report' = report
      BY <1>1, <2>1 DEF IInv, HandlersOK, tables
    <3> QED BY <1>1, <1>2, <2>1, <3>1 DEF RInv, CalledOK, AskingOK, HasPickup, Asking
  <2>2. CASE g # h
    <3>1. handler'[g] = handler[g] /\ report' = report
      BY <1>1, <2>2 DEF IInv, HandlersOK, tables
    <3> QED BY <3>1 DEF RInv, CalledOK, AskingOK, HasPickup, Reported
  <2> QED BY <2>1, <2>2
<1> QED BY <1>1, <1>3 DEF RInv, tables, history, HasPickup, Reported

\* As many finished reports as cars, all of these cars': one for each.
LEMMA AskingFinds ==
  ASSUME IInv, RInv, NEW h \in Handlers, RequestFind(h)
  PROVE  RInv'
<1> DEFINE me == handler[h]
           r == [me EXCEPT !.step = "requestWrite"]
           found == {c \in Cars : report[c]["pickup"].status = "finished"}
<1>1. /\ me \in Locals /\ me.step = "request" /\ me.cars \in SUBSET Cars
      /\ me.seen \in [Cars -> Row]
  BY DEF RequestFind, IInv, HandlersOK, Locals
<1>2. /\ handler' = [handler EXCEPT ![h] = r] /\ UNCHANGED <<tables, history>>
      /\ ~CopyFails(me.seen) /\ AllFinished(Copied(me.seen), me.type, me.cars)
  BY DEF RequestFind, Goto
<1>3. r.step = "requestWrite" /\ r.type = me.type /\ r.cars = me.cars
  BY <1>1 DEF Locals
<1>4. ASSUME me.type = "pickup"
      PROVE  \A c \in me.cars : Reported(c)
  <2>1. Cardinality(found) = Cardinality(me.cars)
    <3>1. report \in Table
      BY DEF IInv, ReportsOK
    <3>2. \A c \in Cars : Copied(me.seen)[c]["pickup"] = report[c]["pickup"]
      BY <1>1, <1>2, <3>1, CopiedTable
    <3>3. {c \in Cars : Copied(me.seen)[c]["pickup"].status = "finished"} = found
      BY <3>2
    <3> QED BY <1>2, <1>4, <3>3 DEF AllFinished
  <2>2. found \subseteq me.cars
    BY <1>1, <1>4 DEF RInv, AskingOK, Asking, HasPickup
  <2>3. IsFiniteSet(me.cars)
    BY <1>1, CarsAssumption, FS_Subset
  <2>4. found = me.cars
    BY <2>1, <2>2, <2>3, FS_Subset
  <2> QED BY <2>4 DEF Reported
<1> HIDE DEF r, found
<1>5. ASSUME NEW g \in Handlers PROVE CalledOK(g)' /\ AskingOK(g)'
  <2>1. CASE g = h
    <3>1. handler'[g] = r /\ report' = report
      BY <1>2, <2>1 DEF IInv, HandlersOK, tables
    <3>2. "request" \in Calls[h]
      BY <1>1 DEF RInv, CalledOK, Asking
    <3>3. me.type = "pickup" => \A c \in Cars : HasPickup(c) => c \in me.cars
      BY <1>1 DEF RInv, AskingOK, Asking
    <3> QED BY <1>3, <1>4, <2>1, <3>1, <3>2, <3>3 DEF CalledOK, AskingOK, HasPickup, Reported, Asking
  <2>2. CASE g # h
    <3>1. handler'[g] = handler[g] /\ report' = report
      BY <1>2, <2>2 DEF IInv, HandlersOK, tables
    <3> QED BY <3>1 DEF RInv, CalledOK, AskingOK, HasPickup, Reported
  <2> QED BY <2>1, <2>2
<1> QED BY <1>2, <1>5 DEF RInv, tables, history, HasPickup, Reported

\* What is written are the cars that have their reports.
LEMMA AskingWrites ==
  ASSUME IInv, RInv, NEW h \in Handlers, RequestWrite(h)
  PROVE  RInv'
<1>1. /\ handler' = [handler EXCEPT ![h] = Idle]
      /\ order'.cars = order.cars
      /\ asked' = IF handler[h].type = "pickup" THEN handler[h].cars ELSE {}
      /\ handler[h].step = "requestWrite" /\ handler[h].cars \in SUBSET Cars
  BY DEF RequestWrite, Done, Keep, IInv, OrderOK, OrderRow, HandlersOK, Locals
<1>2. \A c \in Cars : (HasPickup(c)' <=> HasPickup(c)) /\ (Reported(c) => Reported(c)')
  BY RequestStep DEF PickupsStay, HasPickup, Reported
<1>3. ASSUME NEW g \in Handlers PROVE CalledOK(g)' /\ AskingOK(g)'
  <2>1. CASE g = h
    BY <1>1, <2>1 DEF IInv, HandlersOK, CalledOK, AskingOK, Idle, Asking
  <2>2. CASE g # h
    <3>1. handler'[g] = handler[g] /\ handler[g].cars \in SUBSET Cars
      BY <1>1, <2>2 DEF IInv, HandlersOK, Locals
    <3> QED BY <1>2, <3>1 DEF RInv, CalledOK, AskingOK
  <2> QED BY <2>1, <2>2
<1>4. \A c \in asked' : Reported(c)'
  BY <1>1, <1>2 DEF RInv, AskingOK
<1> QED BY <1>1, <1>2, <1>3, <1>4 DEF RInv

\* A report that is begun: no request for a signature is in flight then.
LEMMA CreateReported ==
  ASSUME DriverSerial, IInv, RInv, NEW h \in Handlers, NEW complete \in BOOLEAN,
         NEW photos \in SUBSET Photos, CreateWrite(h, complete, photos)
  PROVE  RInv'
<1> DEFINE me == handler[h]
           row == [status |-> IF complete THEN "finished" ELSE "started", driver |-> me.driver,
                   complete |-> complete, images |-> photos]
<1>1. /\ me.step = "create" /\ me.car \in order.cars /\ ~Present(me.car, me.type)
      /\ me.car \in Cars /\ me.type \in INSPECTION_TYPE /\ me \in Locals
      /\ SetReport(me.car, me.type, row)
      /\ handler' = [handler EXCEPT ![h] = Idle] /\ UNCHANGED <<order, asked>>
  BY DEF CreateWrite, Done, Keep, IInv, HandlersOK, LocalOK
<1>2. row \in Row
  BY <1>1 DEF Row, Locals, INSPECTION_STATUS
<1> HIDE DEF row
<1>3. \A k \in Cars, u \in INSPECTION_TYPE :
        k # me.car \/ u # me.type => report'[k][u] = report[k][u]
  BY <1>1, <1>2, SetReportTable DEF IInv, ReportsOK
<1>4. \A k \in Cars : /\ HasPickup(k)' => HasPickup(k) \/ k \in order.cars
                      /\ Reported(k) => Reported(k)'
  BY <1>1, <1>3 DEF HasPickup, Reported, Present, INSPECTION_TYPE
<1>5. ASSUME NEW g \in Handlers PROVE handler'[g].step \notin Asking
  <2>1. CASE g = h
    BY <1>1, <2>1 DEF IInv, HandlersOK, Idle, Asking
  <2>2. CASE g # h
    <3>1. handler'[g] = handler[g] /\ "create" \in Calls[h]
      BY <1>1, <2>2 DEF IInv, HandlersOK, RInv, CalledOK
    <3>2. "request" \notin Calls[g]
      BY <2>2, <3>1 DEF DriverSerial
    <3> QED BY <3>1, <3>2 DEF RInv, CalledOK
  <2> QED BY <2>1, <2>2
<1>6. ASSUME NEW g \in Handlers PROVE CalledOK(g)' /\ AskingOK(g)'
  <2>1. handler'[g] \in {handler[g], Idle}
    BY <1>1 DEF IInv, HandlersOK
  <2>2. CalledOK(g)'
    BY <1>5, <2>1 DEF RInv, CalledOK, Idle
  <2> QED BY <1>5, <2>2 DEF AskingOK, Asking
<1>7. asked \in SUBSET Cars
  BY DEF IInv, OrderOK
<1> QED BY <1>1, <1>4, <1>6, <1>7 DEF RInv

\* All reports are deleted: there is none in flight then, either.
LEMMA DeclineReported ==
  ASSUME DriverSerial, IInv, RInv, NEW h \in Handlers, DeclineWrite(h)
  PROVE  RInv'
<1>1. /\ handler[h].step = "decline" /\ asked' = {}
      /\ report' = [c \in Cars |-> [t \in INSPECTION_TYPE |-> NoReport]]
      /\ \A g \in Handlers : handler'[g] \in {handler[g], Idle}
      /\ handler'[h] = Idle
  BY DEF DeclineWrite
<1>2. \A c \in Cars : ~HasPickup(c)'
  BY <1>1 DEF HasPickup, NoReport, INSPECTION_TYPE
<1>3. ASSUME NEW g \in Handlers PROVE CalledOK(g)' /\ AskingOK(g)'
  <2>1. handler'[g].step \notin Asking
    <3>1. CASE g = h
      BY <1>1, <3>1 DEF Idle, Asking
    <3>2. CASE g # h
      <4>1. "decline" \in Calls[h]
        BY <1>1 DEF RInv, CalledOK
      <4>2. "request" \notin Calls[g]
        BY <3>2, <4>1 DEF DriverSerial
      <4> QED BY <1>1, <4>2 DEF RInv, CalledOK, Idle, Asking
    <3> QED BY <3>1, <3>2
  <2>2. CalledOK(g)'
    BY <1>1, <2>1 DEF RInv, CalledOK, Idle
  <2> QED BY <2>1, <2>2 DEF AskingOK, Asking
<1> QED BY <1>1, <1>2, <1>3 DEF RInv

LEMMA NextRInv ==
  ASSUME DriverSerial
  PROVE  IInv /\ RInv /\ [Next]_vars => RInv'
<1> SUFFICES ASSUME IInv, RInv, [Next]_vars PROVE RInv'
  OBVIOUS
<1>1. PICK c \in Cars : TRUE
  BY CarsAssumption
<1>2. "pickup" \in INSPECTION_TYPE /\ TRUE \in BOOLEAN /\ {} \in SUBSET Photos
  BY DEF INSPECTION_TYPE
<1>3. ASSUME NEW h \in Handlers, Reporting(h)
      PROVE  RInv'
  <2>1. ASSUME NEW k \in Cars, NEW t \in INSPECTION_TYPE, CreateRead(h, k, t) \/ EditRead(h, k, t)
        PROVE  RInv'
    BY <1>2, <2>1, BeginsQuiet, QuietStep
  <2>2. ASSUME NEW complete \in BOOLEAN, NEW photos \in SUBSET Photos,
               \/ EditDetails(h, complete) \/ EditRow(h, complete, photos)
               \/ EditCheck(h) \/ EditFinish(h)
        PROVE  RInv'
    BY <2>2, ReportingQuiet, QuietStep
  <2>3. ASSUME NEW complete \in BOOLEAN, NEW photos \in SUBSET Photos, CreateWrite(h, complete, photos)
        PROVE  RInv'
    BY <2>3, CreateReported
  <2> QED BY <1>2, <1>3, <2>1, <2>2, <2>3 DEF Reporting
<1>4. ASSUME NEW h \in Handlers, Commenting(h)
      PROVE  RInv'
  <2>1. ASSUME NEW k \in Cars, NEW t \in INSPECTION_TYPE, ViewRead(h, k, t) \/ DamageRead(h, k)
        PROVE  RInv'
    BY <1>2, <2>1, BeginsQuiet, QuietStep
  <2>2. ASSUME NEW complete \in BOOLEAN, NEW photos \in SUBSET Photos,
               ViewWrite(h) \/ DamageNotes(h, complete) \/ DamageWrite(h, complete, photos)
        PROVE  RInv'
    BY <2>2, ReportingQuiet, QuietStep
  <2> QED BY <1>2, <1>4, <2>1, <2>2 DEF Commenting
<1>5. ASSUME NEW h \in Handlers, Signing(h)
      PROVE  RInv'
  <2>1. ASSUME NEW t \in INSPECTION_TYPE, NEW byClient \in BOOLEAN,
               SignRead(h, t, byClient) \/ ClientDeliveryRead(h)
        PROVE  RInv'
    BY <1>1, <2>1, BeginsQuiet, QuietStep
  <2>2. ASSUME ClientDeliveryWrite(h) \/ SignWrite(h)
        PROVE  RInv'
    BY <2>2, SigningQuiet, QuietStep
  <2> QED BY <1>2, <1>5, <2>1, <2>2, AskingReads, AskingFinds, AskingWrites DEF Signing
<1>6. ASSUME NEW h \in Handlers, Moving(h)
      PROVE  RInv'
  <2>1. ASSUME DeclineRead(h) \/ CancelRead(h)
        PROVE  RInv'
    BY <1>1, <1>2, <2>1, BeginsQuiet, QuietStep
  <2>2. ASSUME \/ CancelWrite(h) \/ \E d \in Drivers : SendDriver(h, d) \/ AssignDriver(h, d)
               \/ Arrive(h, "on_way_to_pickup", "on_pickup") \/ Arrive(h, "picked_up", "on_delivery")
               \/ \E cars \in SUBSET Cars : PatchCars(h, cars)
        PROVE  RInv'
    BY <2>2, MovingQuiet, QuietStep
  <2> QED BY <1>6, <2>1, <2>2, DeclineReported DEF Moving
<1>7. ASSUME NEW h \in Handlers, Abort(h)
      PROVE  RInv'
  BY <1>1, <1>2, <1>7, BeginsQuiet, QuietStep
<1>8. CASE UNCHANGED vars
  BY <1>8 DEF vars, RInv, CalledOK, AskingOK, HasPickup, Reported
<1> QED BY <1>3, <1>4, <1>5, <1>6, <1>7, <1>8 DEF Next

\* While the order waits for the pick-up signature its driver asked for, each
\* car the order had then has a finished report, however many cars and
\* overlapping requests there are, if the driver's come one at a time.
THEOREM ReportedTheorem ==
  ASSUME DriverSerial
  PROVE  Spec => []RequestsAreReported
<1>1. Init => RInv
  BY DEF Init, RInv, CalledOK, AskingOK, HasPickup, Idle, Asking, Waits, NoReport, INSPECTION_TYPE
<1>2. RInv => RequestsAreReported
  BY DEF RInv, Waits, Reported, RequestsAreReported
<1>3. IInv /\ RInv /\ [Next]_vars => RInv'
  BY NextRInv
<1> QED BY <1>1, <1>2, <1>3, Invariance, PTL DEF Spec
=============================================================================
