---------------------------- MODULE ServicesProofs ----------------------------
(***************************************************************************)
(* Theorems about the services that share no row: deals, reference         *)
(* numbers, refresh tokens, customers and vendors, the money of one        *)
(* document, and the statements of a vendor, for any numbers of rows,      *)
(* requests and lines and any amounts.                                     *)
(***************************************************************************)
EXTENDS Services, SumTheorems, Sequences, TLAPS

(***************************************************************************)
(* Deals: a won deal and its checklist come together, and a closed deal    *)
(* stays closed although nothing but the CHECK constraints and the foreign *)
(* key stand in the way of a stale write.                                  *)
(***************************************************************************)
\* What each operation makes of a deal: another deal, with the columns the
\* CHECK constraints compare.
LEMMA AdvancedFields ==
    ASSUME NEW row \in Row, row.status = "open", row.stage < LastStage
    PROVE  /\ Advanced(row) \in Row
           /\ Advanced(row).status = row.status
           /\ Advanced(row).evidence = row.evidence
<1>1. row.stage + 1 \in Stages \cup {NoStage}
  BY BoundAssumption DEF Row, Stages, NoStage
<1>2. row.version + 1 \in Nat
  BY DEF Row
<1>3. QED
  BY <1>1, <1>2 DEF Advanced, Row

LEMMA ParkedFields ==
    ASSUME NEW row \in Row
    PROVE  /\ Parked(row) \in Row
           /\ Parked(row).status = "parked"
           /\ Parked(row).evidence = row.evidence
<1>1. row.version + 1 \in Nat
  BY DEF Row
<1>2. "parked" \in DealStatus
  BY DEF DealStatus
<1>3. QED
  BY <1>1, <1>2 DEF Parked, Row

LEMMA ResumedFields ==
    ASSUME NEW row \in Row
    PROVE  /\ Resumed(row) \in Row
           /\ Resumed(row).status = "open"
           /\ Resumed(row).evidence = row.evidence
<1>1. row.version + 1 \in Nat
  BY DEF Row
<1>2. "open" \in DealStatus /\ NoStage \in Stages \cup {NoStage}
  BY DEF DealStatus
<1>3. QED
  BY <1>1, <1>2 DEF Resumed, Row

LEMMA ClosedAsFields ==
    ASSUME NEW row \in Row, NEW result \in Closed
    PROVE  /\ ClosedAs(row, result) \in Row
           /\ ClosedAs(row, result).status = result
           /\ ClosedAs(row, result).evidence = result
<1>1. row.version + 1 \in Nat
  BY DEF Row
<1>2. result \in DealStatus
  BY DEF DealStatus
<1>3. QED
  BY <1>1, <1>2 DEF ClosedAs, Row

LEMMA UpdatedFields ==
    ASSUME NEW row \in Row, NEW value \in Values
    PROVE  /\ Updated(row, value) \in Row
           /\ Updated(row, value).status = row.status
           /\ Updated(row, value).evidence = row.evidence
<1>1. row.version + 1 \in Nat
  BY DEF Row
<1>2. QED
  BY <1>1 DEF Updated, Row

\* An UPDATE leaves a deal, and each column is the committed one or the new one.
LEMMA OverlayFields ==
    ASSUME NEW row \in Row, NEW copy \in Row, NEW new \in Row
    PROVE  LET result == Overlay(row, copy, new) IN
           /\ result \in Row
           /\ result.status = IF new.status = copy.status THEN row.status ELSE new.status
           /\ result.evidence =
                 IF new.evidence = copy.evidence THEN row.evidence ELSE new.evidence
BY DEF Overlay, Column, Row

\* One UPDATE of an existing deal: the evidence keeps a closed deal closed, and
\* only an UPDATE that says so makes a deal won.
LEMMA UpdatedRow ==
    ASSUME NEW row \in Row, Exists(row), Checked(row),
           NEW copy \in Row, NEW new \in Row, Exists(new),
           new.evidence = copy.evidence \/ new.status \in Closed,
           Checked(Overlay(row, copy, new))
    PROVE  LET result == Overlay(row, copy, new) IN
           /\ result \in Row
           /\ Exists(result)
           /\ row.status \in Closed => result.status \in Closed
           /\ result.status = "won" => row.status = "won" \/ new.status = "won"
<1> DEFINE result == Overlay(row, copy, new)
<1>1. /\ result \in Row
      /\ result.status = IF new.status = copy.status THEN row.status ELSE new.status
      /\ result.evidence =
            IF new.evidence = copy.evidence THEN row.evidence ELSE new.evidence
  BY OverlayFields
<1>2. Checked(result)
  OBVIOUS
<1> HIDE DEF result
<1>3. row.status \in Closed => result.status \in Closed
  <2>1. CASE new.status = copy.status
    BY <1>1, <2>1
  <2>2. CASE new.status # copy.status /\ new.status \in Closed
    BY <1>1, <2>2
  <2>3. CASE new.evidence = copy.evidence
    BY <1>1, <1>2, <2>3 DEF Checked
  <2>4. QED
    BY <2>1, <2>2, <2>3
<1>4. Exists(result)
  BY <1>1 DEF Exists
<1>5. QED
  BY <1>1, <1>3, <1>4 DEF result

------------------------------------------------------------------------------
\* The inductive invariant.  The table alone is not inductive: that the write of
\* a request keeps it depends on what the request found when it loaded the deal.
RowsOK(rows, checklists) ==
    /\ rows \in [Deals -> Row]
    /\ checklists \subseteq Deals
    /\ \A d \in Deals :
          /\ Exists(rows[d]) => Checked(rows[d])
          /\ rows[d].status = "won" => d \in checklists
          /\ d \in checklists => rows[d].status \in Closed

RequestOK(r) ==
    \/ r = NoRequest
    \/ r \in Requests /\ Exists(r.copy) /\ CanDo(r.op, r.copy)

RequestsOK(requests) ==
    /\ requests \in [Workers -> Requests \cup {NoRequest}]
    /\ \A w \in Workers : RequestOK(requests[w])

IInv == RowsOK(deal, onboarded) /\ RequestsOK(request)

\* A request that ends leaves the others as they are.
LEMMA RequestEnds ==
    ASSUME NEW requests, RequestsOK(requests), NEW w \in Workers
    PROVE  RequestsOK([requests EXCEPT ![w] = NoRequest])
BY DEF RequestsOK, RequestOK

LEMMA RequestRuns ==
    ASSUME NEW requests, RequestsOK(requests), NEW w \in Workers,
           NEW op \in {"advance", "park", "resume", "won", "lost", "update", "delete"},
           requests[w].op = op
    PROVE  /\ requests[w] \in Requests
           /\ requests[w].deal \in Deals
           /\ requests[w].copy \in Row
           /\ Exists(requests[w].copy)
           /\ CanDo(op, requests[w].copy)
<1>1. requests[w] # NoRequest
  BY DEF NoRequest
<1>2. requests[w] \in Requests /\ Exists(requests[w].copy)
                                /\ CanDo(requests[w].op, requests[w].copy)
  BY <1>1 DEF RequestsOK, RequestOK
<1>3. QED
  BY <1>2 DEF Requests

\* The write of a request, given what it makes of its copy.
LEMMA WriteKeeps ==
    ASSUME IInv, NEW w \in Workers, NEW d \in Deals, request[w].deal = d,
           request[w].copy \in Row, NEW new \in Row, Exists(new),
           new.evidence = request[w].copy.evidence \/ new.status \in Closed,
           NEW checklists, checklists \in {onboarded, onboarded \cup {d}},
           new.status \in Closed \/ checklists = onboarded,
           d \in checklists \ onboarded => new.status # request[w].copy.status,
           new.status = "won" => d \in checklists,
           onboarded' = checklists,
           Write(w, new)
    PROVE  /\ IInv'
           /\ deal[d].status \in Closed => deal'[d].status \in Closed
           /\ \A e \in Deals \ {d} : deal'[e] = deal[e]
<1> DEFINE row == deal[d]
           result == Overlay(row, request[w].copy, new)
<1>1. row \in Row /\ Exists(row) /\ Checked(row)
  BY DEF IInv, RowsOK, Write
<1>2. deal' = [deal EXCEPT ![d] = result]
  BY DEF Write
<1>3. deal'[d] = result /\ \A e \in Deals \ {d} : deal'[e] = deal[e]
  BY <1>2 DEF IInv, RowsOK
<1>4. Checked(result)
  BY <1>3 DEF Write
<1>5. /\ result \in Row
      /\ Exists(result)
      /\ row.status \in Closed => result.status \in Closed
      /\ result.status = "won" => row.status = "won" \/ new.status = "won"
  BY <1>1, <1>4, UpdatedRow
<1>6. new.status # request[w].copy.status => result.status = new.status
  BY <1>1, OverlayFields
<1> HIDE DEF result
<1>7. RowsOK(deal, onboarded)'
  <2>1. deal' \in [Deals -> Row] /\ onboarded' \subseteq Deals
    BY <1>2, <1>5 DEF IInv, RowsOK
  <2>2. ASSUME NEW e \in Deals \ {d}
        PROVE  /\ Exists(deal'[e]) => Checked(deal'[e])
               /\ deal'[e].status = "won" => e \in onboarded'
               /\ e \in onboarded' => deal'[e].status \in Closed
    BY <1>3, <2>2 DEF IInv, RowsOK
  <2>3. /\ Exists(deal'[d]) => Checked(deal'[d])
        /\ deal'[d].status = "won" => d \in onboarded'
    BY <1>3, <1>4, <1>5 DEF IInv, RowsOK
  <2>4. d \in onboarded' => deal'[d].status \in Closed
    <3>1. CASE d \in onboarded
      BY <1>3, <1>5, <3>1 DEF IInv, RowsOK
    <3>2. CASE d \in checklists \ onboarded
      BY <1>3, <1>6, <3>2
    <3>3. QED
      BY <3>1, <3>2
  <2>5. QED
    BY <2>1, <2>2, <2>3, <2>4 DEF RowsOK
<1>8. RequestsOK(request)'
  BY RequestEnds DEF IInv, Write
<1>9. QED
  BY <1>3, <1>5, <1>7, <1>8 DEF IInv

------------------------------------------------------------------------------
\* What a step may do to the closed deals.
StaysClosed(d) ==
    deal[d].status \in Closed =>
       \/ deal'[d].status \in Closed
       \/ deal'[d].status = "deleted" /\ d \notin onboarded

LEMMA CreateKeeps ==
    ASSUME IInv, NEW d \in Deals, NEW value \in Values, Create(d, value)
    PROVE  IInv' /\ \A e \in Deals : StaysClosed(e)
<1> DEFINE new == Opened(value)
<1>1. 1 \in Stages /\ "open" \in DealStatus
  BY BoundAssumption DEF Stages, DealStatus
<1>2. new \in Row /\ Checked(new) /\ new.status = "open"
  <2>1. new.status = "open" /\ new.resume = NoStage /\ new.evidence = "none"
    BY DEF Opened
  <2>2. new \in Row
    BY <1>1 DEF Opened, Row
  <2>3. QED
    BY <2>1, <2>2 DEF Checked, Closed
<1> HIDE DEF new
<1>3. deal' = [deal EXCEPT ![d] = new] /\ UNCHANGED <<onboarded, request>>
  BY DEF Create, new
<1>4. deal[d].status = "absent" /\ d \notin onboarded
  BY DEF Create, IInv, RowsOK, Closed
<1>5. deal'[d] = new /\ \A e \in Deals \ {d} : deal'[e] = deal[e]
  BY <1>3 DEF IInv, RowsOK
<1>6. RowsOK(deal, onboarded)'
  <2>1. deal' \in [Deals -> Row] /\ onboarded' \subseteq Deals
    BY <1>2, <1>3 DEF IInv, RowsOK
  <2>2. "won" # "open"
    OBVIOUS
  <2>3. QED
    BY <1>2, <1>3, <1>4, <1>5, <2>1, <2>2 DEF IInv, RowsOK
<1>7. \A e \in Deals : StaysClosed(e)
  BY <1>4, <1>5 DEF StaysClosed, Closed
<1>8. QED
  BY <1>3, <1>6, <1>7 DEF IInv

LEMMA LoadKeeps ==
    ASSUME IInv, NEW w \in Workers, NEW d \in Deals, NEW expected \in Nat,
           NEW op \in {"advance", "park", "resume", "won", "lost", "update", "delete"},
           Load(w, op, d, expected)
    PROVE  IInv' /\ \A e \in Deals : StaysClosed(e)
<1> DEFINE r == [op |-> op, deal |-> d, copy |-> deal[d], expected |-> expected]
<1>1. r \in Requests
  BY DEF Requests, IInv, RowsOK
<1>2. RequestOK(r)
  BY <1>1 DEF RequestOK, Load
<1> HIDE DEF r
<1>3. request' = [request EXCEPT ![w] = r] /\ UNCHANGED <<deal, onboarded>>
  BY DEF Load, r
<1>4. RequestsOK(request')
  BY <1>1, <1>2, <1>3 DEF IInv, RequestsOK
<1>5. QED
  BY <1>3, <1>4 DEF IInv, StaysClosed

LEMMA DeleteKeeps ==
    ASSUME IInv, NEW w \in Workers, Delete(w)
    PROVE  IInv' /\ \A e \in Deals : StaysClosed(e)
<1> DEFINE d == request[w].deal
           gone == [deal[d] EXCEPT !.status = "deleted"]
<1>1. d \in Deals
  BY RequestRuns DEF IInv, Delete
<1>2. gone \in Row /\ gone.status = "deleted"
  BY <1>1 DEF IInv, RowsOK, Row
<1> HIDE DEF gone
<1>3. deal' = [deal EXCEPT ![d] = gone] /\ d \notin onboarded /\ UNCHANGED onboarded
  BY DEF Delete, gone
<1>4. RowsOK(deal, onboarded)'
  BY <1>1, <1>2, <1>3 DEF IInv, RowsOK, Exists, DealStatus, Closed
<1>5. RequestsOK(request')
  BY RequestEnds DEF IInv, Delete
<1>6. \A e \in Deals : StaysClosed(e)
  BY <1>1, <1>2, <1>3 DEF StaysClosed, IInv, RowsOK
<1>7. QED
  BY <1>4, <1>5, <1>6 DEF IInv

LEMMA FailKeeps ==
    ASSUME IInv, NEW w \in Workers, Fail(w)
    PROVE  IInv' /\ \A e \in Deals : StaysClosed(e)
BY RequestEnds DEF IInv, Fail, StaysClosed

\* The operations that write the deal: the fields lemma of the operation, then
\* WriteKeeps.
LEMMA WritesKeep ==
    ASSUME IInv, NEW w \in Workers,
           \/ Advance(w) \/ Park(w) \/ Resume(w) \/ CloseLost(w) \/ CloseWon(w)
           \/ \E value \in Values : Update(w, value)
    PROVE  IInv' /\ \A e \in Deals : StaysClosed(e)
<1> DEFINE copy == request[w].copy
           d == request[w].deal
<1>0. RequestsOK(request)
  BY DEF IInv
<1>1. CASE Advance(w)
  <2>1. request[w].op = "advance" /\ Write(w, Advanced(copy)) /\ onboarded' = onboarded
    BY <1>1 DEF Advance
  <2>2. d \in Deals /\ copy \in Row /\ copy.status = "open" /\ copy.stage < LastStage
    BY <1>0, <2>1, RequestRuns DEF CanDo
  <2>3. /\ Advanced(copy) \in Row
        /\ Advanced(copy).status = "open"
        /\ Advanced(copy).evidence = copy.evidence
    BY <2>2, AdvancedFields
  <2>4. Exists(Advanced(copy)) /\ Advanced(copy).status # "won"
    BY <2>3 DEF Exists, DealStatus
  <2>5. QED
    BY <2>1, <2>2, <2>3, <2>4, WriteKeeps DEF StaysClosed
<1>2. CASE Park(w)
  <2>1. request[w].op = "park" /\ Write(w, Parked(copy)) /\ onboarded' = onboarded
    BY <1>2 DEF Park
  <2>2. d \in Deals /\ copy \in Row
    BY <1>0, <2>1, RequestRuns
  <2>3. /\ Parked(copy) \in Row
        /\ Parked(copy).status = "parked"
        /\ Parked(copy).evidence = copy.evidence
    BY <2>2, ParkedFields
  <2>4. Exists(Parked(copy)) /\ Parked(copy).status # "won"
    BY <2>3 DEF Exists, DealStatus
  <2>5. QED
    BY <2>1, <2>2, <2>3, <2>4, WriteKeeps DEF StaysClosed
<1>3. CASE Resume(w)
  <2>1. request[w].op = "resume" /\ Write(w, Resumed(copy)) /\ onboarded' = onboarded
    BY <1>3 DEF Resume
  <2>2. d \in Deals /\ copy \in Row
    BY <1>0, <2>1, RequestRuns
  <2>3. /\ Resumed(copy) \in Row
        /\ Resumed(copy).status = "open"
        /\ Resumed(copy).evidence = copy.evidence
    BY <2>2, ResumedFields
  <2>4. Exists(Resumed(copy)) /\ Resumed(copy).status # "won"
    BY <2>3 DEF Exists, DealStatus
  <2>5. QED
    BY <2>1, <2>2, <2>3, <2>4, WriteKeeps DEF StaysClosed
<1>4. CASE CloseLost(w)
  <2>1. /\ request[w].op = "lost"
        /\ Write(w, ClosedAs(copy, "lost"))
        /\ onboarded' = onboarded
    BY <1>4 DEF CloseLost
  <2>2. d \in Deals /\ copy \in Row
    BY <1>0, <2>1, RequestRuns
  <2>3. "lost" \in Closed
    BY DEF Closed
  <2>4. ClosedAs(copy, "lost") \in Row /\ ClosedAs(copy, "lost").status = "lost"
    BY <2>2, <2>3, ClosedAsFields
  <2>5. Exists(ClosedAs(copy, "lost"))
    BY <2>3, <2>4 DEF Exists, DealStatus
  <2>6. QED
    BY <2>1, <2>2, <2>3, <2>4, <2>5, WriteKeeps DEF StaysClosed
<1>5. CASE CloseWon(w)
  <2>1. /\ request[w].op = "won"
        /\ Write(w, ClosedAs(copy, "won"))
        /\ onboarded' = onboarded \cup {d}
    BY <1>5 DEF CloseWon
  <2>2. d \in Deals /\ copy \in Row /\ copy.status = "open"
    BY <1>0, <2>1, RequestRuns DEF CanDo, CanMove
  <2>3. "won" \in Closed
    BY DEF Closed
  <2>4. ClosedAs(copy, "won") \in Row /\ ClosedAs(copy, "won").status = "won"
    BY <2>2, <2>3, ClosedAsFields
  <2>5. Exists(ClosedAs(copy, "won"))
    BY <2>3, <2>4 DEF Exists, DealStatus
  <2>6. QED
    BY <2>1, <2>2, <2>3, <2>4, <2>5, WriteKeeps DEF StaysClosed
<1>6. CASE \E value \in Values : Update(w, value)
  <2>1. PICK value \in Values : Update(w, value)
    BY <1>6
  <2>2. /\ request[w].op = "update"
        /\ Write(w, Updated(copy, value))
        /\ onboarded' = onboarded
    BY <2>1 DEF Update
  <2>3. d \in Deals /\ copy \in Row /\ Exists(copy) /\ copy.status \notin Closed
    BY <1>0, <2>2, RequestRuns DEF CanDo
  <2>4. /\ Updated(copy, value) \in Row
        /\ Updated(copy, value).status = copy.status
        /\ Updated(copy, value).evidence = copy.evidence
    BY <2>3, UpdatedFields
  <2>5. Exists(Updated(copy, value)) /\ Updated(copy, value).status # "won"
    BY <2>3, <2>4 DEF Exists, Closed
  <2>6. QED
    BY <2>2, <2>3, <2>4, <2>5, WriteKeeps DEF StaysClosed
<1>7. QED
  BY <1>1, <1>2, <1>3, <1>4, <1>5, <1>6

LEMMA InitHolds == Init => IInv
<1> SUFFICES ASSUME Init PROVE IInv
  OBVIOUS
<1>1. PICK value \in Values : deal = [d \in Deals |-> Absent(value)]
  BY DEF Init
<1>2. Absent(value) \in Row /\ Absent(value).status = "absent"
  BY DEF Absent, Row
<1>3. "absent" \notin DealStatus
  BY DEF DealStatus, Closed
<1>4. RowsOK(deal, onboarded)
  BY <1>1, <1>2, <1>3 DEF RowsOK, Exists, Init
<1>5. RequestsOK(request)
  BY DEF RequestsOK, RequestOK, Init
<1>6. QED
  BY <1>4, <1>5 DEF IInv

LEMMA StepKeeps == IInv /\ [Next]_vars => IInv' /\ \A d \in Deals : StaysClosed(d)
<1> SUFFICES ASSUME IInv, [Next]_vars PROVE IInv' /\ \A d \in Deals : StaysClosed(d)
  OBVIOUS
<1>1. CASE UNCHANGED vars
  BY <1>1 DEF vars, IInv, StaysClosed
<1>2. ASSUME NEW d \in Deals, NEW value \in Values, Create(d, value)
      PROVE  IInv' /\ \A e \in Deals : StaysClosed(e)
  BY <1>2, CreateKeeps
<1>3. ASSUME NEW w \in Workers, NEW d \in Deals,
             NEW op \in {"advance", "park", "resume", "won", "lost", "delete"},
             Load(w, op, d, NoStage)
      PROVE  IInv' /\ \A e \in Deals : StaysClosed(e)
  BY <1>3, LoadKeeps DEF NoStage
<1>4. ASSUME NEW w \in Workers, NEW d \in Deals, NEW version \in 1 .. deal[d].version,
             Load(w, "update", d, version)
      PROVE  IInv' /\ \A e \in Deals : StaysClosed(e)
  <2>1. deal[d].version \in Nat
    BY DEF IInv, RowsOK, Row
  <2>2. version \in Nat
    BY <2>1
  <2>3. QED
    BY <1>4, <2>2, LoadKeeps
<1>5. ASSUME NEW w \in Workers,
             \/ Advance(w) \/ Park(w) \/ Resume(w) \/ CloseLost(w) \/ CloseWon(w)
             \/ \E value \in Values : Update(w, value)
      PROVE  IInv' /\ \A e \in Deals : StaysClosed(e)
  BY <1>5, WritesKeep
<1>6. ASSUME NEW w \in Workers, Delete(w) \/ Fail(w)
      PROVE  IInv' /\ \A e \in Deals : StaysClosed(e)
  BY <1>6, DeleteKeeps, FailKeeps
<1>7. QED
  BY <1>1, <1>2, <1>3, <1>4, <1>5, <1>6 DEF Next

------------------------------------------------------------------------------
\* However requests race, a won deal has its onboarding checklist and a deal with
\* a checklist is closed (close(), create_for_won_deal(), delete()).
THEOREM WonDealsAreOnboarded == Spec => [](TypeOK /\ OnboardingFollowsWon)
<1>1. IInv => TypeOK /\ OnboardingFollowsWon
  BY DEF IInv, RowsOK, RequestsOK, TypeOK, OnboardingFollowsWon
<1>2. QED
  BY <1>1, InitHolds, StepKeeps, PTL DEF Spec

\* A closed deal is never open or parked again: the CHECK constraints of `deals`
\* stop the stale writes that no row lock stops.
THEOREM ClosedDealsStayClosed == Spec => ClosedStaysClosed
<1>1. IInv /\ [Next]_vars =>
         [\A d \in Deals :
             deal[d].status \in Closed =>
                \/ deal'[d].status \in Closed
                \/ deal'[d].status = "deleted" /\ d \notin onboarded]_vars
  BY StepKeeps DEF StaysClosed
<1>2. QED
  BY <1>1, InitHolds, StepKeeps, PTL DEF Spec, ClosedStaysClosed

------------------------------------------------------------------------------
(***************************************************************************)
(* Reference numbers: no number is issued twice, and the mark never falls, *)
(* as long as no import overtakes a generator.                             *)
(*                                                                         *)
(* The inductive invariant says who excludes whom: one session in the      *)
(* advisory section, one holder of the row.  From that, the mark is above  *)
(* everything ever issued, and the number a generator carries is above the *)
(* mark from its read to its commit.                                       *)
(***************************************************************************)
Carries(w) == writer[w].doing = "create"
              /\ writer[w].stage \in {"read", "marked", "inserted"}

OneInScope == \A v, w \in Writers : HoldsScope(v) /\ HoldsScope(w) => v = w

OneAtRow == \A v, w \in Writers : HoldsRow(v) /\ HoldsRow(w) => v = w

ImportsRaise ==
    \A w \in Writers : At(w, "import", "marked") =>
        writer[w].value >= mark /\ writer[w].value >= writer[w].number

MarkCovers == documents \subseteq issued /\ \A n \in issued : n <= mark

CarriedIsNew ==
    \A w \in Writers : Carries(w) =>
        writer[w].number > mark /\ writer[w].value = writer[w].number

RefInv ==
    /\ RefTypeOK
    /\ OneInScope
    /\ OneAtRow
    /\ ImportsRaise
    /\ ~overtaken => MarkCovers /\ CarriedIsNew

\* The records a session's transaction is set to are of its type.
LEMMA WriterRecords ==
    /\ Idle \in Writer
    /\ \A s \in {"retry", "locked"}, t \in 0 .. MaxTries :
          Creating(s, 0, 0, FALSE, t) \in Writer
    /\ \A s \in {"read", "marked", "inserted"}, n \in Numbers,
          v \in Numbers \cup {0}, f \in BOOLEAN, t \in 0 .. MaxTries :
             Creating(s, n, v, f, t) \in Writer
    /\ \A s \in {"inserted", "marked"}, n \in Numbers, v \in Numbers \cup {0} :
             Importing(s, n, v) \in Writer
BY TriesAssumption DEF Idle, Writer, Creating, Importing

\* Replacing one session's transaction keeps the table of transactions typed.
LEMMA Replaced ==
    ASSUME RefTypeOK, NEW w \in Writers, NEW r \in Writer, Put(w, r)
    PROVE  /\ writer' \in [Writers -> Writer]
           /\ writer'[w] = r
           /\ \A v \in Writers : v # w => writer'[v] = writer[v]
BY DEF RefTypeOK, Put

\* Every step keeps the state typed.
LEMMA RefTypeStep ==
    ASSUME RefTypeOK, [RefNext]_refVars PROVE RefTypeOK'
<1>0. USE NumberAssumption, TriesAssumption
<1> SUFFICES ASSUME RefNext PROVE RefTypeOK'
  BY DEF RefTypeOK, refVars, At
<1>t. \A w \in Writers : writer[w] \in Writer
  BY DEF RefTypeOK
<1>f. \A w \in Writers : /\ writer[w].number \in Numbers \cup {0}
                         /\ writer[w].value \in Numbers \cup {0}
                         /\ writer[w].tries \in 0 .. MaxTries
                         /\ writer[w].stage \in {"read", "marked", "inserted"} =>
                               writer[w].number \in Numbers
  BY <1>t DEF Writer
<1>1. ASSUME NEW w \in Writers, Lock(w) PROVE RefTypeOK'
  <2>1. Creating("locked", 0, 0, FALSE, writer[w].tries) \in Writer
    BY <1>f, WriterRecords
  <2> QED BY <1>1, <2>1, Replaced DEF Lock, RefTypeOK
<1>2. ASSUME NEW w \in Writers, Read(w) PROVE RefTypeOK'
  <2>1. Creating("read", NextNumber, NextNumber, mark = 0, writer[w].tries) \in Writer
    BY <1>2, <1>f, WriterRecords DEF Read
  <2> QED BY <1>2, <2>1, Replaced DEF Read, RefTypeOK
<1>3. ASSUME NEW w \in Writers, Mark(w) PROVE RefTypeOK'
  <2>1. Creating("marked", writer[w].number, writer[w].value, FALSE, writer[w].tries) \in Writer
    BY <1>3, <1>f, WriterRecords DEF Mark, At
  <2> QED BY <1>3, <2>1, Replaced DEF Mark, RefTypeOK
<1>4. ASSUME NEW w \in Writers, Insert(w) PROVE RefTypeOK'
  <2>1. Creating("inserted", writer[w].number, writer[w].value, FALSE, writer[w].tries) \in Writer
    BY <1>4, <1>f, WriterRecords DEF Insert, At
  <2> QED BY <1>4, <2>1, Replaced DEF Insert, RefTypeOK
<1>5. ASSUME NEW w \in Writers, Collide(w) PROVE RefTypeOK'
  <2>1. CASE writer[w].tries < MaxTries
    <3>1. writer[w].tries + 1 \in 0 .. MaxTries
      BY <1>f, <2>1
    <3>2. Creating("retry", 0, 0, FALSE, writer[w].tries + 1) \in Writer
      BY <3>1, WriterRecords
    <3> QED BY <1>5, <2>1, <3>2, Replaced DEF Collide, RefTypeOK
  <2>2. CASE ~(writer[w].tries < MaxTries)
    BY <1>5, <2>2, WriterRecords, Replaced DEF Collide, RefTypeOK
  <2> QED BY <2>1, <2>2
<1>6. ASSUME NEW w \in Writers, NEW n \in Numbers, Import(w, n) PROVE RefTypeOK'
  <2>1. Importing("inserted", n, 0) \in Writer
    BY WriterRecords
  <2> QED BY <1>6, <2>1, Replaced DEF Import, RefTypeOK
<1>7. ASSUME NEW w \in Writers, Bump(w) PROVE RefTypeOK'
  <2>1. Raised(writer[w].number) \in Numbers \cup {0}
    BY <1>f DEF Raised, RefTypeOK
  <2>2. Importing("marked", writer[w].number, Raised(writer[w].number)) \in Writer
    BY <1>7, <1>f, <2>1, WriterRecords DEF Bump, At
  <2> QED BY <1>7, <2>2, Replaced DEF Bump, RefTypeOK
<1>8. ASSUME NEW w \in Writers, Commit(w) PROVE RefTypeOK'
  <2>1. writer' \in [Writers -> Writer]
    BY <1>8, WriterRecords, Replaced DEF Commit
  <2>2. writer[w].number \in Numbers
    BY <1>8, <1>f DEF Commit, Marks, Unmarked, At
  <2> QED BY <1>8, <1>f, <2>1, <2>2 DEF Commit, RefTypeOK
<1>9. ASSUME NEW w \in Writers, RollBack(w) PROVE RefTypeOK'
  BY <1>9, WriterRecords, Replaced DEF RollBack, RefTypeOK
<1>10. ASSUME NEW n \in Numbers, DeleteDraft(n) PROVE RefTypeOK'
  BY <1>10 DEF DeleteDraft, RefTypeOK
<1> QED BY <1>1, <1>2, <1>3, <1>4, <1>5, <1>6, <1>7, <1>8, <1>9, <1>10 DEF RefNext

\* Who excludes whom: the advisory section, the row, and an import's raise.
LEMMA ExclusionStep ==
    ASSUME RefTypeOK, OneInScope, OneAtRow, ImportsRaise, [RefNext]_refVars
    PROVE  OneInScope' /\ OneAtRow' /\ ImportsRaise'
<1> SUFFICES ASSUME RefNext PROVE OneInScope' /\ OneAtRow' /\ ImportsRaise'
  BY DEF OneInScope, OneAtRow, ImportsRaise, HoldsScope, HoldsRow, At, refVars
<1>t. writer \in [Writers -> Writer] /\ mark \in Int
  BY NumberAssumption DEF RefTypeOK, Numbers
<1>1. ASSUME NEW w \in Writers, Lock(w) PROVE OneInScope' /\ OneAtRow' /\ ImportsRaise'
  BY <1>1, <1>t DEF Lock, Put, Creating, OneInScope, OneAtRow, ImportsRaise, HoldsScope, HoldsRow, At
<1>2. ASSUME NEW w \in Writers, Read(w) PROVE OneInScope' /\ OneAtRow' /\ ImportsRaise'
  BY <1>2, <1>t DEF Read, Put, Creating, OneInScope, OneAtRow, ImportsRaise, HoldsScope, HoldsRow, At
<1>3. ASSUME NEW w \in Writers, Mark(w) PROVE OneInScope' /\ OneAtRow' /\ ImportsRaise'
  BY <1>3, <1>t DEF Mark, Put, Creating, OneInScope, OneAtRow, ImportsRaise, HoldsScope, HoldsRow, At, Others
<1>4. ASSUME NEW w \in Writers, Insert(w) PROVE OneInScope' /\ OneAtRow' /\ ImportsRaise'
  BY <1>4, <1>t DEF Insert, Put, Creating, OneInScope, OneAtRow, ImportsRaise, HoldsScope, HoldsRow, At
<1>5. ASSUME NEW w \in Writers, Collide(w) PROVE OneInScope' /\ OneAtRow' /\ ImportsRaise'
  BY <1>5, <1>t DEF Collide, Put, Creating, Idle, OneInScope, OneAtRow, ImportsRaise, HoldsScope, HoldsRow, At
<1>6. ASSUME NEW w \in Writers, NEW n \in Numbers, Import(w, n)
      PROVE  OneInScope' /\ OneAtRow' /\ ImportsRaise'
  BY <1>6, <1>t DEF Import, Put, Importing, OneInScope, OneAtRow, ImportsRaise, HoldsScope, HoldsRow, At
<1>7. ASSUME NEW w \in Writers, Bump(w) PROVE OneInScope' /\ OneAtRow' /\ ImportsRaise'
  <2>1. writer[w].number \in Int
    BY <1>t, NumberAssumption DEF Writer, Numbers
  <2>2. Raised(writer[w].number) >= mark /\ Raised(writer[w].number) >= writer[w].number
    BY <1>t, <2>1 DEF Raised
  <2>3. OneInScope' /\ OneAtRow'
    BY <1>7, <1>t DEF Bump, Put, Importing, OneInScope, OneAtRow, HoldsScope, HoldsRow, At, Others
  <2>4. ImportsRaise'
    BY <1>7, <1>t, <2>2 DEF Bump, Put, Importing, ImportsRaise, At
  <2> QED BY <2>3, <2>4
<1>8. ASSUME NEW w \in Writers, Commit(w) PROVE OneInScope' /\ OneAtRow' /\ ImportsRaise'
  <2>1. OneInScope' /\ OneAtRow'
    BY <1>8, <1>t DEF Commit, Put, Idle, OneInScope, OneAtRow, HoldsScope, HoldsRow, At
  <2>2. ASSUME NEW v \in Writers, At(v, "import", "marked")'
        PROVE  writer'[v].value >= mark' /\ writer'[v].value >= writer'[v].number
    <3>1. v # w /\ writer'[v] = writer[v] /\ At(v, "import", "marked")
      BY <1>8, <1>t, <2>2 DEF Commit, Put, Idle, At
    <3>2. ~Marks(w)
      BY <3>1 DEF Marks, OneAtRow, HoldsRow, At
    <3>3. mark' = mark
      BY <1>8, <3>2 DEF Commit
    <3> QED BY <3>1, <3>3 DEF ImportsRaise
  <2> QED BY <2>1, <2>2 DEF ImportsRaise
<1>9. ASSUME NEW w \in Writers, RollBack(w) PROVE OneInScope' /\ OneAtRow' /\ ImportsRaise'
  BY <1>9, <1>t DEF RollBack, Put, Idle, OneInScope, OneAtRow, ImportsRaise, HoldsScope, HoldsRow, At
<1>10. ASSUME NEW n \in Numbers, DeleteDraft(n) PROVE OneInScope' /\ OneAtRow' /\ ImportsRaise'
  BY <1>10 DEF DeleteDraft, OneInScope, OneAtRow, ImportsRaise, HoldsScope, HoldsRow, At
<1> QED BY <1>1, <1>2, <1>3, <1>4, <1>5, <1>6, <1>7, <1>8, <1>9, <1>10 DEF RefNext

\* What the generator computes is above the mark, a new scope included.
LEMMA NextIsNew ==
    ASSUME RefTypeOK, MarkCovers PROVE NextNumber > mark
<1>1. mark \in Nat
  BY NumberAssumption DEF RefTypeOK, Numbers
<1>2. CASE mark > 0
  BY <1>1, <1>2 DEF NextNumber
<1>3. CASE mark = 0
  <2>1. \A n \in documents : n \in Int /\ n >= 1 /\ n <= 0
    BY <1>3, NumberAssumption DEF RefTypeOK, MarkCovers, Numbers
  <2>2. documents \cup {0} = {0}
    BY <2>1
  <2>3. Max({0}) = 0
    BY DEF Max
  <2> QED BY <1>3, <2>2, <2>3 DEF NextNumber
<1> QED BY <1>1, <1>2, <1>3

\* The mark stays above what was issued, and the carried number above the mark.
LEMMA CoverStep ==
    ASSUME RefTypeOK, OneInScope, OneAtRow, ImportsRaise, ~overtaken,
           MarkCovers, CarriedIsNew, [RefNext]_refVars, ~overtaken'
    PROVE  MarkCovers' /\ CarriedIsNew' /\ mark' >= mark
<1>t. writer \in [Writers -> Writer] /\ mark \in Int
  BY NumberAssumption DEF RefTypeOK, Numbers
<1>n. \A w \in Writers : writer[w].number \in Int /\ writer[w].value \in Int
  BY <1>t, NumberAssumption DEF Writer, Numbers
<1> SUFFICES ASSUME RefNext PROVE MarkCovers' /\ CarriedIsNew' /\ mark' >= mark
  BY <1>t DEF MarkCovers, CarriedIsNew, Carries, refVars
<1>1. ASSUME NEW w \in Writers, Lock(w) PROVE MarkCovers' /\ CarriedIsNew' /\ mark' >= mark
  BY <1>1, <1>t DEF Lock, Put, Creating, MarkCovers, CarriedIsNew, Carries
<1>2. ASSUME NEW w \in Writers, Read(w) PROVE MarkCovers' /\ CarriedIsNew' /\ mark' >= mark
  <2>1. NextNumber > mark
    BY NextIsNew
  <2>2. MarkCovers' /\ mark' >= mark
    BY <1>2, <1>t DEF Read, MarkCovers
  <2>3. CarriedIsNew'
    BY <1>2, <1>t, <2>1 DEF Read, Put, Creating, CarriedIsNew, Carries
  <2> QED BY <2>2, <2>3
<1>3. ASSUME NEW w \in Writers, Mark(w) PROVE MarkCovers' /\ CarriedIsNew' /\ mark' >= mark
  BY <1>3, <1>t DEF Mark, At, Put, Creating, MarkCovers, CarriedIsNew, Carries
<1>4. ASSUME NEW w \in Writers, Insert(w) PROVE MarkCovers' /\ CarriedIsNew' /\ mark' >= mark
  BY <1>4, <1>t DEF Insert, At, Put, Creating, MarkCovers, CarriedIsNew, Carries
<1>5. ASSUME NEW w \in Writers, Collide(w) PROVE MarkCovers' /\ CarriedIsNew' /\ mark' >= mark
  BY <1>5, <1>t DEF Collide, Put, Creating, Idle, MarkCovers, CarriedIsNew, Carries
<1>6. ASSUME NEW w \in Writers, NEW n \in Numbers, Import(w, n)
      PROVE  MarkCovers' /\ CarriedIsNew' /\ mark' >= mark
  BY <1>6, <1>t DEF Import, Put, Importing, MarkCovers, CarriedIsNew, Carries
<1>7. ASSUME NEW w \in Writers, Bump(w) PROVE MarkCovers' /\ CarriedIsNew' /\ mark' >= mark
  BY <1>7, <1>t DEF Bump, Put, Importing, MarkCovers, CarriedIsNew, Carries
<1>8. ASSUME NEW w \in Writers, Commit(w) PROVE MarkCovers' /\ CarriedIsNew' /\ mark' >= mark
  <2>0. ~Overtakes(w) /\ writer' = [writer EXCEPT ![w] = Idle]
    BY <1>8 DEF Commit, Put
  <2>1. mark' >= mark /\ mark' >= writer[w].number /\ mark' \in Int
    <3>1. CASE At(w, "create", "inserted")
      BY <1>8, <3>1, <1>t, <1>n DEF Commit, Marks, CarriedIsNew, Carries, At
    <3>2. CASE At(w, "import", "marked")
      BY <1>8, <3>2, <1>n DEF Commit, Marks, ImportsRaise
    <3>3. CASE ~Marks(w)
      BY <1>8, <2>0, <3>3, <1>t, <1>n DEF Commit, Overtakes
    <3> QED BY <3>1, <3>2, <3>3 DEF Marks
  <2>2. documents' = documents \cup {writer[w].number} /\ issued' = issued \cup {writer[w].number}
    BY <1>8 DEF Commit
  <2>3. MarkCovers'
    <3>1. ASSUME NEW n \in issued' PROVE n <= mark'
      <4>1. CASE n \in issued
        <5>1. n <= mark /\ n \in Int
          BY <4>1, NumberAssumption DEF MarkCovers, RefTypeOK, Numbers
        <5> QED BY <5>1, <2>1, <1>t
      <4>2. CASE n = writer[w].number
        BY <4>2, <2>1
      <4> QED BY <3>1, <2>2, <4>1, <4>2
    <3>2. documents' \subseteq issued'
      BY <2>2 DEF MarkCovers
    <3> QED BY <3>1, <3>2 DEF MarkCovers
  \* Whoever else carries a number when the mark is written has read it while
  \* this session held the row or the scope, so the commit would have overtaken
  \* it; an import that leaves the mark alone disturbs nobody.
  <2>4. ASSUME NEW v \in Writers, Carries(v)'
        PROVE  writer'[v].number > mark' /\ writer'[v].value = writer'[v].number
    <3>1. v # w /\ writer'[v] = writer[v]
      BY <2>0, <1>t, <2>4 DEF Idle, Carries
    <3>2. Carries(v) /\ HoldsScope(v)
      BY <3>1, <2>4 DEF Carries, HoldsScope
    <3>3. ~At(w, "create", "inserted")
      BY <3>1, <3>2 DEF OneInScope, HoldsScope, At
    <3>4. ~At(w, "import", "marked")
      <4>1. CASE At(v, "create", "read")
        BY <2>0, <4>1 DEF Overtakes
      <4>2. CASE ~At(v, "create", "read")
        BY <3>1, <3>2, <4>2 DEF OneAtRow, HoldsRow, Carries, At
      <4> QED BY <4>1, <4>2
    <3>5. mark' = mark
      BY <1>8, <3>3, <3>4 DEF Commit, Marks
    <3> QED BY <3>1, <3>2, <3>5 DEF CarriedIsNew
  <2> QED BY <2>1, <2>3, <2>4 DEF CarriedIsNew
<1>9. ASSUME NEW w \in Writers, RollBack(w) PROVE MarkCovers' /\ CarriedIsNew' /\ mark' >= mark
  BY <1>9, <1>t DEF RollBack, Put, Idle, MarkCovers, CarriedIsNew, Carries
<1>10. ASSUME NEW n \in Numbers, DeleteDraft(n) PROVE MarkCovers' /\ CarriedIsNew' /\ mark' >= mark
  BY <1>10, <1>t DEF DeleteDraft, MarkCovers, CarriedIsNew, Carries
<1> QED BY <1>1, <1>2, <1>3, <1>4, <1>5, <1>6, <1>7, <1>8, <1>9, <1>10 DEF RefNext

\* Once overtaken, always overtaken.
LEMMA OvertakenStays ==
    ASSUME RefTypeOK, [RefNext]_refVars, ~overtaken' PROVE ~overtaken
BY DEF RefNext, refVars, RefTypeOK, Lock, Read, Mark, Insert, Collide, Import, Bump,
       Commit, RollBack, DeleteDraft

\* RefInv holds of every reachable state.
THEOREM ReferencesInvariant == RefSpec => []RefInv
<1>1. ASSUME RefInit PROVE RefInv
  <2>1. RefTypeOK
    BY <1>1, WriterRecords DEF RefInit, RefTypeOK
  <2>2. \A w \in Writers : writer[w].doing = "nothing" /\ writer[w].stage = "idle"
    BY <1>1 DEF RefInit, Idle
  <2>3. OneInScope /\ OneAtRow /\ ImportsRaise /\ CarriedIsNew
    BY <2>2 DEF OneInScope, OneAtRow, ImportsRaise, CarriedIsNew, Carries, HoldsScope, HoldsRow, At
  <2>4. MarkCovers
    BY <1>1 DEF RefInit, MarkCovers
  <2> QED BY <2>1, <2>3, <2>4 DEF RefInv
<1>2. RefInv /\ [RefNext]_refVars => RefInv'
  BY RefTypeStep, ExclusionStep, CoverStep, OvertakenStays DEF RefInv
<1> QED BY <1>1, <1>2, PTL DEF RefSpec

\* The state is typed: transactions carry numbers of the right shape.
THEOREM ReferencesAreTyped == RefSpec => []RefTypeOK
<1>1. RefInv => RefTypeOK
  BY DEF RefInv
<1> QED BY <1>1, ReferencesInvariant, PTL

\* No number is issued twice, with a trigger or without, unless an import
\* overtook the generator; without one, an import above the mark does.
THEOREM NumbersAreNeverReissued == RefSpec => []NeverReissued
<1>1. RefInv => NeverReissued
  <2> SUFFICES ASSUME RefInv, ~overtaken, NEW w \in Writers, At(w, "create", "inserted"),
                      writer[w].number \in issued
               PROVE  FALSE
    BY DEF NeverReissued, NewNumbers
  <2>1. writer[w].number > mark /\ writer[w].number <= mark
    BY DEF RefInv, MarkCovers, CarriedIsNew, Carries, At
  <2>2. writer[w].number \in Int /\ mark \in Int
    BY NumberAssumption DEF RefInv, RefTypeOK, Writer, Numbers
  <2> QED BY <2>1, <2>2
<1> QED BY <1>1, ReferencesInvariant, PTL

\* Nor does the mark fall.
THEOREM TheMarkRises == RefSpec => MarkFallsOnlyIfOvertaken
<1>1. RefInv /\ [RefNext]_refVars => [~overtaken => mark' >= mark]_refVars
  <2> SUFFICES ASSUME RefInv, RefNext, ~overtaken PROVE mark' >= mark
    BY DEF refVars
  <2>1. CASE ~overtaken'
    BY <2>1, CoverStep DEF RefInv
  \* The overtaking import itself raises the mark, or leaves it.
  <2>2. CASE overtaken'
    <3>1. mark \in Int
      BY NumberAssumption DEF RefInv, RefTypeOK, Numbers
    <3>2. ASSUME NEW w \in Writers, Commit(w) PROVE mark' >= mark
      <4>1. Overtakes(w)
        BY <2>2, <3>2 DEF Commit
      <4>2. CASE At(w, "import", "marked")
        BY <3>2, <4>2 DEF Commit, Marks, RefInv, ImportsRaise
      <4>3. CASE Unmarked(w)
        BY <3>1, <3>2, <4>3 DEF Commit, Marks, Unmarked, At
      <4> QED BY <4>1, <4>2, <4>3 DEF Overtakes
    <3> QED BY <2>2, <3>1, <3>2 DEF RefNext, Lock, Read, Mark, Insert, Collide, Import, Bump,
               RollBack, DeleteDraft
  <2> QED BY <2>1, <2>2
<1> QED BY <1>1, ReferencesInvariant, PTL DEF RefSpec, MarkFallsOnlyIfOvertaken

------------------------------------------------------------------------------
(***************************************************************************)
(* Refresh tokens: a token is rotated at most once, and a fence ends the   *)
(* sessions begun before it, however many tokens, callers and fences.      *)
(***************************************************************************)
Busy(c) == call[c].stage \in {"checked", "spent"}

\* One caller holds the spending of a token, which then has no successor yet.
SpendingIsExclusive ==
    /\ \A c \in Callers : Busy(c) => token[call[c].token].minted
    /\ \A c \in Callers : call[c].stage = "spent" =>
          call[c].token \in revoked /\ Successors(call[c].token) = {}
    /\ \A c, d \in Callers :
          /\ call[c].stage = "spent" /\ call[d].stage = "spent"
          /\ call[c].token = call[d].token
          => c = d

\* The clock is past everything it has stamped, and a refresh that no fence
\* has overlapped still holds a usable token.
StampsAreOrdered ==
    /\ fence <= now
    /\ \A t \in Tokens : token[t].minted => 2 * token[t].second <= now
                                            /\ token[t].since <= fences
    /\ \A c \in Callers : Busy(c) =>
          /\ call[c].fences <= fences
          /\ call[c].fences = fences => token[call[c].token].since = fences

TokenInv == TokenTypeOK /\ SpendingIsExclusive /\ RotatedOnce /\ StampsAreOrdered /\ FencesEndSessions

\* Halves of the clock: what is stamped in the second of the fence.
LEMMA Halves ==
    ASSUME NEW n \in Nat, NEW f \in Nat \cup {-1}, f <= n
    PROVE  /\ n \div 2 \in Nat /\ 2 * (n \div 2) <= n
           /\ 2 * (n \div 2) <= f => n \div 2 = f \div 2
OBVIOUS

\* The state stays typed.
LEMMA TokenTypeStep == ASSUME TokenTypeOK, [TokenNext]_tokenVars PROVE TokenTypeOK'
<1> SUFFICES ASSUME TokenNext PROVE TokenTypeOK'
  BY DEF TokenTypeOK, tokenVars
<1>1. ASSUME NEW t \in Tokens, SignIn(t) PROVE TokenTypeOK'
  <2>1. now \div 2 \in Nat
    BY DEF TokenTypeOK
  <2>2. Minted(NoToken, fences) \in Token
    BY <2>1 DEF TokenTypeOK, Minted, Token
  <2> QED BY <1>1, <2>2 DEF TokenTypeOK, SignIn
<1>2. ASSUME NEW t \in Tokens, Refuse(t) PROVE TokenTypeOK'
  BY <1>2 DEF TokenTypeOK, Refuse, Fence
<1>3. ASSUME NEW t \in Tokens, Logout(t) PROVE TokenTypeOK'
  BY <1>3 DEF TokenTypeOK, Logout
<1>4. ASSUME NEW c \in Callers, NEW t \in Tokens, Check(c, t) PROVE TokenTypeOK'
  <2>1. [stage |-> "checked", token |-> t, fences |-> fences] \in Call
    BY DEF TokenTypeOK, Call
  <2> QED BY <1>4, <2>1 DEF TokenTypeOK, Check
<1>5. ASSUME NEW c \in Callers, NEW n \in Tokens, Mint(c, n) PROVE TokenTypeOK'
  <2>1. call[c].token \in Tokens
    BY <1>5 DEF TokenTypeOK, Mint, Call
  <2>2. now \div 2 \in Nat
    BY DEF TokenTypeOK
  <2>3. token[call[c].token].since \in Nat /\ fences \in Nat
    BY <2>1 DEF TokenTypeOK, Token
  <2>4. \A s \in Nat : Minted(call[c].token, s) \in Token
    BY <2>1, <2>2 DEF Minted, Token
  <2>5. NoCall \in Call
    BY DEF NoCall, Call
  <2> QED BY <1>5, <2>3, <2>4, <2>5 DEF TokenTypeOK, Mint
<1>6. ASSUME NEW c \in Callers, Spend(c) PROVE TokenTypeOK'
  <2>1. Spent(c) \in Call /\ NoCall \in Call /\ call[c].token \in Tokens
    BY <1>6 DEF TokenTypeOK, Spend, Spent, NoCall, Call
  <2> QED BY <1>6, <2>1 DEF TokenTypeOK, Spend, Fence
<1>7. ASSUME NEW c \in Callers, Abandon(c) PROVE TokenTypeOK'
  BY <1>7 DEF TokenTypeOK, Abandon, NoCall, Call
<1>8. CASE ResetPassword
  BY <1>8 DEF TokenTypeOK, ResetPassword, Fence
<1>9. CASE Tick
  BY <1>9 DEF TokenTypeOK, Tick
<1> QED BY <1>1, <1>2, <1>3, <1>4, <1>5, <1>6, <1>7, <1>8, <1>9 DEF TokenNext

\* A refresh in progress holds a minted token.
LEMMA BusyHolds ==
    ASSUME TokenTypeOK, NEW c \in Callers, Busy(c) PROVE call[c].token \in Tokens
BY DEF TokenTypeOK, Busy, Call

\* One presenter of a token gets past the spending, and mints one successor.
LEMMA RotationStep ==
    ASSUME TokenTypeOK, SpendingIsExclusive, RotatedOnce, [TokenNext]_tokenVars
    PROVE  SpendingIsExclusive' /\ RotatedOnce'
<1> SUFFICES ASSUME TokenNext PROVE SpendingIsExclusive' /\ RotatedOnce'
  BY DEF SpendingIsExclusive, RotatedOnce, Busy, Successors, tokenVars
<1>t. token \in [Tokens -> Token] /\ call \in [Callers -> Call] /\ revoked \subseteq Tokens
  BY DEF TokenTypeOK
<1>b. \A c \in Callers : Busy(c) => call[c].token \in Tokens
  BY BusyHolds
<1>1. ASSUME NEW t \in Tokens, SignIn(t) PROVE SpendingIsExclusive' /\ RotatedOnce'
  <2>1. \A u \in Tokens : Successors(u)' = Successors(u)
    BY <1>1, <1>t, TokenAssumption DEF SignIn, Minted, Successors
  <2>2. \A u \in Tokens : token[u].minted => token'[u].minted
    BY <1>1, <1>t DEF SignIn
  <2>3. call' = call /\ revoked' = revoked
    BY <1>1 DEF SignIn
  <2> QED BY <1>b, <2>1, <2>2, <2>3 DEF SpendingIsExclusive, RotatedOnce, Busy
<1>2. ASSUME NEW t \in Tokens, Refuse(t) PROVE SpendingIsExclusive' /\ RotatedOnce'
  BY <1>2 DEF Refuse, SpendingIsExclusive, RotatedOnce, Busy, Successors
<1>3. ASSUME NEW t \in Tokens, Logout(t) PROVE SpendingIsExclusive' /\ RotatedOnce'
  BY <1>3 DEF Logout, SpendingIsExclusive, RotatedOnce, Busy, Successors
<1>4. ASSUME NEW c \in Callers, NEW t \in Tokens, Check(c, t)
      PROVE  SpendingIsExclusive' /\ RotatedOnce'
  BY <1>4, <1>t DEF Check, SpendingIsExclusive, RotatedOnce, Busy, Successors
<1>5. ASSUME NEW c \in Callers, NEW n \in Tokens, Mint(c, n)
      PROVE  SpendingIsExclusive' /\ RotatedOnce'
  <2>0. PICK t \in Tokens : t = call[c].token
    BY <1>5, <1>b DEF Mint, Busy
  <2>1. t \in revoked /\ Successors(t) = {}
    BY <1>5, <2>0 DEF Mint, SpendingIsExclusive
  <2>2. Successors(t)' = {n}
    <3>1. token'[n].minted /\ token'[n].parent = t
      BY <1>5, <1>t, <2>0 DEF Mint, Minted
    <3>2. \A m \in Tokens : m # n => token'[m] = token[m]
      BY <1>5, <1>t DEF Mint
    <3> QED BY <2>1, <3>1, <3>2 DEF Successors
  <2>3. \A u \in Tokens : u # t => Successors(u)' = Successors(u)
    <3>1. ~token[n].minted /\ token'[n].minted /\ token'[n].parent = t
      BY <1>5, <1>t, <2>0 DEF Mint, Minted
    <3>2. \A m \in Tokens : m # n => token'[m] = token[m]
      BY <1>5, <1>t DEF Mint
    <3> QED BY <3>1, <3>2 DEF Successors
  <2>4. revoked' = revoked /\ (\A u \in Tokens : token[u].minted => token'[u].minted)
    BY <1>5, <1>t DEF Mint, Minted
  <2>5. RotatedOnce'
    BY <2>1, <2>2, <2>3, <2>4 DEF RotatedOnce
  <2>6. \A d \in Callers : d # c => call'[d] = call[d]
    BY <1>5, <1>t DEF Mint
  <2>7. call'[c].stage = "idle"
    BY <1>5, <1>t DEF Mint, NoCall
  <2>8. \A d \in Callers : d # c /\ call[d].stage = "spent" => call[d].token # t
    BY <1>5, <2>0 DEF Mint, SpendingIsExclusive
  <2>9. SpendingIsExclusive'
    <3>1. \A d \in Callers : Busy(d)' => d # c /\ Busy(d) /\ call'[d] = call[d]
      BY <2>6, <2>7 DEF Busy
    <3>2. \A d \in Callers : call'[d].stage = "spent" => d # c /\ call'[d] = call[d]
      BY <2>6, <2>7
    <3>3. \A d \in Callers : Busy(d)' => token'[call'[d].token].minted
      <4> SUFFICES ASSUME NEW d \in Callers, Busy(d)' PROVE token'[call'[d].token].minted
        OBVIOUS
      <4>1. Busy(d) /\ call'[d] = call[d] /\ token[call[d].token].minted
        BY <3>1 DEF SpendingIsExclusive
      <4>2. call[d].token \in Tokens
        BY <1>b, <4>1
      <4> QED BY <2>4, <4>1, <4>2
    <3>4. ASSUME NEW d \in Callers, call'[d].stage = "spent"
          PROVE  call'[d].token \in revoked' /\ Successors(call[d].token)' = {}
      <4> PICK u : u = call[d].token
        OBVIOUS
      <4>1. call[d].stage = "spent" /\ call'[d] = call[d] /\ u # t
        BY <3>2, <3>4, <2>8
      <4>2. u \in Tokens /\ u \in revoked /\ Successors(u) = {}
        BY <1>b, <4>1 DEF SpendingIsExclusive, Busy
      <4>3. Successors(u)' = {}
        BY <2>3, <4>1, <4>2
      <4> QED BY <2>4, <4>1, <4>2, <4>3 DEF Successors
    <3>5. ASSUME NEW d \in Callers, NEW e \in Callers,
                 call'[d].stage = "spent", call'[e].stage = "spent",
                 call'[d].token = call'[e].token
          PROVE  d = e
      <4>1. call'[d] = call[d] /\ call'[e] = call[e]
        BY <3>2, <3>5
      <4> QED BY <3>5, <4>1 DEF SpendingIsExclusive
    <3> QED BY <3>3, <3>4, <3>5 DEF SpendingIsExclusive
  <2> QED BY <2>5, <2>9
<1>6. ASSUME NEW c \in Callers, Spend(c) PROVE SpendingIsExclusive' /\ RotatedOnce'
  <2>1. \A u \in Tokens : Successors(u)' = Successors(u)
    BY <1>6 DEF Spend, Successors
  <2>2. token' = token /\ revoked \subseteq revoked'
    BY <1>6 DEF Spend
  <2>3. \A d \in Callers : d # c => call'[d] = call[d]
    BY <1>6, <1>t DEF Spend
  <2>4. call[c].token \in Tokens /\ token[call[c].token].minted
    BY <1>6, <1>b DEF Spend, Busy, SpendingIsExclusive
  <2>5. RotatedOnce'
    BY <2>1, <2>2 DEF RotatedOnce
  <2>6. CASE call'[c].stage = "spent"
    <3>1. call[c].token \notin revoked /\ revoked' = revoked \cup {call[c].token}
          /\ call'[c] = Spent(c)
      BY <1>6, <1>t, <2>6 DEF Spend, NoCall
    <3>2. call'[c].token = call[c].token
      BY <3>1 DEF Spent
    <3>3. Successors(call[c].token) = {}
      BY <2>4, <3>1 DEF RotatedOnce
    <3>4. \A d \in Callers : d # c /\ call[d].stage = "spent" => call[d].token # call[c].token
      BY <3>1 DEF SpendingIsExclusive
    <3> QED BY <1>b, <2>1, <2>2, <2>3, <2>4, <2>5, <2>6, <3>1, <3>2, <3>3, <3>4
            DEF SpendingIsExclusive, Busy
  <2>7. CASE call'[c].stage = "idle"
    BY <1>b, <2>1, <2>2, <2>3, <2>5, <2>7 DEF SpendingIsExclusive, Busy
  <2>8. call'[c].stage \in {"spent", "idle"}
    BY <1>6, <1>t DEF Spend, Spent, NoCall
  <2> QED BY <2>6, <2>7, <2>8
<1>7. ASSUME NEW c \in Callers, Abandon(c) PROVE SpendingIsExclusive' /\ RotatedOnce'
  <2>1. \A u \in Tokens : Successors(u)' = Successors(u)
    BY <1>7 DEF Abandon, Successors
  <2>2. token' = token /\ revoked' = revoked
    BY <1>7 DEF Abandon
  <2>3. /\ \A d \in Callers : d # c => call'[d] = call[d]
        /\ call'[c].stage = "idle"
    BY <1>7, <1>t DEF Abandon, NoCall
  <2> QED BY <1>b, <2>1, <2>2, <2>3 DEF SpendingIsExclusive, RotatedOnce, Busy
<1>8. CASE ResetPassword
  BY <1>8 DEF ResetPassword, SpendingIsExclusive, RotatedOnce, Busy, Successors
<1>9. CASE Tick
  BY <1>9 DEF Tick, SpendingIsExclusive, RotatedOnce, Busy, Successors
<1> QED BY <1>1, <1>2, <1>3, <1>4, <1>5, <1>6, <1>7, <1>8, <1>9 DEF TokenNext

\* What a sign-in or a rotation mints belongs to the fences set so far.
LEMMA MintedNow ==
    ASSUME TokenTypeOK, fence <= now, NEW n \in Tokens, NEW s \in Tokens \cup {NoToken},
           token' = [token EXCEPT ![n] = Minted(s, fences)],
           StampsAreOrdered, FencesEndSessions, UNCHANGED <<now, fence, fences>>
    PROVE  /\ FencesEndSessions'
           /\ \A t \in Tokens : token'[t].minted => 2 * token'[t].second <= now'
                                                    /\ token'[t].since <= fences'
<1>t. token \in [Tokens -> Token] /\ now \in Nat /\ fence \in Nat \cup {-1} /\ fences \in Nat
  BY DEF TokenTypeOK
<1>1. /\ now \div 2 \in Nat /\ 2 * (now \div 2) <= now
      /\ 2 * (now \div 2) <= fence => now \div 2 = fence \div 2
  BY <1>t, Halves
<1>2. token'[n].second = now \div 2 /\ token'[n].since = fences
  BY <1>t DEF Minted
<1>3. \A t \in Tokens : t # n => token'[t] = token[t]
  BY <1>t
<1>4. FencesEndSessions'
  <2>1. (Usable(n)' => token'[n].since = fences')
        /\ (token'[n].since = fences' => Usable(n)' \/ token'[n].second = fence' \div 2)
    <3>1. token'[n].minted
      BY <1>t DEF Minted
    <3>2. 2 * (now \div 2) > fence \/ 2 * (now \div 2) <= fence
      BY <1>t, <1>1
    <3> QED BY <1>1, <1>2, <3>1, <3>2 DEF Usable
  <2>2. ASSUME NEW t \in Tokens, t # n, token'[t].minted
        PROVE  (Usable(t)' => token'[t].since = fences')
               /\ (token'[t].since = fences' => Usable(t)' \/ token'[t].second = fence' \div 2)
    BY <1>3, <2>2 DEF FencesEndSessions, Usable
  <2> QED BY <2>1, <2>2 DEF FencesEndSessions
<1>5. ASSUME NEW t \in Tokens, token'[t].minted
      PROVE  2 * token'[t].second <= now' /\ token'[t].since <= fences'
  <2>1. CASE t = n
    BY <1>1, <1>2, <1>t, <2>1
  <2>2. CASE t # n
    BY <1>3, <1>5, <2>2 DEF StampsAreOrdered
  <2> QED BY <2>1, <2>2
<1> QED BY <1>4, <1>5

\* A fence leaves no minted token usable, and every session behind it.
LEMMA FencedNow ==
    ASSUME TokenTypeOK, StampsAreOrdered, Fence, UNCHANGED <<now, token>>
    PROVE  /\ FencesEndSessions'
           /\ fence' <= now'
           /\ \A t \in Tokens : token'[t].minted => 2 * token'[t].second <= now'
                                                    /\ token'[t].since <= fences'
           /\ fences' > fences
<1>1. now \in Nat /\ fences \in Nat /\ fence' = now /\ fences' = fences + 1
  BY DEF TokenTypeOK, Fence
<1>2. \A t \in Tokens : token[t].second \in Nat /\ token[t].since \in Nat
  BY DEF TokenTypeOK, Token
<1>3. \A t \in Tokens : token[t].minted => 2 * token[t].second <= fence'
                                           /\ token[t].since < fences'
  BY <1>1, <1>2 DEF StampsAreOrdered
<1>4. ASSUME NEW t \in Tokens, token'[t].minted
      PROVE  ~Usable(t)' /\ token'[t].since # fences'
  <2>1. 2 * token[t].second <= fence' /\ token[t].since < fences'
    BY <1>3, <1>4
  <2> QED BY <1>1, <1>2, <2>1 DEF Usable
<1>5. FencesEndSessions'
  BY <1>4 DEF FencesEndSessions
<1> QED BY <1>1, <1>2, <1>3, <1>5

\* Fences, stamps and the checks of a refresh stay in order.
LEMMA FenceStep ==
    ASSUME TokenTypeOK, SpendingIsExclusive, StampsAreOrdered, FencesEndSessions,
           [TokenNext]_tokenVars
    PROVE  StampsAreOrdered' /\ FencesEndSessions'
<1> SUFFICES ASSUME TokenNext PROVE StampsAreOrdered' /\ FencesEndSessions'
  BY DEF StampsAreOrdered, FencesEndSessions, Usable, Busy, tokenVars
<1>t. token \in [Tokens -> Token] /\ call \in [Callers -> Call] /\ now \in Nat
      /\ fence \in Nat \cup {-1} /\ fences \in Nat
  BY DEF TokenTypeOK
<1>b. \A c \in Callers : Busy(c) => call[c].token \in Tokens /\ token[call[c].token].minted
  BY BusyHolds DEF SpendingIsExclusive
<1>f. \A c \in Callers : call[c].fences \in Nat
  BY <1>t DEF Call
\* A refresh in progress across a fence is no longer up to date.
<1>0. ASSUME Fence, UNCHANGED <<now, token>>,
             \A d \in Callers : Busy(d)' => call'[d] = call[d]
      PROVE  StampsAreOrdered' /\ FencesEndSessions'
  <2>1. ASSUME NEW d \in Callers, Busy(d)'
        PROVE  call'[d].fences <= fences' /\ call'[d].fences # fences'
    <3>1. call'[d] = call[d] /\ Busy(d)
      BY <1>0, <2>1 DEF Busy
    <3>2. call[d].fences <= fences /\ fences' = fences + 1
      BY <1>0, <3>1 DEF StampsAreOrdered, Fence
    <3> QED BY <1>t, <1>f, <3>1, <3>2
  <2> QED BY <1>0, <2>1, FencedNow DEF StampsAreOrdered
<1>1. ASSUME NEW t \in Tokens, SignIn(t) PROVE StampsAreOrdered' /\ FencesEndSessions'
  <2>1. \A c \in Callers : Busy(c) => token'[call[c].token] = token[call[c].token]
    BY <1>1, <1>t, <1>b DEF SignIn
  <2>2. UNCHANGED <<now, fence, fences, call>>
        /\ token' = [token EXCEPT ![t] = Minted(NoToken, fences)]
    BY <1>1 DEF SignIn
  <2>3. fence <= now
    BY DEF StampsAreOrdered
  <2> QED BY <2>1, <2>2, <2>3, MintedNow DEF StampsAreOrdered, Busy
<1>2. ASSUME NEW t \in Tokens, Refuse(t) PROVE StampsAreOrdered' /\ FencesEndSessions'
  BY <1>2, <1>0 DEF Refuse
<1>3. ASSUME NEW t \in Tokens, Logout(t) PROVE StampsAreOrdered' /\ FencesEndSessions'
  BY <1>3 DEF Logout, StampsAreOrdered, FencesEndSessions, Usable, Busy
<1>4. ASSUME NEW c \in Callers, NEW t \in Tokens, Check(c, t)
      PROVE  StampsAreOrdered' /\ FencesEndSessions'
  <2>1. token[t].minted /\ 2 * token[t].second > fence
    BY <1>4, <1>t DEF Check, Fenced, Token
  <2>2. token[t].since = fences
    BY <2>1 DEF FencesEndSessions, Usable
  <2>3. call'[c].token = t /\ call'[c].fences = fences
    BY <1>4, <1>t DEF Check
  <2>4. \A d \in Callers : d # c => call'[d] = call[d]
    BY <1>4, <1>t DEF Check
  <2>5. UNCHANGED <<now, token, fence, fences>>
    BY <1>4 DEF Check
  <2>6. StampsAreOrdered'
    BY <1>t, <2>2, <2>3, <2>4, <2>5 DEF StampsAreOrdered, Busy
  <2>7. FencesEndSessions'
    BY <2>5 DEF FencesEndSessions, Usable
  <2> QED BY <2>6, <2>7
<1>5. ASSUME NEW c \in Callers, NEW n \in Tokens, Mint(c, n)
      PROVE  StampsAreOrdered' /\ FencesEndSessions'
  <2>1. call[c].token \in Tokens /\ Busy(c)
    BY <1>5, <1>b DEF Mint, Busy
  <2>2. token' = [token EXCEPT ![n] = Minted(call[c].token, fences)]
    <3>1. call[c].fences = fences => token[call[c].token].since = fences
      BY <2>1 DEF StampsAreOrdered
    <3> QED BY <1>5, <3>1 DEF Mint
  <2>3. UNCHANGED <<now, fence, fences>> /\ ~token[n].minted
    BY <1>5 DEF Mint
  <2>4. \A d \in Callers : Busy(d)' => call'[d] = call[d] /\ Busy(d)
    BY <1>5, <1>t DEF Mint, Busy, NoCall
  <2>5. \A d \in Callers : Busy(d) => token'[call[d].token] = token[call[d].token]
    BY <1>b, <1>t, <2>2, <2>3
  <2>6. fence <= now
    BY DEF StampsAreOrdered
  <2>7. FencesEndSessions' /\ \A t \in Tokens : token'[t].minted =>
           2 * token'[t].second <= now' /\ token'[t].since <= fences'
    BY <2>1, <2>2, <2>3, <2>6, MintedNow
  <2> QED BY <2>3, <2>4, <2>5, <2>6, <2>7 DEF StampsAreOrdered
<1>6. ASSUME NEW c \in Callers, Spend(c) PROVE StampsAreOrdered' /\ FencesEndSessions'
  <2>1. CASE call[c].token \in revoked
    <3>1. Fence /\ UNCHANGED <<now, token>> /\ call' = [call EXCEPT ![c] = NoCall]
      BY <1>6, <2>1 DEF Spend
    <3>2. \A d \in Callers : Busy(d)' => call'[d] = call[d]
      BY <3>1, <1>t DEF Busy, NoCall
    <3> QED BY <1>0, <3>1, <3>2
  <2>2. CASE call[c].token \notin revoked
    <3>1. UNCHANGED <<now, token, fence, fences>> /\ call' = [call EXCEPT ![c] = Spent(c)]
          /\ Busy(c)
      BY <1>6, <2>2 DEF Spend, Busy
    <3>2. call'[c].token = call[c].token /\ call'[c].fences = call[c].fences
      BY <3>1, <1>t DEF Spent
    <3>3. \A d \in Callers : d # c => call'[d] = call[d]
      BY <3>1, <1>t
    <3>4. StampsAreOrdered'
      BY <3>1, <3>2, <3>3 DEF StampsAreOrdered, Busy
    <3> QED BY <3>1, <3>4 DEF FencesEndSessions, Usable
  <2> QED BY <2>1, <2>2
<1>7. ASSUME NEW c \in Callers, Abandon(c) PROVE StampsAreOrdered' /\ FencesEndSessions'
  <2>1. \A d \in Callers : Busy(d)' => call'[d] = call[d] /\ Busy(d)
    BY <1>7, <1>t DEF Abandon, Busy, NoCall
  <2>2. UNCHANGED <<now, token, fence, fences>>
    BY <1>7 DEF Abandon
  <2> QED BY <2>1, <2>2 DEF StampsAreOrdered, FencesEndSessions, Usable
<1>8. CASE ResetPassword
  BY <1>8, <1>0 DEF ResetPassword
<1>9. CASE Tick
  <2>1. now' = now + 1 /\ UNCHANGED <<token, fence, fences, call>>
    BY <1>9 DEF Tick
  <2>2. \A t \in Tokens : token[t].second \in Nat
    BY <1>t DEF Token
  <2>3. StampsAreOrdered'
    BY <1>t, <2>1, <2>2 DEF StampsAreOrdered, Busy
  <2> QED BY <2>1, <2>3 DEF FencesEndSessions, Usable
<1> QED BY <1>1, <1>2, <1>3, <1>4, <1>5, <1>6, <1>7, <1>8, <1>9 DEF TokenNext

\* TokenInv holds of every reachable state.
THEOREM TokensInvariant == TokenSpec => []TokenInv
<1>1. ASSUME TokenInit PROVE TokenInv
  <2>1. TokenTypeOK
    BY <1>1 DEF TokenInit, TokenTypeOK, Unminted, Token, NoCall, Call
  <2>2. \A t \in Tokens : ~token[t].minted
    BY <1>1 DEF TokenInit, Unminted
  <2>3. \A c \in Callers : call[c].stage = "idle"
    BY <1>1 DEF TokenInit, NoCall
  <2>4. fence <= now
    BY <1>1 DEF TokenInit
  <2> QED BY <2>1, <2>2, <2>3, <2>4 DEF TokenInv, SpendingIsExclusive, RotatedOnce,
             StampsAreOrdered, FencesEndSessions, Busy, Successors
<1>2. TokenInv /\ [TokenNext]_tokenVars => TokenInv'
  BY TokenTypeStep, RotationStep, FenceStep DEF TokenInv
<1> QED BY <1>1, <1>2, PTL DEF TokenSpec

\* A refresh token has one successor, however many requests present it.
THEOREM TokensRotateOnce == TokenSpec => []RotatedOnce
<1>1. TokenInv => RotatedOnce
  BY DEF TokenInv
<1> QED BY <1>1, TokensInvariant, PTL

\* A fence ends the sessions begun before it and no others.
THEOREM FencesEndTheirSessions == TokenSpec => []FencesEndSessions
<1>1. TokenInv => FencesEndSessions
  BY DEF TokenInv
<1> QED BY <1>1, TokensInvariant, PTL

(***************************************************************************)
(* Parties: what a request remembers of a customer or a vendor while it    *)
(* waits for the lock, and what the version column says about it.          *)
(***************************************************************************)
\* What the tables and the requests hold.
PartyRow == [status : {"none", "gone", "active", "inactive", "deleted"},
             currency : Currencies \cup {"none"}, version : Nat]

Anybody == Clients \cup Suppliers

CallRow == [step : {"idle", "read", "locked", "edited", "move", "drafting", "inserted"},
            of : Anybody \cup {"none"}, seen : PartyRow, expected : Nat,
            paper : Papers \cup {"none"}]

PaperRow == [of : Anybody \cup {"none"}, currency : Currencies \cup {"none"}, open : BOOLEAN]

PartyTypeOK ==
    /\ party \in [Anybody -> PartyRow]
    /\ paper \in [Papers -> PaperRow]
    /\ asked \in [Clerks -> CallRow]

\* A request that holds the lock of the row it read.
Holds(c) == c.step \in {"locked", "edited"}

\* A row that is in the table.
Stands(row) == row \notin {P!NoRow, P!Gone}

\* What a request read, against the row as it is: a version says which currency.
ReadFits(c, row) ==
    /\ c.expected <= c.seen.version
    /\ Stands(row) => /\ c.seen.version <= row.version
                      /\ c.seen.version = row.version => c.seen.currency = row.currency

\* What a request knows of its row, by how far it is: with the lock, it is up to date.
RowFits(c, row) ==
    /\ row # P!NoRow
    /\ c.step = "read" => ReadFits(c, row)
    /\ Holds(c) => Stands(row) /\ c.seen.version = row.version
    /\ c.step = "locked" => c.seen.currency = row.currency

\* An edit of a customer's currency was let through because it had no document.
CallFits(c) ==
    c.step # "idle" =>
        /\ c.of \in Anybody
        /\ RowFits(c, party[c.of])
        /\ c.step = "edited" /\ c.of \in Clients /\ c.seen.currency # party[c.of].currency =>
              P!PapersOf(c.of) = {}

\* Two requests on one row: a holder of it excludes holders and inserted documents.
Compatible(a, b) == a.of = b.of /\ Holds(a) => ~Holds(b) /\ b.step # "inserted"

PartyInv ==
    /\ PartyTypeOK
    /\ \A k \in Clerks : CallFits(asked[k])
    /\ \A j, k \in Clerks : j # k => Compatible(asked[j], asked[k])

\* The special rows, and a clerk who does nothing.
LEMMA RowsAre ==
    /\ P!NoRow \in PartyRow /\ P!Gone \in PartyRow /\ P!NoRow # P!Gone
    /\ P!NoRow.version = 0 /\ P!Gone.version = 0
    /\ P!NoRow.status = "none" /\ P!Gone.status = "gone"
    /\ P!Idle \in CallRow /\ P!Idle.step = "idle"
BY DEF P!NoRow, P!Gone, P!Row, PartyRow, P!Idle, P!Call, CallRow

\* A request moves on, the tables stay.
LEMMA CallMoves ==
    ASSUME PartyInv, NEW k \in Clerks, NEW c \in CallRow,
           asked' = [asked EXCEPT ![k] = c], UNCHANGED <<party, paper>>,
           CallFits(c),
           \A j \in Clerks \ {k} : Compatible(asked[j], c) /\ Compatible(c, asked[j])
    PROVE  PartyInv'
<1>1. asked' \in [Clerks -> CallRow] /\ asked'[k] = c
         /\ \A j \in Clerks \ {k} : asked'[j] = asked[j]
  BY DEF PartyInv, PartyTypeOK
<1>2. PartyTypeOK'
  BY <1>1 DEF PartyInv, PartyTypeOK
<1>3. ASSUME NEW j \in Clerks PROVE CallFits(asked[j])'
  <2>1. CASE j = k
    BY <1>1, <2>1 DEF CallFits, P!PapersOf
  <2>2. CASE j # k
    BY <1>1, <2>2 DEF PartyInv, CallFits, P!PapersOf
  <2> QED
    BY <2>1, <2>2
<1>4. ASSUME NEW i \in Clerks, NEW j \in Clerks, i # j
      PROVE  Compatible(asked[i], asked[j])'
  BY <1>1, <1>4 DEF PartyInv, Compatible
<1> QED
  BY <1>2, <1>3, <1>4 DEF PartyInv

\* A row changes, and the request that changed it ends.
LEMMA RowMoves ==
    ASSUME PartyInv, NEW p \in Anybody, NEW row \in PartyRow,
           party' = [party EXCEPT ![p] = row], paper' = paper,
           asked' \in [Clerks -> CallRow],
           \A j \in Clerks : asked'[j] = asked[j] \/ asked'[j] = P!Idle,
           \A j \in Clerks :
               asked[j].step # "idle" /\ asked[j].of = p /\ asked'[j] = asked[j] =>
                   ~Holds(asked[j]) /\ RowFits(asked[j], row)
    PROVE  PartyInv'
<1>1. party' \in [Anybody -> PartyRow] /\ party'[p] = row
         /\ \A q \in Anybody \ {p} : party'[q] = party[q]
  BY DEF PartyInv, PartyTypeOK
<1>2. PartyTypeOK'
  BY <1>1 DEF PartyInv, PartyTypeOK
<1>3. ASSUME NEW j \in Clerks PROVE CallFits(asked[j])'
  <2>1. CASE asked'[j] = P!Idle
    BY <2>1, RowsAre DEF CallFits
  <2>2. CASE asked'[j] = asked[j] /\ asked[j].of = p
    BY <1>1, <2>2 DEF PartyInv, CallFits, Holds, P!PapersOf
  <2>3. CASE asked'[j] = asked[j] /\ asked[j].of # p
    BY <1>1, <2>3 DEF PartyInv, CallFits, P!PapersOf
  <2> QED
    BY <2>1, <2>2, <2>3
<1>4. ASSUME NEW i \in Clerks, NEW j \in Clerks, i # j
      PROVE  Compatible(asked[i], asked[j])'
  <2>1. Compatible(asked[i], asked[j])
    BY <1>4 DEF PartyInv
  <2>2. asked'[i] = asked[i] \/ ~Holds(asked'[i])
    BY RowsAre DEF Holds
  <2>3. asked'[j] = asked[j] \/ (~Holds(asked'[j]) /\ asked'[j].step # "inserted")
    BY RowsAre DEF Holds
  <2> QED
    BY <2>1, <2>2, <2>3 DEF Compatible
<1> QED
  BY <1>2, <1>3, <1>4 DEF PartyInv

\* A document changes; none is added to a row that is held.
LEMMA PaperMoves ==
    ASSUME PartyInv, paper' \in [Papers -> PaperRow], party' = party,
           asked' \in [Clerks -> CallRow],
           \A j \in Clerks : asked'[j] = asked[j] \/ asked'[j] = P!Idle,
           \A j \in Clerks, d \in Papers :
               Holds(asked[j]) /\ paper'[d].of = asked[j].of /\ asked[j].of \in Anybody =>
                  paper[d].of = asked[j].of
    PROVE  PartyInv'
<1>1. PartyTypeOK'
  BY DEF PartyInv, PartyTypeOK
<1>2. ASSUME NEW j \in Clerks PROVE CallFits(asked[j])'
  <2>1. CASE asked'[j] = P!Idle
    BY <2>1, RowsAre DEF CallFits
  <2>2. CASE asked'[j] = asked[j]
    <3>1. asked[j].step = "edited" /\ asked[j].of \in Clients /\ P!PapersOf(asked[j].of) = {}
            => P!PapersOf(asked[j].of)' = {}
      BY <2>2 DEF Holds, P!PapersOf, Anybody
    <3> QED
      BY <2>2, <3>1 DEF PartyInv, CallFits
  <2> QED
    BY <2>1, <2>2
<1>3. ASSUME NEW i \in Clerks, NEW j \in Clerks, i # j
      PROVE  Compatible(asked[i], asked[j])'
  <2>1. Compatible(asked[i], asked[j])
    BY <1>3 DEF PartyInv
  <2>2. asked'[i] = asked[i] \/ ~Holds(asked'[i])
    BY RowsAre DEF Holds
  <2>3. asked'[j] = asked[j] \/ (~Holds(asked'[j]) /\ asked'[j].step # "inserted")
    BY RowsAre DEF Holds
  <2> QED
    BY <2>1, <2>2, <2>3 DEF Compatible
<1> QED
  BY <1>1, <1>2, <1>3 DEF PartyInv

\* A request that just read its row: it holds nothing.
LEMMA FreshCall ==
    ASSUME PartyInv, NEW k \in Clerks, NEW p \in Anybody, P!Exists(p),
           NEW step \in {"read", "move", "drafting"}, NEW expected \in Nat,
           expected <= party[p].version, NEW d \in Papers \cup {"none"},
           asked' = [asked EXCEPT ![k] = P!Call(step, p, party[p], expected, d)],
           UNCHANGED <<party, paper>>
    PROVE  PartyInv'
<1> PICK c : c = P!Call(step, p, party[p], expected, d)
  OBVIOUS
<1>1. party[p] \in PartyRow /\ Stands(party[p]) /\ party[p] # P!NoRow
  BY DEF PartyInv, PartyTypeOK, P!Exists, Stands
<1>2. /\ c.step = step /\ c.of = p /\ c.seen = party[p] /\ c.expected = expected
      /\ ~Holds(c) /\ c.step # "inserted" /\ c.step # "locked" /\ c.step # "edited"
  BY DEF P!Call, Holds
<1>3. c \in CallRow
  BY <1>1 DEF P!Call, CallRow
<1>4. RowFits(c, party[p])
  <2>1. party[p].version \in Nat
    BY <1>1 DEF PartyRow
  <2> QED
    BY <1>1, <1>2, <2>1 DEF RowFits, ReadFits
<1>5. CallFits(c)
  BY <1>2, <1>4 DEF CallFits
<1>6. \A j \in Clerks \ {k} : Compatible(asked[j], c) /\ Compatible(c, asked[j])
  BY <1>2 DEF Compatible
<1> QED
  BY <1>3, <1>5, <1>6, CallMoves

\* A request gives up or is done.
LEMMA CallEnds ==
    ASSUME PartyInv, NEW k \in Clerks, P!Done(k), UNCHANGED <<party, paper>>
    PROVE  PartyInv'
<1>1. P!Idle \in CallRow /\ ~Holds(P!Idle) /\ P!Idle.step = "idle"
  BY RowsAre DEF Holds
<1>2. CallFits(P!Idle)
  BY <1>1 DEF CallFits
<1>3. \A j \in Clerks \ {k} : Compatible(asked[j], P!Idle) /\ Compatible(P!Idle, asked[j])
  BY <1>1 DEF Compatible
<1> QED
  BY <1>1, <1>2, <1>3, CallMoves DEF P!Done

\* The row is nobody else's when it is locked.
LEMMA NobodyElse ==
    ASSUME NEW p, ~P!Locked(p), ~P!Shared(p), NEW j \in Clerks, asked[j].of = p
    PROVE  ~Holds(asked[j]) /\ asked[j].step # "inserted"
BY DEF P!Locked, P!Shared, Holds

\* A request takes the lock and checks its version.
LEMMA LockKeeps ==
    ASSUME PartyInv, NEW k \in Clerks, P!Lock(k) PROVE PartyInv'
<1> PICK p, old : old = asked[k] /\ p = old.of
  OBVIOUS
<1>1. old \in CallRow /\ old.step = "read" /\ ~P!Locked(p) /\ ~P!Shared(p)
         /\ UNCHANGED <<party, paper>>
  BY DEF P!Lock, P!At, PartyInv, PartyTypeOK
<1>2. CASE P!Done(k)
  BY <1>1, <1>2, CallEnds
<1>3. CASE P!Exists(p) /\ party[p].version = old.expected /\ P!Proceed(k, "locked")
  <2> PICK c : c = [old EXCEPT !.step = "locked"]
    OBVIOUS
  <2>1. /\ c \in CallRow /\ c.step = "locked" /\ c.of = p /\ c.seen = old.seen
        /\ asked' = [asked EXCEPT ![k] = c]
    <3>1. asked' = [asked EXCEPT ![k] = c]
      BY <1>3 DEF P!Proceed
    <3> QED
      BY <1>1, <3>1 DEF CallRow
  <2>2. p \in Anybody /\ ReadFits(old, party[p]) /\ party[p] # P!NoRow
    BY <1>1 DEF PartyInv, CallFits, RowFits
  <2>3. Stands(party[p])
    BY <1>3 DEF P!Exists, Stands
  <2>4. old.seen.version = party[p].version /\ old.seen.currency = party[p].currency
    <3>1. old.seen.version \in Nat /\ party[p].version \in Nat
      BY <1>1, <2>2 DEF CallRow, PartyRow, PartyInv, PartyTypeOK
    <3> QED
      BY <1>3, <2>2, <2>3, <3>1 DEF ReadFits
  <2>5. CallFits(c)
    BY <2>1, <2>2, <2>3, <2>4 DEF CallFits, RowFits
  <2>6. \A j \in Clerks \ {k} : Compatible(asked[j], c) /\ Compatible(c, asked[j])
    BY <1>1, <2>1, NobodyElse DEF Compatible
  <2> QED
    BY <1>1, <2>1, <2>5, <2>6, CallMoves
<1> QED
  BY <1>2, <1>3 DEF P!Lock

\* A request decides on the currency it will write.
LEMMA EditKeeps ==
    ASSUME PartyInv, NEW k \in Clerks, NEW currency \in Currencies, P!Edit(k, currency)
    PROVE  PartyInv'
<1> PICK p, old, seen : /\ old = asked[k] /\ p = old.of
                        /\ seen = [old.seen EXCEPT !.currency = currency]
  OBVIOUS
<1> PICK c : c = [old EXCEPT !.step = "edited", !.seen = seen]
  OBVIOUS
<1>1. /\ old \in CallRow /\ old.step = "locked" /\ ~P!Frozen(k, currency)
      /\ UNCHANGED <<party, paper>>
  BY DEF P!Edit, P!At, PartyInv, PartyTypeOK
<1>2. asked' = [asked EXCEPT ![k] = c]
  BY DEF P!Edit
<1>3. /\ seen \in PartyRow /\ seen.version = old.seen.version /\ seen.currency = currency
  BY <1>1 DEF CallRow, PartyRow
<1>4. c \in CallRow /\ c.step = "edited" /\ c.of = p /\ c.seen = seen
  BY <1>1, <1>3 DEF CallRow
<1>5. /\ p \in Anybody /\ Stands(party[p]) /\ old.seen.version = party[p].version
      /\ old.seen.currency = party[p].currency /\ party[p] # P!NoRow
  BY <1>1 DEF PartyInv, CallFits, RowFits, Holds
<1>6. p \in Clients /\ currency # party[p].currency => P!PapersOf(p) = {}
  BY <1>1, <1>5 DEF P!Frozen
<1>7. CallFits(c)
  BY <1>3, <1>4, <1>5, <1>6 DEF CallFits, RowFits
<1>8. \A j \in Clerks \ {k} : Compatible(asked[j], c) /\ Compatible(c, asked[j])
  <2> TAKE j \in Clerks \ {k}
  <2>1. Compatible(asked[j], old) /\ Compatible(old, asked[j])
    BY DEF PartyInv
  <2> QED
    BY <1>1, <1>4, <2>1 DEF Compatible, Holds
<1> QED
  BY <1>1, <1>2, <1>4, <1>7, <1>8, CallMoves

\* A document is inserted, which shares the row of its party.
LEMMA InsertKeeps ==
    ASSUME PartyInv, NEW k \in Clerks, P!InsertPaper(k) PROVE PartyInv'
<1> PICK p, old : old = asked[k] /\ p = old.of
  OBVIOUS
<1> PICK c : c = [old EXCEPT !.step = "inserted"]
  OBVIOUS
<1>1. /\ old \in CallRow /\ old.step = "drafting" /\ ~P!Locked(p)
      /\ UNCHANGED <<party, paper>>
  BY DEF P!InsertPaper, P!At, PartyInv, PartyTypeOK
<1>2. asked' = [asked EXCEPT ![k] = c]
  BY DEF P!InsertPaper, P!Proceed
<1>3. c \in CallRow /\ c.step = "inserted" /\ c.of = p /\ c.seen = old.seen
  BY <1>1 DEF CallRow
<1>4. p \in Anybody /\ party[p] # P!NoRow
  BY <1>1 DEF PartyInv, CallFits, RowFits
<1>5. CallFits(c)
  BY <1>3, <1>4 DEF CallFits, RowFits, Holds
<1>6. \A j \in Clerks \ {k} : Compatible(asked[j], c) /\ Compatible(c, asked[j])
  BY <1>1, <1>3 DEF Compatible, Holds, P!Locked
<1> QED
  BY <1>1, <1>2, <1>3, <1>5, <1>6, CallMoves

\* A request that ends.
LEMMA DoneEnds ==
    ASSUME PartyInv, NEW k \in Clerks, P!Done(k)
    PROVE  /\ asked' \in [Clerks -> CallRow]
           /\ asked'[k] = P!Idle
           /\ \A j \in Clerks : asked'[j] = asked[j] \/ asked'[j] = P!Idle
BY RowsAre DEF P!Done, PartyInv, PartyTypeOK

\* A customer or a vendor is created.
LEMMA PartyCreateKeeps ==
    ASSUME PartyInv, NEW p \in Anybody, NEW currency \in Currencies, P!Create(p, currency)
    PROVE  PartyInv'
<1> PICK row : row = P!Row("active", currency, 1)
  OBVIOUS
<1>1. /\ row \in PartyRow /\ party' = [party EXCEPT ![p] = row] /\ party[p] = P!NoRow
      /\ UNCHANGED <<paper, asked>>
  BY DEF P!Create, P!PutRow, P!Row, PartyRow
<1>2. \A j \in Clerks : asked[j].step # "idle" => asked[j].of # p
  BY <1>1 DEF PartyInv, CallFits, RowFits
<1>3. asked' \in [Clerks -> CallRow] /\ \A j \in Clerks : asked'[j] = asked[j]
  BY <1>1 DEF PartyInv, PartyTypeOK
<1> QED
  BY <1>1, <1>2, <1>3, RowMoves

\* A committed edit ends every claim to know the row: its version is new.
LEMMA CommitEditKeeps ==
    ASSUME PartyInv, NEW k \in Clerks, P!CommitEdit(k) PROVE PartyInv'
<1> PICK old, p, version : old = asked[k] /\ p = old.of /\ version = old.seen.version
  OBVIOUS
<1> PICK row : row = P!Row(party[p].status, old.seen.currency, version + 1)
  OBVIOUS
<1>1. /\ old \in CallRow /\ old.step = "edited" /\ P!Done(k) /\ paper' = paper
      /\ party' = [party EXCEPT ![p] = row]
  BY DEF P!CommitEdit, P!At, P!PutRow, PartyInv, PartyTypeOK
<1>2. p \in Anybody /\ Stands(party[p]) /\ version = party[p].version
  BY <1>1 DEF PartyInv, CallFits, RowFits, Holds
<1>3. version \in Nat /\ version + 1 \in Nat /\ version + 1 # 0 /\ party[p] \in PartyRow
  <2>1. version \in Nat
    BY <1>1 DEF CallRow, PartyRow
  <2> QED
    BY <1>2, <2>1 DEF PartyInv, PartyTypeOK
<1>4. /\ row \in PartyRow /\ row.version = version + 1 /\ row # P!NoRow
  <2>1. row.version = version + 1
    BY DEF P!Row
  <2>2. old.seen.currency \in Currencies \cup {"none"} /\ party[p].status \in
          {"none", "gone", "active", "inactive", "deleted"}
    BY <1>1, <1>3 DEF CallRow, PartyRow
  <2>3. row \in PartyRow
    BY <1>3, <2>2 DEF P!Row, PartyRow
  <2> QED
    BY <1>3, <2>1, <2>3, RowsAre
<1>5. ASSUME NEW j \in Clerks, asked[j].step # "idle", asked[j].of = p, asked'[j] = asked[j]
      PROVE  ~Holds(asked[j]) /\ RowFits(asked[j], row)
  <2>1. j # k
    BY <1>1, <1>5, DoneEnds, RowsAre
  <2>2. ~Holds(asked[j])
    BY <1>1, <1>5, <2>1 DEF PartyInv, Compatible, Holds
  <2>3. asked[j] \in CallRow /\ asked[j].seen.version \in Nat
    BY DEF PartyInv, PartyTypeOK, CallRow, PartyRow
  <2>4. asked[j].step = "read" => ReadFits(asked[j], party[p])
    BY <1>5 DEF PartyInv, CallFits, RowFits
  <2>5. ASSUME asked[j].step = "read" PROVE ReadFits(asked[j], row)
    <3>1. asked[j].expected <= asked[j].seen.version /\ asked[j].seen.version <= version
      BY <1>2, <2>4, <2>5 DEF ReadFits
    <3>2. asked[j].seen.version # row.version /\ asked[j].seen.version <= row.version
      BY <1>3, <1>4, <2>3, <3>1
    <3> QED
      BY <3>1, <3>2 DEF ReadFits
  <2> QED
    BY <1>4, <2>2, <2>5 DEF RowFits, Holds
<1>6. /\ asked' \in [Clerks -> CallRow]
      /\ \A j \in Clerks : asked'[j] = asked[j] \/ asked'[j] = P!Idle
  BY <1>1, DoneEnds
<1> QED
  BY <1>1, <1>2, <1>4, <1>5, <1>6, RowMoves

\* A status changes, without a new version.
LEMMA MoveKeeps ==
    ASSUME PartyInv, NEW k \in Clerks, NEW status \in P!Statuses, NEW force \in BOOLEAN,
           P!Move(k, status, force)
    PROVE  PartyInv'
<1> PICK old, p : old = asked[k] /\ p = old.of
  OBVIOUS
<1> PICK row : row = [party[p] EXCEPT !.status = status]
  OBVIOUS
<1>1. /\ old \in CallRow /\ old.step = "move" /\ P!Exists(p) /\ ~P!Locked(p)
      /\ P!Done(k) /\ paper' = paper /\ party' = [party EXCEPT ![p] = row]
  BY DEF P!Move, P!At, P!PutRow, PartyInv, PartyTypeOK
<1>2. p \in Anybody /\ Stands(party[p]) /\ party[p] \in PartyRow
  BY <1>1 DEF PartyInv, PartyTypeOK, CallFits, P!Exists, Stands
<1>3. /\ row \in PartyRow /\ row.version = party[p].version
      /\ row.currency = party[p].currency /\ row.status = status
  BY <1>2 DEF PartyRow, P!Statuses
<1>4. row # P!NoRow
  BY <1>3, RowsAre DEF P!Statuses
<1>5. ASSUME NEW j \in Clerks, asked[j].step # "idle", asked[j].of = p
      PROVE  ~Holds(asked[j]) /\ RowFits(asked[j], row)
  <2>1. ~Holds(asked[j])
    BY <1>1, <1>5 DEF P!Locked, Holds
  <2>2. asked[j].step = "read" => ReadFits(asked[j], party[p])
    BY <1>5 DEF PartyInv, CallFits, RowFits
  <2>3. asked[j].step = "read" => ReadFits(asked[j], row)
    BY <1>2, <1>3, <2>2 DEF ReadFits
  <2> QED
    BY <1>4, <2>1, <2>3 DEF RowFits, Holds
<1>6. /\ asked' \in [Clerks -> CallRow]
      /\ \A j \in Clerks : asked'[j] = asked[j] \/ asked'[j] = P!Idle
  BY <1>1, DoneEnds
<1> QED
  BY <1>1, <1>2, <1>3, <1>5, <1>6, RowMoves

\* A row is deleted, softly or for good.
LEMMA RemoveKeeps ==
    ASSUME PartyInv, NEW k \in Clerks, NEW force \in BOOLEAN, P!Remove(k, force)
    PROVE  PartyInv'
<1> PICK old, p : old = asked[k] /\ p = old.of
  OBVIOUS
<1>1. /\ old.step = "move" /\ ~P!Locked(p)
      /\ P!Done(k) /\ paper' = paper /\ party' = [party EXCEPT ![p] = P!Gone]
  BY DEF P!Remove, P!At, P!PutRow
<1>2. p \in Anybody /\ P!Gone \in PartyRow /\ P!Gone # P!NoRow
  BY <1>1, RowsAre DEF PartyInv, CallFits
<1>3. ASSUME NEW j \in Clerks, asked[j].step # "idle", asked[j].of = p
      PROVE  ~Holds(asked[j]) /\ RowFits(asked[j], P!Gone)
  <2>1. ~Holds(asked[j])
    BY <1>1, <1>3 DEF P!Locked, Holds
  <2>2. asked[j].step = "read" => ReadFits(asked[j], party[p])
    BY <1>3 DEF PartyInv, CallFits, RowFits
  <2>3. asked[j].step = "read" => ReadFits(asked[j], P!Gone)
    BY <2>2 DEF ReadFits, Stands
  <2> QED
    BY <1>2, <2>1, <2>3 DEF RowFits, Holds
<1>4. /\ asked' \in [Clerks -> CallRow]
      /\ \A j \in Clerks : asked'[j] = asked[j] \/ asked'[j] = P!Idle
  BY <1>1, DoneEnds
<1> QED
  BY <1>1, <1>2, <1>3, <1>4, RowMoves

\* The document inserted before is committed: nobody holds the row.
LEMMA CommitPaperKeeps ==
    ASSUME PartyInv, NEW k \in Clerks, P!CommitPaper(k) PROVE PartyInv'
<1> PICK old : old = asked[k]
  OBVIOUS
<1> PICK new : new = P!Paper(old.of, old.seen.currency, TRUE)
  OBVIOUS
<1>1. /\ old \in CallRow /\ old.step = "inserted" /\ P!Done(k) /\ party' = party
      /\ paper' = [paper EXCEPT ![old.paper] = new]
  BY DEF P!CommitPaper, P!At, PartyInv, PartyTypeOK
<1>2. new \in PaperRow /\ new.of = old.of
  <2>1. old.of \in Anybody \cup {"none"} /\ old.seen.currency \in Currencies \cup {"none"}
    BY <1>1 DEF CallRow, PartyRow
  <2> QED
    BY <2>1 DEF P!Paper, PaperRow
<1>3. /\ paper' \in [Papers -> PaperRow]
      /\ \A d \in Papers : paper'[d] = paper[d] \/ paper'[d] = new
  BY <1>1, <1>2 DEF PartyInv, PartyTypeOK
<1>4. ASSUME NEW j \in Clerks, Holds(asked[j]) PROVE asked[j].of # old.of
  <2>1. j # k
    BY <1>1, <1>4 DEF Holds
  <2> QED
    BY <1>1, <1>4, <2>1 DEF PartyInv, Compatible
<1>5. ASSUME NEW j \in Clerks, NEW d \in Papers, Holds(asked[j]), paper'[d].of = asked[j].of
      PROVE  paper[d].of = asked[j].of
  BY <1>2, <1>3, <1>4, <1>5
<1>6. /\ asked' \in [Clerks -> CallRow]
      /\ \A j \in Clerks : asked'[j] = asked[j] \/ asked'[j] = P!Idle
  BY <1>1, DoneEnds
<1> QED
  BY <1>1, <1>3, <1>5, <1>6, PaperMoves

\* A document is settled or deleted.
LEMMA ClosePaperKeeps ==
    ASSUME PartyInv, "none" \notin Anybody, NEW d \in Papers, P!ClosePaper(d) PROVE PartyInv'
<1> PICK rest \in {P!NoPaper, [paper[d] EXCEPT !.open = FALSE]} :
        paper' = [paper EXCEPT ![d] = rest]
  BY DEF P!ClosePaper
<1>1. party' = party /\ asked' = asked /\ paper[d] \in PaperRow
  BY DEF P!ClosePaper, PartyInv, PartyTypeOK
<1>2. rest \in PaperRow /\ rest.of \in {"none", paper[d].of}
  <2>1. CASE rest = P!NoPaper
    BY <2>1 DEF P!NoPaper, P!Paper, PaperRow
  <2>2. CASE rest = [paper[d] EXCEPT !.open = FALSE]
    <3> PICK old : old = paper[d]
      OBVIOUS
    <3>1. FALSE \in BOOLEAN
      OBVIOUS
    <3>2. [old EXCEPT !.open = FALSE] \in PaperRow /\ [old EXCEPT !.open = FALSE].of = old.of
      BY <1>1, <3>1 DEF PaperRow
    <3> QED
      BY <2>2, <3>2
  <2> QED
    BY <2>1, <2>2
<1>3. /\ paper' \in [Papers -> PaperRow]
      /\ \A e \in Papers : paper'[e] = paper[e] \/ (e = d /\ paper'[e] = rest)
  BY <1>2 DEF PartyInv, PartyTypeOK
<1>4. ASSUME NEW j \in Clerks, NEW e \in Papers, paper'[e].of = asked[j].of,
             asked[j].of \in Anybody
      PROVE  paper[e].of = asked[j].of
  BY <1>2, <1>3, <1>4
<1>5. asked' \in [Clerks -> CallRow] /\ \A j \in Clerks : asked'[j] = asked[j]
  BY <1>1 DEF PartyInv, PartyTypeOK
<1> QED
  BY <1>1, <1>3, <1>4, <1>5, PaperMoves

\* Whatever the requests on customers and vendors do, a version says which currency
\* was read, the holder of a row's lock is alone with it, and an edit that changes a
\* customer's currency has found no document of that customer.
THEOREM PartiesInvariant == P!Spec => []PartyInv
<1>1. "none" \notin Anybody
  BY PartiesAssumption DEF P!PartiesConstants, Anybody
<1>2. P!Init => PartyInv
  <2> SUFFICES ASSUME P!Init PROVE PartyInv
    OBVIOUS
  <2>1. PartyTypeOK
    BY RowsAre DEF P!Init, PartyTypeOK, P!NoPaper, P!Paper, PaperRow, Anybody
  <2>2. \A k \in Clerks : asked[k] = P!Idle
    BY DEF P!Init
  <2>3. \A k \in Clerks : asked[k].step = "idle"
    BY <2>2, RowsAre
  <2> QED
    BY <2>1, <2>3 DEF PartyInv, CallFits, Compatible, Holds
<1>3. PartyInv /\ [P!Next]_(P!vars) => PartyInv'
  <2> SUFFICES ASSUME PartyInv, [P!Next]_(P!vars) PROVE PartyInv'
    OBVIOUS
  <2>1. ASSUME NEW p \in Anybody, NEW currency \in Currencies, P!Create(p, currency)
        PROVE  PartyInv'
    BY <2>1, PartyCreateKeeps
  <2>2. ASSUME NEW p \in Anybody, NEW k \in Clerks, NEW expected \in 1 .. party[p].version,
               P!ReadToUpdate(k, p, expected)
        PROVE  PartyInv'
    <3>1. party[p].version \in Nat
      BY DEF PartyInv, PartyTypeOK, PartyRow
    <3>2. expected \in Nat /\ expected <= party[p].version
      BY <3>1
    <3> QED
      BY <2>2, <3>2, FreshCall DEF P!ReadToUpdate
  <2>3. ASSUME NEW p \in Anybody, NEW k \in Clerks, P!ReadToMove(k, p) PROVE PartyInv'
    <3>1. 0 \in Nat /\ 0 <= party[p].version
      BY DEF PartyInv, PartyTypeOK, PartyRow
    <3> QED
      BY <2>3, <3>1, FreshCall DEF P!ReadToMove
  <2>4. ASSUME NEW p \in Anybody, NEW k \in Clerks, NEW d \in Papers, P!ReadForPaper(k, p, d)
        PROVE  PartyInv'
    <3>1. 0 \in Nat /\ 0 <= party[p].version
      BY DEF PartyInv, PartyTypeOK, PartyRow
    <3> QED
      BY <2>4, <3>1, FreshCall DEF P!ReadForPaper
  <2>5. ASSUME NEW k \in Clerks, P!Lock(k) PROVE PartyInv'
    BY <2>5, LockKeeps
  <2>6. ASSUME NEW k \in Clerks, NEW currency \in Currencies, P!Edit(k, currency)
        PROVE  PartyInv'
    BY <2>6, EditKeeps
  <2>7. ASSUME NEW k \in Clerks, P!CommitEdit(k) PROVE PartyInv'
    BY <2>7, CommitEditKeeps
  <2>8. ASSUME NEW k \in Clerks, NEW status \in P!Statuses, NEW force \in BOOLEAN,
               P!Move(k, status, force)
        PROVE  PartyInv'
    BY <2>8, MoveKeeps
  <2>9. ASSUME NEW k \in Clerks, NEW force \in BOOLEAN, P!Remove(k, force) PROVE PartyInv'
    BY <2>9, RemoveKeeps
  <2>10. ASSUME NEW k \in Clerks, P!InsertPaper(k) PROVE PartyInv'
    BY <2>10, InsertKeeps
  <2>11. ASSUME NEW k \in Clerks, P!CommitPaper(k) PROVE PartyInv'
    BY <2>11, CommitPaperKeeps
  <2>12. ASSUME NEW k \in Clerks, P!GiveUp(k) PROVE PartyInv'
    BY <2>12, CallEnds DEF P!GiveUp
  <2>13. ASSUME NEW d \in Papers, P!ClosePaper(d) PROVE PartyInv'
    BY <1>1, <2>13, ClosePaperKeeps
  <2>14. CASE UNCHANGED P!vars
    BY <2>14 DEF P!vars, PartyInv, PartyTypeOK, CallFits, P!PapersOf, Compatible
  <2> QED
    BY <2>1, <2>2, <2>3, <2>4, <2>5, <2>6, <2>7, <2>8, <2>9, <2>10, <2>11, <2>12, <2>13,
       <2>14 DEF P!Next, Anybody
<1> QED
  BY <1>2, <1>3, PTL DEF P!Spec

\* A customer's currency changes only while no document names the customer, although
\* the request that changes it looked for documents before it wrote: the lock it
\* holds keeps new ones from coming (customers/service.py).
THEOREM CurrenciesAreFrozen == P!Spec => FrozenCurrency
<1> DEFINE Kept(c) ==
        P!Exists(c) /\ P!Exists(c)' /\ party'[c].currency # party[c].currency =>
            P!PapersOf(c) = {} /\ ~P!Shared(c)
<1>1. PartyInv /\ [P!Next]_(P!vars) => [\A c \in Clients : Kept(c)]_(P!vars)
  <2> SUFFICES ASSUME PartyInv, P!Next, NEW c \in Clients, P!Exists(c), P!Exists(c)',
                      party'[c].currency # party[c].currency
               PROVE  P!PapersOf(c) = {} /\ ~P!Shared(c)
    OBVIOUS
  <2>1. c \in Anybody /\ party \in [Anybody -> PartyRow] /\ party[c] \in PartyRow
           /\ Stands(party[c]) /\ party' # party /\ party'[c] \notin {P!NoRow, P!Gone}
    BY DEF Anybody, PartyInv, PartyTypeOK, P!Exists, Stands
  <2>2. ASSUME NEW p \in Anybody, NEW currency \in Currencies, P!Create(p, currency)
        PROVE  FALSE
    BY <2>1, <2>2 DEF P!Create, P!PutRow, Stands
  <2>3. ASSUME NEW k \in Clerks, NEW status \in P!Statuses, NEW force \in BOOLEAN,
               P!Move(k, status, force)
        PROVE  FALSE
    <3>1. party' = [party EXCEPT
                      ![asked[k].of] = [party[asked[k].of] EXCEPT !.status = status]]
      BY <2>3 DEF P!Move, P!PutRow
    <3>2. [party[c] EXCEPT !.status = status].currency = party[c].currency
      BY <2>1 DEF PartyRow
    <3> QED
      BY <2>1, <3>1, <3>2
  <2>4. ASSUME NEW k \in Clerks, NEW force \in BOOLEAN, P!Remove(k, force) PROVE FALSE
    BY <2>1, <2>4 DEF P!Remove, P!PutRow
  <2>5. ASSUME NEW k \in Clerks, P!CommitEdit(k)
        PROVE  P!PapersOf(c) = {} /\ ~P!Shared(c)
    <3> PICK old : old = asked[k]
      OBVIOUS
    <3>1. /\ old.step = "edited"
          /\ party' = [party EXCEPT ![old.of] = P!Row(party[old.of].status, old.seen.currency,
                                                      old.seen.version + 1)]
      BY <2>5 DEF P!CommitEdit, P!At, P!PutRow
    <3>2. old.of = c
      BY <2>1, <3>1
    <3>3. party'[c].currency = old.seen.currency
      BY <2>1, <3>1, <3>2 DEF P!Row
    <3>4. P!PapersOf(c) = {}
      BY <3>1, <3>2, <3>3 DEF PartyInv, CallFits
    <3>5. ~P!Shared(c)
      BY <3>1, <3>2 DEF PartyInv, Compatible, Holds, P!Shared
    <3> QED
      BY <3>4, <3>5
  <2>6. \/ \E p \in Anybody, currency \in Currencies : P!Create(p, currency)
        \/ \E k \in Clerks : P!CommitEdit(k)
        \/ \E k \in Clerks, status \in P!Statuses, force \in BOOLEAN : P!Move(k, status, force)
        \/ \E k \in Clerks, force \in BOOLEAN : P!Remove(k, force)
    BY <2>1 DEF P!Next, P!ReadToUpdate, P!ReadToMove, P!ReadForPaper, P!Lock, P!Edit,
                P!InsertPaper, P!CommitPaper, P!GiveUp, P!ClosePaper, Anybody
  <2> QED
    BY <2>2, <2>3, <2>4, <2>5, <2>6
<1> QED
  BY <1>1, PartiesInvariant, PTL DEF P!Spec, FrozenCurrency, P!FrozenCurrency

(***************************************************************************)
(* Totals: what a saved document says of its lines, its discount and its   *)
(* tax.  The one hard step is the spreading of a discount by the largest   *)
(* remainders: no cent is lost and no line is taxed on more than it costs. *)
(***************************************************************************)
\* A rounded amount is a number.
LEMMA HalfUpIsNat ==
    ASSUME NEW n \in Nat, NEW d \in Nat \ {0}
    PROVE  T!HalfUp(n, d) \in Nat
<1>1. d \div 2 \in Nat
  OBVIOUS
<1>2. n + d \div 2 \in Nat
  BY <1>1
<1>3. \A i \in Nat, j \in Nat \ {0} : i \div j \in Nat
  OBVIOUS
<1> QED
  BY <1>2, <1>3 DEF T!HalfUp

\* Division with rest.
Divides(i, j, part, rest) == part \in Nat /\ rest \in 0 .. j - 1 /\ i = j * part + rest

LEMMA Division == \A i \in Nat, j \in Nat \ {0} : Divides(i, j, i \div j, i % j)
<1>1. \A i \in Nat, j \in Nat \ {0} : i \div j \in Nat
  BY SMT
<1>2. \A i \in Nat, j \in Nat \ {0} : i % j \in 0 .. j - 1
  BY SMT
<1>3. \A i \in Nat, j \in Nat \ {0} : i = j * (i \div j) + (i % j)
  BY SMT
<1> QED
  BY <1>1, <1>2, <1>3 DEF Divides

\* A quotient below a bound, and one that comes out even.
LEMMA Quotients ==
    ASSUME NEW i \in Nat, NEW j \in Nat \ {0}, NEW k \in Nat
    PROVE  /\ i < j * k + j => i \div j <= k
           /\ j * k <= i /\ i < j * k + j => i \div j = k
<1> PICK q, r : q = i \div j /\ r = i % j
  OBVIOUS
<1>1. q \in Nat /\ r \in 0 .. j - 1 /\ i = j * q + r
  BY Division DEF Divides
<1>2. \A a \in Nat \ {0}, x, y \in Nat : a * x < a * y + a => x <= y
  <2> SUFFICES ASSUME NEW a \in Nat \ {0}, NEW x \in Nat, NEW y \in Nat, ~(x <= y)
               PROVE  a * y + a <= a * x
    <3>1. \A a, x, y \in Nat : a * x \in Nat /\ a * y \in Nat
      OBVIOUS
    <3> QED
      BY <3>1
  <2>1. PICK z \in Nat : x = y + 1 + z
    <3>1. x - y - 1 \in Nat /\ x = y + 1 + (x - y - 1)
      OBVIOUS
    <3> QED
      BY <3>1
  <2>2. a * x = a * y + a + a * z
    BY <2>1
  <2>3. a * z \in Nat /\ a * y \in Nat
    OBVIOUS
  <2> QED
    BY <2>2, <2>3
<1>3. j * q \in Nat /\ j * k \in Nat
  BY <1>1
<1>4. i < j * k + j => q <= k
  BY <1>1, <1>2, <1>3
<1>5. j * k <= i => k <= q
  <2>1. SUFFICES ASSUME j * k <= i PROVE j * k < j * q + j
    BY <1>1, <1>2
  <2> QED
    BY <1>1, <1>3, <2>1
<1> QED
  BY <1>1, <1>4, <1>5

\* The whole of a rate is ten thousand ten-thousandths.
LEMMA FineIs == Fine \in Nat \ {0} /\ T!Whole = 10000 * Fine /\ T!Whole \in Nat \ {0}
<1>1. Fine \in Nat \ {0}
  BY TotalsAssumption DEF T!TotalsConstants
<1> QED
  BY <1>1 DEF T!Whole

\* A part of the whole at most.
LEMMA PercentOf ==
    ASSUME NEW s \in Nat, NEW p \in 0 .. T!Whole
    PROVE  T!HalfUp(s * p, T!Whole) \in 0 .. s
<1> PICK w, h, m, t : w = T!Whole /\ h = w \div 2 /\ m = s * p /\ t = w * s
  OBVIOUS
<1>1. w \in Nat \ {0} /\ p \in 0 .. w
  BY FineIs
<1>2. h \in Nat /\ h < w
  BY <1>1
<1>3. m \in Nat /\ t \in Nat /\ m <= t
  <2>1. \A i, j, k \in Nat : j <= k => i * j <= k * i
    OBVIOUS
  <2> QED
    BY <2>1, <1>1
<1>4. m + h \in Nat /\ m + h < t + w
  BY <1>1, <1>2, <1>3
<1>5. (m + h) \div w <= s
  BY <1>1, <1>4, Quotients
<1>6. (m + h) \div w \in Nat
  BY <1>1, <1>4, Division DEF Divides
<1> QED
  BY <1>5, <1>6 DEF T!HalfUp

\* The rates of a document, and what its column keeps of them.
AnyRate == {T!NoRate} \cup 0 .. T!Whole

LEMMA ColumnIs ==
    ASSUME NEW v \in 0 .. T!Whole
    PROVE  T!Column(v) \in 0 .. T!Whole /\ T!Column(T!Column(v)) = T!Column(v)
<1> PICK f, h, q : f = Fine /\ h = f \div 2 /\ q = T!HalfUp(v, f)
  OBVIOUS
<1>1. f \in Nat \ {0} /\ h \in Nat /\ h < f /\ v \in Nat /\ v <= 10000 * f
  <2>1. f \in Nat \ {0} /\ v \in 0 .. 10000 * f
    BY FineIs
  <2> QED
    BY <2>1
<1>2. q \in Nat /\ q <= 10000
  <2>1. v + h \in Nat /\ v + h < f * 10000 + f
    BY <1>1
  <2>2. (v + h) \div f <= 10000
    BY <1>1, <2>1, Quotients
  <2> QED
    BY <1>1, <2>2, HalfUpIsNat DEF T!HalfUp
<1>3. \A x \in Nat : T!Column(x) = f * T!HalfUp(x, f)
  BY DEF T!Column, T!NoRate
<1>4. T!Column(v) = f * q
  BY <1>1, <1>3
<1>5. f * q \in Nat /\ f * q <= 10000 * f
  <2>1. \A i, j, k \in Nat : j <= k => i * j <= k * i
    OBVIOUS
  <2> QED
    BY <2>1, <1>1, <1>2
<1>6. T!HalfUp(f * q, f) = q
  <2> PICK i : i = f * q + h
    OBVIOUS
  <2>1. i \in Nat /\ f * q <= i /\ i < f * q + f
    BY <1>1, <1>5
  <2>2. i \div f = q
    BY <1>1, <1>2, <2>1, Quotients
  <2> QED
    BY <2>2 DEF T!HalfUp
<1>7. T!Column(f * q) = f * q
  BY <1>3, <1>5, <1>6
<1>8. f * q \in 0 .. T!Whole
  BY <1>5, FineIs
<1> QED
  BY <1>4, <1>7, <1>8

\* A stored rate is a rate, is missing only where it was, and is stored as it is.
LEMMA StoredRate ==
    ASSUME NEW r \in AnyRate
    PROVE  /\ T!Column(r) \in AnyRate /\ T!Column(T!Column(r)) = T!Column(r)
           /\ T!Column(r) = T!NoRate <=> r = T!NoRate
<1>1. CASE r = T!NoRate
  BY <1>1 DEF T!Column, AnyRate
<1>2. CASE r \in 0 .. T!Whole
  <2>1. T!Column(r) \in 0 .. T!Whole /\ T!Column(T!Column(r)) = T!Column(r)
    BY <1>2, ColumnIs
  <2>2. \A x \in 0 .. T!Whole : x # T!NoRate
    BY FineIs DEF T!NoRate
  <2> QED
    BY <1>2, <2>1, <2>2 DEF AnyRate
<1> QED
  BY <1>1, <1>2 DEF AnyRate

\* The smaller of two amounts, and what one leaves of the other.
LEMMA SmallerIsIn ==
    ASSUME NEW a \in Nat, NEW b \in Nat
    PROVE  T!Min({a, b}) \in 0 .. b /\ T!Max({a - b, 0}) \in Nat
              /\ (a >= b => T!Max({a - b, 0}) = a - b)
<1>1. \E x \in {a, b} : \A y \in {a, b} : x <= y
  OBVIOUS
<1>2. T!Min({a, b}) \in {a, b} /\ \A y \in {a, b} : T!Min({a, b}) <= y
  BY <1>1 DEF T!Min
<1>3. \E x \in {a - b, 0} : \A y \in {a - b, 0} : x >= y
  OBVIOUS
<1>4. T!Max({a - b, 0}) \in {a - b, 0} /\ \A y \in {a - b, 0} : T!Max({a - b, 0}) >= y
  BY <1>3 DEF T!Max
<1> QED
  BY <1>2, <1>4

\* The kinds of discount the schemas let in.
AnyDiscount == [type : {"none"}, value : {0}] \cup [type : {"amount"}, value : Nat]
                 \cup [type : {"percentage"}, value : 0 .. T!Whole]

\* A stored discount is one, and is stored as it is.
LEMMA StoredDiscount ==
    ASSUME NEW t \in AnyDiscount
    PROVE  T!Kept(t) \in AnyDiscount /\ T!Kept(T!Kept(t)) = T!Kept(t)
<1>1. CASE t.type # "percentage"
  BY <1>1 DEF T!Kept
<1>2. CASE t.type = "percentage"
  <2> PICK v, c : v = t.value /\ c = T!Column(v)
    OBVIOUS
  <2>1. v \in 0 .. T!Whole /\ t = [type |-> "percentage", value |-> v]
    BY <1>2 DEF AnyDiscount
  <2>2. c \in 0 .. T!Whole /\ T!Column(c) = c
    BY <2>1, ColumnIs
  <2>3. T!Kept(t) = [type |-> "percentage", value |-> c]
    BY <2>1 DEF T!Kept
  <2>4. T!Kept([type |-> "percentage", value |-> c]) = [type |-> "percentage", value |-> c]
    BY <2>2 DEF T!Kept
  <2> QED
    BY <2>2, <2>3, <2>4 DEF AnyDiscount
<1> QED
  BY <1>1, <1>2

\* A discount takes off no more than there is.
LEMMA DiscountIsWithin ==
    ASSUME NEW s \in Nat, NEW t \in AnyDiscount
    PROVE  T!DiscountOn(s, t) \in 0 .. s
<1>1. CASE t.type = "none"
  BY <1>1 DEF T!DiscountOn
<1>2. CASE t.type = "amount"
  <2>1. t.value \in Nat
    BY <1>2 DEF AnyDiscount
  <2>2. T!DiscountOn(s, t) = T!Min({t.value, s})
    BY <1>2 DEF T!DiscountOn
  <2> QED
    BY <2>1, <2>2, SmallerIsIn
<1>3. CASE t.type = "percentage"
  <2>1. t.value \in 0 .. T!Whole
    BY <1>3 DEF AnyDiscount
  <2>2. T!DiscountOn(s, t) = T!HalfUp(s * t.value, T!Whole)
    BY <1>3 DEF T!DiscountOn
  <2> QED
    BY <2>1, <2>2, PercentOf
<1> QED
  BY <1>1, <1>2, <1>3 DEF AnyDiscount

\* One figure of every line.
FieldOf(lines, field) == [n \in DOMAIN lines |-> lines[n][field]]

\* What a document adds up is the sum of the column.
LEMMA SumOfIsTotal ==
    ASSUME NEW lines, IsFiniteSet(DOMAIN lines), NEW field
    PROVE  T!SumOf(lines, field) = Total(FieldOf(lines, field), DOMAIN lines)
<1> DEFINE S == DOMAIN lines
<1> DEFINE D(g) == [s \in SUBSET S |->
        IF s = {} THEN 0
        ELSE LET x == CHOOSE x \in s : TRUE IN lines[x][field] + g[s \ {x}]]
<1> DEFINE it == CHOOSE g : g = D(g)
<1>1. T!SumOf(lines, field) = it[S]
  BY DEF T!SumOf, T!MapThenSumSet, T!MapThenFoldSet
<1>2. ASSUME NEW g PROVE (g = D(g)) <=> Sums(FieldOf(lines, field), g, S)
  BY PickIsIn DEF Sums, SumStep, FieldOf, Pick
<1>3. PICK h : Sums(FieldOf(lines, field), h, S)
  BY SumsExist DEF Summable
<1>4. h = D(h)
  <2> HIDE DEF D
  <2> QED BY <1>2, <1>3
<1>5. it = D(it)
  <2> HIDE DEF D
  <2> QED BY <1>4
<1>6. Sums(FieldOf(lines, field), it, S)
  <2> HIDE DEF D, it
  <2> QED BY <1>2, <1>5
<1> QED
  <2> HIDE DEF D, it
  <2> QED BY <1>1, <1>6, SumsIsTotal

\* The steps of the spreading, named.
NetOf(lines, off) == T!Max({T!SumOf(lines, "total") - off, 0})

FloorsOf(lines, off) ==
    [n \in DOMAIN lines |-> (lines[n].total * NetOf(lines, off)) \div T!SumOf(lines, "total")]

RestsOf(lines, off) ==
    [n \in DOMAIN lines |-> (lines[n].total * NetOf(lines, off)) % T!SumOf(lines, "total")]

LeftOf(lines, off) ==
    NetOf(lines, off) - T!MapThenSumSet(LAMBDA n : FloorsOf(lines, off)[n], DOMAIN lines)

AheadOf(lines, off) ==
    [n \in DOMAIN lines |->
        {m \in DOMAIN lines : \/ RestsOf(lines, off)[m] > RestsOf(lines, off)[n]
                              \/ RestsOf(lines, off)[m] = RestsOf(lines, off)[n] /\ m < n}]

SharesOf(lines, off) ==
    [n \in DOMAIN lines |->
        IF T!SumOf(lines, "total") = 0 THEN 0
        ELSE FloorsOf(lines, off)[n]
               + IF T!Cardinality(AheadOf(lines, off)[n]) < LeftOf(lines, off) THEN 1 ELSE 0]

\* Allocated is made of them.
LEMMA AllocatedLines ==
    ASSUME NEW lines, NEW off
    PROVE  T!Allocated(lines, off) =
              [n \in DOMAIN lines |->
                 [lines[n] EXCEPT !.taxable = SharesOf(lines, off)[n],
                                  !.tax = T!HalfUp(SharesOf(lines, off)[n]
                                                    * T!TaxRate(lines[n].treatment), 100)]]
BY DEF T!Allocated, SharesOf, AheadOf, LeftOf, RestsOf, FloorsOf, NetOf

\* What the floors leave of the net amount.
LEMMA LeftIsTheRest ==
    ASSUME NEW lines, NEW off, IsFiniteSet(DOMAIN lines)
    PROVE  LeftOf(lines, off)
              = NetOf(lines, off) - Total(FloorsOf(lines, off), DOMAIN lines)
<1> PICK f, S : f = FloorsOf(lines, off) /\ S = DOMAIN lines
  OBVIOUS
<1> DEFINE D(g) == [s \in SUBSET S |->
        IF s = {} THEN 0
        ELSE LET x == CHOOSE x \in s : TRUE IN f[x] + g[s \ {x}]]
<1> DEFINE it == CHOOSE g : g = D(g)
<1>1. LeftOf(lines, off) = NetOf(lines, off) - it[S]
  BY DEF LeftOf, T!MapThenSumSet, T!MapThenFoldSet
<1>2. ASSUME NEW g PROVE (g = D(g)) <=> Sums(f, g, S)
  BY PickIsIn DEF Sums, SumStep, Pick
<1>3. PICK h : Sums(f, h, S)
  BY SumsExist DEF Summable
<1>4. h = D(h)
  <2> HIDE DEF D
  <2> QED BY <1>2, <1>3
<1>5. it = D(it)
  <2> HIDE DEF D
  <2> QED BY <1>4
<1>6. Sums(f, it, S)
  <2> HIDE DEF D, it
  <2> QED BY <1>2, <1>5
<1> QED
  <2> HIDE DEF D, it
  <2> QED BY <1>1, <1>6, SumsIsTotal

\* The spreading looks at nothing but the line totals.
LEMMA SharesAgree ==
    ASSUME NEW a, NEW b, NEW off, IsFiniteSet(DOMAIN a), DOMAIN a = DOMAIN b,
           \A n \in DOMAIN a : a[n].total = b[n].total
    PROVE  SharesOf(a, off) = SharesOf(b, off)
<1>1. T!SumOf(a, "total") = T!SumOf(b, "total")
  <2>1. \A n \in DOMAIN a : FieldOf(a, "total")[n] = FieldOf(b, "total")[n]
    BY DEF FieldOf
  <2>2. Total(FieldOf(a, "total"), DOMAIN a) = Total(FieldOf(b, "total"), DOMAIN a)
    BY <2>1, TotalCongruence
  <2> QED
    BY <2>2, SumOfIsTotal
<1>2. NetOf(a, off) = NetOf(b, off)
  BY <1>1 DEF NetOf
<1>3. FloorsOf(a, off) = FloorsOf(b, off) /\ RestsOf(a, off) = RestsOf(b, off)
  BY <1>1, <1>2 DEF FloorsOf, RestsOf
<1>4. LeftOf(a, off) = LeftOf(b, off)
  BY <1>2, <1>3, LeftIsTheRest
<1>5. AheadOf(a, off) = AheadOf(b, off)
  BY <1>3, Zenon DEF AheadOf
<1> QED
  BY <1>1, <1>3, <1>4, <1>5, Zenon DEF SharesOf

\* Lines that can be spread over.
Priced(lines) ==
    /\ IsFiniteSet(DOMAIN lines) /\ DOMAIN lines \subseteq Nat
    /\ \A n \in DOMAIN lines : lines[n].total \in Nat

\* The line totals add up, and to nothing only where each of them is nothing.
LEMMA SumOfTotals ==
    ASSUME NEW lines, Priced(lines)
    PROVE  /\ T!SumOf(lines, "total") \in Nat
           /\ T!SumOf(lines, "total") = Total(FieldOf(lines, "total"), DOMAIN lines)
           /\ T!SumOf(lines, "total") = 0 => \A n \in DOMAIN lines : lines[n].total = 0
<1> PICK S, w : S = DOMAIN lines /\ w = FieldOf(lines, "total")
  OBVIOUS
<1>1. IsFiniteSet(S) /\ \A n \in S : w[n] \in Nat /\ w[n] = lines[n].total
  BY DEF Priced, FieldOf
<1>2. T!SumOf(lines, "total") = Total(w, S)
  BY <1>1, SumOfIsTotal
<1>3. Total(w, S) \in Nat
  BY <1>1, TotalNonNegative
<1>4. ASSUME Total(w, S) = 0, NEW n \in S PROVE w[n] = 0
  <2> PICK U : U = S \ {n}
    OBVIOUS
  <2>1. IsFiniteSet(U) /\ U \subseteq S
    BY <1>1, FS_Subset
  <2>2. Total(w, U) \in Nat
    BY <1>1, <2>1, TotalNonNegative
  <2>3. \A x \in S : w[x] \in Int
    BY <1>1
  <2>4. AnyOrder(w, S)
    BY <1>1, <2>3, TotalSplits
  <2>5. Total(w, S) = w[n] + Total(w, U)
    BY <2>4 DEF AnyOrder
  <2> QED
    BY <1>1, <1>4, <2>2, <2>5
<1> QED
  BY <1>1, <1>2, <1>3, <1>4

\* Every line has its rank: the lines ahead of it come in an order.
LEMMA LinesAreRanked ==
    ASSUME NEW lines, NEW off, Priced(lines), NEW k \in 0 .. Cardinality(DOMAIN lines),
           \A n \in DOMAIN lines : RestsOf(lines, off)[n] \in Int
    PROVE  Cardinality({n \in DOMAIN lines : Cardinality(AheadOf(lines, off)[n]) < k}) = k
<1> PICK S, R, B : S = DOMAIN lines /\ R = RestsOf(lines, off) /\ B = AheadOf(lines, off)
  OBVIOUS
<1>1. \A n \in S : B[n] = {m \in S : R[m] > R[n] \/ (R[m] = R[n] /\ m < n)}
  BY DEF AheadOf
<1>2. IsFiniteSet(S) /\ \A n \in S : n \in Int /\ R[n] \in Int
  BY DEF Priced
<1>3. B \in [S -> SUBSET S]
  BY DEF AheadOf
<1>4. \A n \in S : n \notin B[n]
  BY <1>1, <1>2
<1>5. ASSUME NEW m \in S, NEW n \in S, m \in B[n], NEW l \in B[m] PROVE l \in B[n]
  BY <1>1, <1>2, <1>5
<1>6. \A m, n \in S : m \in B[n] => B[m] \subseteq B[n]
  BY <1>5
<1>7. \A m, n \in S : m # n => m \in B[n] \/ n \in B[m]
  BY <1>1, <1>2
<1>8. k \in 0 .. Cardinality(S)
  OBVIOUS
<1>9. Cardinality({n \in S : Cardinality(B[n]) < k}) = k
  BY <1>2, <1>3, <1>4, <1>6, <1>7, <1>8, RanksCount
<1> QED
  BY <1>9

\* The amount that is left is less than a cent for every line that lost a part of one.
LEMMA FewCentsAreLeft ==
    ASSUME NEW lines, Priced(lines), NEW off \in 0 .. T!SumOf(lines, "total"),
           T!SumOf(lines, "total") # 0
    PROVE  /\ NetOf(lines, off) = T!SumOf(lines, "total") - off
           /\ \A n \in DOMAIN lines :
                 /\ FloorsOf(lines, off)[n] \in Nat
                 /\ RestsOf(lines, off)[n] \in 0 .. T!SumOf(lines, "total") - 1
                 /\ lines[n].total * NetOf(lines, off)
                      = T!SumOf(lines, "total") * FloorsOf(lines, off)[n]
                          + RestsOf(lines, off)[n]
           /\ LeftOf(lines, off)
                 \in 0 .. Cardinality({n \in DOMAIN lines : RestsOf(lines, off)[n] > 0})
<1> PICK S, w, sub, net : /\ S = DOMAIN lines /\ w = FieldOf(lines, "total")
                          /\ sub = T!SumOf(lines, "total") /\ net = NetOf(lines, off)
  OBVIOUS
<1> PICK F, R, left : /\ F = FloorsOf(lines, off) /\ R = RestsOf(lines, off)
                      /\ left = LeftOf(lines, off)
  OBVIOUS
<1>1. /\ IsFiniteSet(S) /\ sub \in Nat /\ sub = Total(w, S)
      /\ \A n \in S : w[n] \in Nat /\ w[n] = lines[n].total
  BY SumOfTotals DEF Priced, FieldOf
<1>2. net = sub - off /\ net \in Nat /\ sub \in Nat \ {0}
  <2>1. off \in 0 .. sub /\ sub # 0
    OBVIOUS
  <2>2. off \in Nat /\ sub >= off /\ sub \in Nat \ {0}
    BY <1>1, <2>1
  <2>3. T!Max({sub - off, 0}) \in Nat /\ T!Max({sub - off, 0}) = sub - off
    BY <2>2, SmallerIsIn
  <2>4. net = T!Max({sub - off, 0})
    BY Zenon DEF NetOf
  <2> QED
    BY <2>2, <2>3, <2>4
<1>3. ASSUME NEW n \in S
      PROVE  /\ F[n] \in Nat /\ R[n] \in 0 .. sub - 1
             /\ w[n] * net = sub * F[n] + R[n]
  <2>1. F[n] = (w[n] * net) \div sub /\ R[n] = (w[n] * net) % sub
    BY <1>1 DEF FloorsOf, RestsOf
  <2> PICK m : m = w[n] * net
    OBVIOUS
  <2>2. m \in Nat /\ sub \in Nat \ {0}
    BY <1>1, <1>2
  <2>3. Divides(m, sub, m \div sub, m % sub)
    BY <2>2, Division
  <2>4. Divides(m, sub, F[n], R[n])
    BY <2>1, <2>3
  <2> QED
    BY <2>4 DEF Divides
<1>4. left = net - Total(F, S)
  BY <1>1, LeftIsTheRest
<1> PICK v1, v2 : v1 = [n \in S |-> sub * F[n]] /\ v2 = [n \in S |-> net * w[n]]
  OBVIOUS
<1>5. /\ \A n \in S : v1[n] \in Int /\ v2[n] \in Int /\ R[n] \in Int /\ F[n] \in Int
                         /\ w[n] \in Int
      /\ \A n \in S : v1[n] = sub * F[n]
      /\ \A n \in S : v2[n] = net * w[n]
  BY <1>1, <1>2, <1>3
<1>6. \A n \in S : v2[n] = v1[n] + R[n]
  <2>1. \A i, j \in Int : i * j = j * i
    OBVIOUS
  <2> QED
    BY <2>1, <1>1, <1>2, <1>3, <1>5
<1>7. Scales(v1, F, sub, S) /\ Scales(v2, w, net, S)
  BY <1>1, <1>2, <1>5, TotalScales
<1>8. Adds(v2, v1, R, S)
  BY <1>1, <1>5, <1>6, TotalAdds
<1>9. Total(F, S) \in Int /\ Total(R, S) \in Int
  BY <1>1, <1>5, TotalSplits DEF AnyOrder
<1>10. net * sub = sub * Total(F, S) + Total(R, S)
  BY <1>1, <1>7, <1>8 DEF Scales, Adds
<1>11. sub * left = Total(R, S)
  <2>1. \A i, j, k \in Int : i * (j - k) = j * i - i * k
    OBVIOUS
  <2>2. sub * left = net * sub - sub * Total(F, S)
    BY <2>1, <1>2, <1>4, <1>9
  <2>3. sub * Total(F, S) \in Int
    BY <1>2, <1>9
  <2> QED
    BY <2>2, <2>3, <1>10, <1>9
<1> PICK pos, v3, Cut : /\ pos = [n \in S |-> IF R[n] > 0 THEN 1 ELSE 0]
                      /\ v3 = [n \in S |-> sub * pos[n]]
                      /\ Cut = {n \in S : R[n] > 0}
  OBVIOUS
<1>12. /\ \A n \in S : pos[n] \in {0, 1} /\ (pos[n] = 1 <=> R[n] > 0)
       /\ \A n \in S : pos[n] \in Int
       /\ \A n \in S : v3[n] = sub * pos[n]
  OBVIOUS
<1>13. \A n \in S : v3[n] \in Int /\ R[n] <= v3[n]
  BY <1>2, <1>3, <1>12
<1>14. {n \in S : pos[n] = 1} = Cut
  BY <1>12
<1>15. Total(pos, S) = Cardinality(Cut)
  BY <1>1, <1>12, <1>14, TotalCounts DEF Counts
<1>16. Total(v3, S) = sub * Cardinality(Cut)
  BY <1>1, <1>2, <1>12, <1>15, TotalScales DEF Scales
<1>17. Total(R, S) <= sub * Cardinality(Cut)
  BY <1>1, <1>5, <1>13, <1>16, TotalAtMost DEF AtMost
<1>18. Total(R, S) \in Nat /\ Cardinality(Cut) \in Nat
  BY <1>1, <1>3, TotalNonNegative, FS_Subset, FS_CardinalityType
<1>19. left \in Int
  BY <1>2, <1>4, <1>9
<1>20. left \in 0 .. Cardinality(Cut)
  <2>1. \A a \in Nat \ {0}, x \in Int : 0 <= a * x => 0 <= x
    OBVIOUS
  <2>2. \A a \in Nat \ {0}, x, y \in Int : a * x <= a * y => x <= y
    OBVIOUS
  <2>3. 0 <= left
    BY <2>1, <1>2, <1>11, <1>18, <1>19
  <2>4. left <= Cardinality(Cut)
    BY <2>2, <1>2, <1>11, <1>17, <1>18, <1>19
  <2> QED
    BY <2>3, <2>4, <1>19
<1> QED
  BY <1>1, <1>2, <1>3, <1>20

\* The spread values add up to the net amount, and no line gets more than it costs.
LEMMA SharesAddUp ==
    ASSUME NEW lines, Priced(lines), NEW off \in 0 .. T!SumOf(lines, "total")
    PROVE  /\ Total(SharesOf(lines, off), DOMAIN lines) = T!SumOf(lines, "total") - off
           /\ \A n \in DOMAIN lines : SharesOf(lines, off)[n] \in 0 .. lines[n].total
<1> PICK S, sub, h : /\ S = DOMAIN lines /\ sub = T!SumOf(lines, "total")
                     /\ h = SharesOf(lines, off)
  OBVIOUS
<1>1. /\ IsFiniteSet(S) /\ sub \in Nat
      /\ \A n \in S : lines[n].total \in Nat
      /\ sub = 0 => \A n \in S : lines[n].total = 0
  BY SumOfTotals DEF Priced
<1>2. CASE sub = 0
  <2>1. \A n \in S : h[n] = 0
    BY <1>2 DEF SharesOf
  <2>2. Total(h, S) = 0
    BY <2>1, <1>1, TotalOfZeroes
  <2> QED
    BY <2>1, <2>2, <1>1, <1>2
<1>3. CASE sub # 0
  <2> PICK F, R, B, left, net :
          /\ F = FloorsOf(lines, off) /\ R = RestsOf(lines, off) /\ B = AheadOf(lines, off)
          /\ left = LeftOf(lines, off) /\ net = NetOf(lines, off)
    OBVIOUS
  <2> PICK Cut, First : /\ Cut = {n \in S : R[n] > 0}
                        /\ First = {n \in S : Cardinality(B[n]) < left}
    OBVIOUS
  <2>1. /\ net = sub - off /\ left \in 0 .. Cardinality(Cut)
        /\ \A n \in S : /\ F[n] \in Nat /\ R[n] \in 0 .. sub - 1
                        /\ lines[n].total * net = sub * F[n] + R[n]
    BY <1>3, FewCentsAreLeft
  <2>2. Cut \subseteq S /\ Cardinality(Cut) <= Cardinality(S) /\ IsFiniteSet(Cut)
        /\ Cardinality(S) \in Nat /\ Cardinality(Cut) \in Nat
    BY <1>1, FS_Subset, FS_CardinalityType
  <2>3. Cardinality(First) = left
    <3>1. left \in 0 .. Cardinality(S)
      BY <2>1, <2>2
    <3>2. \A n \in S : R[n] \in Int
      BY <2>1, <1>1
    <3> QED
      BY <3>1, <3>2, LinesAreRanked
  <2> PICK bump : bump = [n \in S |-> IF Cardinality(B[n]) < left THEN 1 ELSE 0]
    OBVIOUS
  <2>4. /\ \A n \in S : bump[n] \in {0, 1} /\ (bump[n] = 1 <=> n \in First)
        /\ {n \in S : bump[n] = 1} = First
    OBVIOUS
  <2>5. Total(bump, S) = left
    BY <1>1, <2>3, <2>4, TotalCounts DEF Counts
  <2>6. \A s : T!Cardinality(s) = Cardinality(s)
    BY DEF T!Cardinality, Cardinality
  <2>7. \A n \in S : h[n] = F[n] + bump[n]
    BY <1>3, <2>6 DEF SharesOf
  <2>8. Adds(h, F, bump, S)
    BY <1>1, <2>1, <2>4, <2>7, TotalAdds
  <2>9. left = net - Total(F, S) /\ Total(F, S) \in Int
    <3>1. Total(F, S) \in Nat
      BY <1>1, <2>1, TotalNonNegative
    <3> QED
      BY <3>1, <1>1, LeftIsTheRest
  <2>10. Total(h, S) = net
    <3>1. Total(h, S) = Total(F, S) + left
      BY <2>5, <2>8 DEF Adds
    <3> QED
      BY <3>1, <2>1, <2>9, <1>1
  <2>11. ASSUME NEW n \in S PROVE h[n] \in 0 .. lines[n].total
    <3> PICK t, f, r : t = lines[n].total /\ f = F[n] /\ r = R[n]
      OBVIOUS
    <3>1. t \in Nat /\ f \in Nat /\ r \in 0 .. sub - 1 /\ t * net = sub * f + r
          /\ net \in 0 .. sub /\ sub \in Nat \ {0}
      BY <1>1, <1>3, <2>1
    <3>2. t * net <= sub * t
      <4>1. \A i, j, k \in Nat : j <= k => i * j <= k * i
        OBVIOUS
      <4> QED
        BY <4>1, <3>1
    <3>3. sub * f \in Nat /\ sub * t \in Nat
      <4>1. \A i, j \in Nat : i * j \in Nat
        OBVIOUS
      <4> QED
        BY <4>1, <3>1
    <3>4. CASE r = 0
      <4>1. \A a \in Nat \ {0}, x, y \in Int : a * x <= a * y => x <= y
        OBVIOUS
      <4>2. sub * f <= sub * t
        BY <3>1, <3>2, <3>3, <3>4
      <4>3. f <= t
        BY <4>1, <4>2, <3>1
      <4>4. Cut \subseteq B[n]
        <5>1. \A m \in Cut : R[m] > R[n]
          BY <3>4, <2>1, <1>1
        <5> QED
          BY <5>1, <2>2 DEF AheadOf
      <4>5. IsFiniteSet(B[n]) /\ Cardinality(B[n]) \in Nat
        <5>1. B[n] \subseteq S
          BY DEF AheadOf
        <5> QED
          BY <5>1, <1>1, FS_Subset, FS_CardinalityType
      <4>6. Cardinality(Cut) <= Cardinality(B[n])
        BY <4>4, <4>5, FS_Subset
      <4>7. bump[n] = 0
        BY <4>5, <4>6, <2>1, <2>2
      <4>8. h[n] = f
        BY <4>7, <3>1, <2>7
      <4> QED
        BY <4>3, <4>8, <3>1
    <3>5. CASE r > 0
      <4>1. \A a \in Nat \ {0}, x, y \in Int : a * x < a * y => x < y
        OBVIOUS
      <4>2. sub * f < sub * t
        BY <3>1, <3>2, <3>3, <3>5
      <4>3. f < t
        BY <4>1, <4>2, <3>1
      <4>4. h[n] = f \/ h[n] = f + 1
        BY <2>4, <2>7, <3>1
      <4> QED
        BY <4>3, <4>4, <3>1
    <3> QED
      BY <3>1, <3>4, <3>5
  <2> QED
    BY <2>1, <2>10, <2>11
<1> QED
  BY <1>2, <1>3

\* The rows of a document.
LineRow == [quantity : Nat, price : Nat, treatment : T!Treatments,
            total : Nat, tax : Nat, taxable : Int]

Lines == UNION {[1 .. k -> LineRow] : k \in Nat}

DocRow == [kind : {"none", "invoice", "quote", "order", "expense"},
           status : {"draft", "sent", "approved"}, date : 0 .. T!Always,
           lines : Lines, discount : AnyDiscount, on : BOOLEAN, rate : AnyRate,
           subtotal : Nat, tax : Nat, total : Int]

\* What lines are built of: a request's items, or the lines of another document.
BasketOK(basket) ==
    \E k \in Nat :
        /\ DOMAIN basket = 1 .. k
        /\ \A n \in 1 .. k : /\ basket[n].quantity \in Nat /\ basket[n].price \in Nat
                             /\ basket[n].treatment \in T!Treatments

\* The total of every line is the product it stands for.
LinesPriced(lines) ==
    \A n \in DOMAIN lines :
        lines[n].total = T!HalfUp(lines[n].quantity * lines[n].price, 100)

\* Lines can be spread over.
LEMMA LinesAreRows ==
    ASSUME NEW lines \in Lines
    PROVE  /\ Priced(lines) /\ BasketOK(lines) /\ IsFiniteSet(DOMAIN lines)
           /\ \A n \in DOMAIN lines : lines[n] \in LineRow
<1> PICK k \in Nat : lines \in [1 .. k -> LineRow]
  BY DEF Lines
<1>1. DOMAIN lines = 1 .. k /\ \A n \in 1 .. k : lines[n] \in LineRow
  OBVIOUS
<1>2. \A r \in LineRow : /\ r.total \in Nat /\ r.quantity \in Nat /\ r.price \in Nat
                         /\ r.treatment \in T!Treatments
  BY DEF LineRow
<1>3. IsFiniteSet(1 .. k)
  BY FS_Interval
<1> QED
  BY <1>1, <1>2, <1>3 DEF Priced, BasketOK

\* Every treatment has a rate; lines without tax are in order on every day.
LEMMA RatesAreNumbers ==
    ASSUME NEW t \in T!Treatments PROVE T!TaxRate(t) \in Nat
<1>1. \A r \in T!TaxRules : r.rate \in Nat
  BY DEF T!TaxRules, T!Rule
<1>2. \E r \in T!TaxRules : r.treatment = t
  BY DEF T!Treatments
<1>3. (CHOOSE r \in T!TaxRules : r.treatment = t) \in T!TaxRules
  BY <1>2
<1> QED
  BY <1>1, <1>3 DEF T!TaxRate

\* The treatment without tax is always in force, and free.
LEMMA NoTaxIsFree ==
    /\ "no_tax" \in T!Treatments /\ T!TaxRate("no_tax") = 0
    /\ \A day \in 0 .. T!Always : T!EffectiveOn("no_tax", day)
    /\ \A n \in Nat : T!HalfUp(n * 0, 100) = 0
<1> PICK free : free = T!Rule("no_tax", 0, 0, T!Always)
  OBVIOUS
<1>1. free \in T!TaxRules /\ free.treatment = "no_tax" /\ free.rate = 0
         /\ free.from = 0 /\ free.to = T!Always
  BY DEF T!TaxRules, T!Rule
<1>2. \A r \in T!TaxRules : r.treatment = "no_tax" => r.rate = 0
  BY DEF T!TaxRules, T!Rule
<1>3. (CHOOSE r \in T!TaxRules : r.treatment = "no_tax") \in
         {r \in T!TaxRules : r.treatment = "no_tax"}
  BY <1>1
<1>4. T!TaxRate("no_tax") = 0
  BY <1>2, <1>3 DEF T!TaxRate
<1>5. "no_tax" \in T!Treatments
  BY <1>1 DEF T!Treatments
<1>6. \A day \in 0 .. T!Always : T!EffectiveOn("no_tax", day)
  BY <1>1 DEF T!EffectiveOn
<1>7. \A n \in Nat : n * 0 = 0
  OBVIOUS
<1>8. T!HalfUp(0, 100) = 0
  BY DEF T!HalfUp
<1> QED
  BY <1>4, <1>5, <1>6, <1>7, <1>8

\* A price and a tax are numbers of cents.
LEMMA MoneyIsNat == \A i, j \in Nat : T!HalfUp(i * j, 100) \in Nat
<1> SUFFICES ASSUME NEW i \in Nat, NEW j \in Nat PROVE T!HalfUp(i * j, 100) \in Nat
  OBVIOUS
<1> PICK m : m = i * j
  OBVIOUS
<1>1. m \in Nat
  OBVIOUS
<1>2. T!HalfUp(m, 100) \in Nat
  BY <1>1, HalfUpIsNat
<1> QED
  BY <1>2

(* What the three ways to work on lines make of them *)
BuiltFrom(lines, basket) ==
    /\ lines \in Lines /\ DOMAIN lines = DOMAIN basket /\ LinesPriced(lines)
    /\ \A n \in DOMAIN basket :
          /\ lines[n].quantity = basket[n].quantity /\ lines[n].price = basket[n].price
          /\ lines[n].treatment = basket[n].treatment
          /\ lines[n].tax = T!HalfUp(lines[n].total * T!TaxRate(lines[n].treatment), 100)

\* Building lines prices and taxes each of them.
LEMMA BuildIs ==
    ASSUME NEW basket, BasketOK(basket)
    PROVE  BuiltFrom(T!Build(basket), basket)
<1> PICK k \in Nat :
        /\ DOMAIN basket = 1 .. k
        /\ \A n \in 1 .. k : /\ basket[n].quantity \in Nat /\ basket[n].price \in Nat
                             /\ basket[n].treatment \in T!Treatments
  BY DEF BasketOK
<1> PICK new : new = T!Build(basket)
  OBVIOUS
<1>1. new = [n \in 1 .. k |-> T!Line(basket[n])]
  BY DEF T!Build
<1>2. ASSUME NEW n \in 1 .. k
      PROVE  /\ new[n] \in LineRow
             /\ new[n].quantity = basket[n].quantity /\ new[n].price = basket[n].price
             /\ new[n].treatment = basket[n].treatment
             /\ new[n].total = T!HalfUp(new[n].quantity * new[n].price, 100)
             /\ new[n].tax = T!HalfUp(new[n].total * T!TaxRate(new[n].treatment), 100)
  <2> PICK b, total : b = basket[n] /\ total = T!HalfUp(b.quantity * b.price, 100)
    OBVIOUS
  <2> PICK tax : tax = T!HalfUp(total * T!TaxRate(b.treatment), 100)
    OBVIOUS
  <2>1. b.quantity \in Nat /\ b.price \in Nat /\ b.treatment \in T!Treatments
    OBVIOUS
  <2>2. total \in Nat
    BY <2>1, MoneyIsNat
  <2>3. tax \in Nat
    BY <2>1, <2>2, MoneyIsNat, RatesAreNumbers
  <2>4. new[n] = [quantity |-> b.quantity, price |-> b.price, treatment |-> b.treatment,
                  total |-> total, tax |-> tax, taxable |-> -1]
    BY <1>1 DEF T!Line, T!Unallocated
  <2>5. -1 \in Int
    OBVIOUS
  <2> QED
    BY <2>1, <2>2, <2>3, <2>4, <2>5 DEF LineRow
<1>3. new \in [1 .. k -> LineRow] /\ DOMAIN new = 1 .. k
  BY <1>1, <1>2
<1>4. new \in Lines
  BY <1>3 DEF Lines
<1> QED
  BY <1>2, <1>3, <1>4 DEF BuiltFrom, LinesPriced

\* A row stays one.
LEMMA UntaxedRow ==
    ASSUME NEW r \in LineRow, NEW t \in T!Treatments, NEW tax \in Nat, NEW taxable \in Int
    PROVE  [r EXCEPT !.treatment = t, !.tax = tax, !.taxable = taxable] \in LineRow
BY DEF LineRow

\* A line given its share and its tax.
LEMMA TaxedRow ==
    ASSUME NEW r \in LineRow, NEW tax \in Nat, NEW taxable \in Int
    PROVE  [r EXCEPT !.taxable = taxable, !.tax = tax] \in LineRow
BY DEF LineRow

NeutralFrom(new, lines) ==
    /\ new \in Lines /\ DOMAIN new = DOMAIN lines
    /\ \A n \in DOMAIN lines :
          /\ new[n].quantity = lines[n].quantity /\ new[n].price = lines[n].price
          /\ new[n].total = lines[n].total
          /\ new[n].treatment = "no_tax" /\ new[n].tax = 0

\* Neutralising lines keeps their prices and takes their tax.
LEMMA NeutralIs ==
    ASSUME NEW lines \in Lines
    PROVE  NeutralFrom(T!Neutral(lines), lines)
<1> PICK k \in Nat : lines \in [1 .. k -> LineRow]
  BY DEF Lines
<1> PICK new : new = T!Neutral(lines)
  OBVIOUS
<1>1. new = [n \in 1 .. k |-> [lines[n] EXCEPT !.treatment = "no_tax", !.tax = 0,
                                               !.taxable = -1]]
  BY DEF T!Neutral, T!Unallocated
<1>2. ASSUME NEW n \in 1 .. k
      PROVE  /\ new[n] \in LineRow
             /\ new[n].quantity = lines[n].quantity /\ new[n].price = lines[n].price
             /\ new[n].total = lines[n].total
             /\ new[n].treatment = "no_tax" /\ new[n].tax = 0
  <2> PICK r : r = lines[n]
    OBVIOUS
  <2>1. /\ r \in LineRow /\ "no_tax" \in T!Treatments /\ -1 \in Int
        /\ r.quantity \in Nat /\ r.price \in Nat /\ r.total \in Nat
    BY NoTaxIsFree DEF LineRow
  <2>2. new[n] = [r EXCEPT !.treatment = "no_tax", !.tax = 0, !.taxable = -1]
    BY <1>1
  <2>3. new[n] \in [quantity : {r.quantity}, price : {r.price}, treatment : {"no_tax"},
                    total : {r.total}, tax : {0}, taxable : {-1}]
    BY <2>1, <2>2 DEF LineRow
  <2>4. new[n] \in LineRow
    <3>1. 0 \in Nat
      OBVIOUS
    <3>2. [r EXCEPT !.treatment = "no_tax", !.tax = 0, !.taxable = -1] \in LineRow
      BY <3>1, <2>1, UntaxedRow
    <3> QED
      BY <3>2, <2>2, Zenon
  <2> QED
    BY <2>3, <2>4
<1>3. new \in [1 .. k -> LineRow] /\ DOMAIN new = 1 .. k /\ DOMAIN lines = 1 .. k
  BY <1>1, <1>2
<1>4. new \in Lines
  BY <1>3 DEF Lines
<1> QED
  BY <1>2, <1>3, <1>4 DEF NeutralFrom

SpreadFrom(new, lines, off) ==
    /\ new \in Lines /\ DOMAIN new = DOMAIN lines
    /\ \A n \in DOMAIN lines :
          /\ new[n].quantity = lines[n].quantity /\ new[n].price = lines[n].price
          /\ new[n].total = lines[n].total /\ new[n].treatment = lines[n].treatment
          /\ new[n].taxable = SharesOf(lines, off)[n]
          /\ new[n].tax = T!HalfUp(new[n].taxable * T!TaxRate(new[n].treatment), 100)

\* Spreading keeps the prices and taxes the shares.
LEMMA SpreadIs ==
    ASSUME NEW lines \in Lines, NEW off \in 0 .. T!SumOf(lines, "total")
    PROVE  SpreadFrom(T!Allocated(lines, off), lines, off)
<1> PICK k \in Nat : lines \in [1 .. k -> LineRow]
  BY DEF Lines
<1> PICK new, h : new = T!Allocated(lines, off) /\ h = SharesOf(lines, off)
  OBVIOUS
<1>1. DOMAIN lines = 1 .. k /\ \A n \in 1 .. k : lines[n] \in LineRow
  OBVIOUS
<1>2. new = [n \in 1 .. k |->
               [lines[n] EXCEPT !.taxable = h[n],
                                !.tax = T!HalfUp(h[n] * T!TaxRate(lines[n].treatment), 100)]]
  BY <1>1, AllocatedLines
<1>3. ASSUME NEW n \in 1 .. k
      PROVE  /\ new[n] \in LineRow
             /\ new[n].quantity = lines[n].quantity /\ new[n].price = lines[n].price
             /\ new[n].total = lines[n].total /\ new[n].treatment = lines[n].treatment
             /\ new[n].taxable = h[n]
             /\ new[n].tax = T!HalfUp(new[n].taxable * T!TaxRate(new[n].treatment), 100)
  <2> PICK r, tax : /\ r = lines[n]
                    /\ tax = T!HalfUp(h[n] * T!TaxRate(lines[n].treatment), 100)
    OBVIOUS
  <2>1. /\ r \in LineRow /\ r.treatment \in T!Treatments /\ r.total \in Nat
        /\ r.quantity \in Nat /\ r.price \in Nat
    BY <1>1 DEF LineRow
  <2>2. h[n] \in Nat
    <3>1. Priced(lines)
      BY LinesAreRows
    <3>2. h[n] \in 0 .. lines[n].total
      BY <3>1, <1>1, SharesAddUp
    <3> QED
      BY <3>2, <2>1
  <2>3. tax \in Nat
    BY <2>1, <2>2, MoneyIsNat, RatesAreNumbers
  <2>4. new[n] = [r EXCEPT !.taxable = h[n], !.tax = tax]
    BY <1>2
  <2>5. new[n] \in [quantity : {r.quantity}, price : {r.price}, treatment : {r.treatment},
                    total : {r.total}, tax : {tax}, taxable : {h[n]}]
    BY <2>1, <2>4 DEF LineRow
  <2>6. new[n] \in LineRow
    <3>1. h[n] \in Int
      BY <2>2
    <3>2. [r EXCEPT !.taxable = h[n], !.tax = tax] \in LineRow
      BY <3>1, <2>1, <2>3, TaxedRow
    <3> QED
      BY <3>2, <2>4, Zenon
  <2> QED
    BY <2>5, <2>6
<1>4. new \in [1 .. k -> LineRow] /\ DOMAIN new = 1 .. k
  BY <1>2, <1>3
<1>5. new \in Lines
  BY <1>4 DEF Lines
<1> QED
  BY <1>1, <1>3, <1>4, <1>5 DEF SpreadFrom

\* Equal columns have equal sums.
LEMMA SumsOfEqualFields ==
    ASSUME NEW a \in Lines, NEW b \in Lines, NEW field, DOMAIN a = DOMAIN b,
           \A n \in DOMAIN a : a[n][field] = b[n][field]
    PROVE  T!SumOf(a, field) = T!SumOf(b, field)
<1>1. IsFiniteSet(DOMAIN a)
  BY LinesAreRows
<1>2. \A n \in DOMAIN a : FieldOf(a, field)[n] = FieldOf(b, field)[n]
  BY DEF FieldOf
<1>3. Total(FieldOf(a, field), DOMAIN a) = Total(FieldOf(b, field), DOMAIN a)
  BY <1>1, <1>2, TotalCongruence
<1> QED
  BY <1>1, <1>3, SumOfIsTotal

\* A column of numbers adds up to a number, and one of zeroes to zero.
LEMMA SumOfTaxes ==
    ASSUME NEW lines \in Lines
    PROVE  /\ T!SumOf(lines, "tax") \in Nat
           /\ (\A n \in DOMAIN lines : lines[n].tax = 0) => T!SumOf(lines, "tax") = 0
<1> PICK S, w : S = DOMAIN lines /\ w = FieldOf(lines, "tax")
  OBVIOUS
<1>1. IsFiniteSet(S) /\ \A n \in S : lines[n] \in LineRow
  BY LinesAreRows
<1>2. \A n \in S : w[n] \in Nat /\ w[n] = lines[n].tax
  BY <1>1 DEF FieldOf, LineRow
<1>3. T!SumOf(lines, "tax") = Total(w, S)
  BY <1>1, SumOfIsTotal
<1>4. Total(w, S) \in Nat
  BY <1>1, <1>2, TotalNonNegative
<1>5. (\A n \in S : w[n] = 0) => Total(w, S) = 0
  BY <1>1, TotalOfZeroes
<1> QED
  BY <1>2, <1>3, <1>4, <1>5

\* What the discount takes off a document.
ValueOf(d) == T!DiscountOn(d.subtotal, d.discount)

\* A document whose lines and subtotal are in order, taxed or not.
Drafted(d) ==
    /\ d \in DocRow
    /\ LinesPriced(d.lines)
    /\ d.subtotal = T!SumOf(d.lines, "total")
    /\ T!AllEffectiveOn(d.lines, d.date)
    /\ d.kind \in {"order", "expense"} => d.discount = T!NoDiscount
    /\ d.kind = "expense" => d.on = FALSE
    /\ d.on = TRUE => d.rate # T!NoRate

\* The total is the sum of its parts.
Totaled(d) ==
    /\ d.total = d.subtotal - ValueOf(d) + d.tax
    /\ d.on = TRUE => d.tax = T!Vat(d.subtotal - ValueOf(d), d.rate)
    /\ d.on = FALSE => d.tax = T!SumOf(d.lines, "tax")

\* An invoice that is taxed by line.
TaxedByShare(d) == d.kind = "invoice" /\ d.on = FALSE

\* Every line has the tax its document calls for: none, on its total, on its share.
LinesTaxed(d) ==
    /\ d.kind = "order" \/ d.on = TRUE =>
          \A n \in DOMAIN d.lines : d.lines[n].treatment = "no_tax" /\ d.lines[n].tax = 0
    /\ d.kind \notin {"order", "invoice"} /\ d.on = FALSE =>
          \A n \in DOMAIN d.lines :
              d.lines[n].tax
                = T!HalfUp(d.lines[n].total * T!TaxRate(d.lines[n].treatment), 100)
    /\ TaxedByShare(d) =>
          \A n \in DOMAIN d.lines :
              /\ d.lines[n].taxable = SharesOf(d.lines, ValueOf(d))[n]
              /\ d.lines[n].tax
                   = T!HalfUp(d.lines[n].taxable * T!TaxRate(d.lines[n].treatment), 100)

\* A document in order.
DocOK(d) == Drafted(d) /\ Totaled(d) /\ LinesTaxed(d)

\* The discount of a document is within its subtotal.
LEMMA ValueIsWithin ==
    ASSUME NEW d, Drafted(d)
    PROVE  /\ ValueOf(d) \in 0 .. d.subtotal /\ ValueOf(d) \in 0 .. T!SumOf(d.lines, "total")
           /\ d.subtotal \in Nat /\ d.lines \in Lines
<1>1. d.subtotal \in Nat /\ d.discount \in AnyDiscount /\ d.lines \in Lines
  BY DEF Drafted, DocRow
<1>2. ValueOf(d) \in 0 .. d.subtotal
  BY <1>1, DiscountIsWithin DEF ValueOf
<1> QED
  BY <1>1, <1>2 DEF Drafted

\* Lines, tax and total replaced.
LEMMA ReconciledRow ==
    ASSUME NEW d \in DocRow, NEW lines \in Lines, NEW tax \in Nat, NEW total \in Int
    PROVE  [d EXCEPT !.lines = lines, !.tax = tax, !.total = total] \in DocRow
BY DEF DocRow

\* What _reconcile_line_tax leaves is in order.
LEMMA ReconciledOK ==
    ASSUME NEW d, Drafted(d), d.kind \in {"invoice", "quote"},
           TaxedByShare(d) => d.status = "draft",
           ~TaxedByShare(d) => Totaled(d) /\ LinesTaxed(d)
    PROVE  DocOK(T!Reconciled(d))
<1>1. d \in DocRow /\ d.on \in BOOLEAN
  BY DEF Drafted, DocRow
<1>2. CASE ~TaxedByShare(d)
  <2>1. d.kind # "invoice" \/ d.on = TRUE
    BY <1>1, <1>2 DEF TaxedByShare
  <2>2. T!Reconciled(d) = d
    BY <2>1 DEF T!Reconciled
  <2> QED
    BY <1>2, <2>2 DEF DocOK
<1>3. CASE TaxedByShare(d)
  <2> PICK v, new : v = ValueOf(d) /\ new = T!Allocated(d.lines, v)
    OBVIOUS
  <2> PICK tax, total : tax = T!SumOf(new, "tax") /\ total = d.subtotal - v + tax
    OBVIOUS
  <2> PICK e : e = [d EXCEPT !.lines = new, !.tax = tax, !.total = total]
    OBVIOUS
  <2>1. T!Reconciled(d) = e
    BY <1>3 DEF T!Reconciled, ValueOf, TaxedByShare
  <2>2. /\ v \in 0 .. d.subtotal /\ v \in 0 .. T!SumOf(d.lines, "total")
        /\ d.subtotal \in Nat /\ d.lines \in Lines
    BY ValueIsWithin
  <2>3. SpreadFrom(new, d.lines, v)
    BY <2>2, SpreadIs
  <2>4. new \in Lines /\ tax \in Nat /\ total \in Int
    <3>1. new \in Lines
      BY <2>3 DEF SpreadFrom
    <3>2. tax \in Nat
      BY <3>1, SumOfTaxes
    <3> QED
      BY <3>1, <3>2, <2>2
  <2>5. e \in DocRow
    BY <1>1, <2>4, ReconciledRow
  <2>6. /\ e.lines = new /\ e.tax = tax /\ e.total = total /\ e.kind = d.kind /\ e.on = d.on
        /\ e.subtotal = d.subtotal /\ e.discount = d.discount /\ e.date = d.date
        /\ e.rate = d.rate
    BY <1>1 DEF DocRow
  <2>7. ValueOf(e) = v
    BY <2>6 DEF ValueOf
  <2>8. T!SumOf(new, "total") = T!SumOf(d.lines, "total")
    BY <2>2, <2>3, SumsOfEqualFields DEF SpreadFrom
  <2>9. Drafted(e)
    <3>1. LinesPriced(new)
      BY <2>3 DEF SpreadFrom, LinesPriced, Drafted
    <3>2. T!AllEffectiveOn(new, d.date)
      BY <2>3 DEF SpreadFrom, T!AllEffectiveOn, Drafted
    <3> QED
      BY <1>3, <2>5, <2>6, <2>8, <3>1, <3>2 DEF Drafted, TaxedByShare
  <2>10. Totaled(e)
    BY <1>3, <2>6, <2>7 DEF Totaled, TaxedByShare
  <2>11. LinesTaxed(e)
    <3>1. SharesOf(new, v) = SharesOf(d.lines, v)
      <4>1. /\ IsFiniteSet(DOMAIN new) /\ DOMAIN new = DOMAIN d.lines
            /\ \A n \in DOMAIN new : new[n].total = d.lines[n].total
        BY <2>3, LinesAreRows DEF SpreadFrom
      <4> QED
        BY <4>1, SharesAgree
    <3>2. \A n \in DOMAIN new :
              /\ new[n].taxable = SharesOf(new, v)[n]
              /\ new[n].tax = T!HalfUp(new[n].taxable * T!TaxRate(new[n].treatment), 100)
      BY <2>3, <3>1 DEF SpreadFrom
    <3> QED
      BY <1>3, <3>2, <2>6, <2>7 DEF LinesTaxed, TaxedByShare
  <2> QED
    BY <2>1, <2>9, <2>10, <2>11 DEF DocOK
<1> QED
  BY <1>2, <1>3

\* Neither its terms nor its status change.
LEMMA ReconciledKeeps ==
    ASSUME NEW d \in DocRow
    PROVE  LET e == T!Reconciled(d) IN
           /\ e.discount = d.discount /\ e.rate = d.rate /\ e.status = d.status
           /\ e.kind = d.kind
BY DEF T!Reconciled, DocRow

\* A document in order is shown by the preview as it was saved.
LEMMA OKIsPreviewed ==
    ASSUME NEW d, DocOK(d)
    PROVE  T!Preview(d) = <<d.subtotal, d.tax, d.total>>
<1>1. d \in DocRow /\ d.on \in BOOLEAN /\ d.lines \in Lines /\ BasketOK(d.lines)
         /\ d.kind \in {"none", "invoice", "quote", "order", "expense"}
  <2>1. d \in DocRow
    BY DEF DocOK, Drafted
  <2> QED
    BY <2>1, LinesAreRows DEF DocRow
<1> PICK v, built : v = ValueOf(d) /\ built = T!Build(d.lines)
  OBVIOUS
<1>2. BuiltFrom(built, d.lines)
  BY <1>1, BuildIs
<1>3. built \in Lines /\ DOMAIN built = DOMAIN d.lines
         /\ \A n \in DOMAIN d.lines : /\ built[n].total = d.lines[n].total
                                      /\ built[n].treatment = d.lines[n].treatment
  BY <1>2 DEF BuiltFrom, LinesPriced, DocOK, Drafted
<1>4. T!SumOf(built, "total") = d.subtotal
  BY <1>1, <1>3, SumsOfEqualFields DEF DocOK, Drafted
<1>5. T!DiscountOn(T!SumOf(built, "total"), d.discount) = v
  BY <1>4 DEF ValueOf
<1> PICK lines : lines = CASE d.kind = "order" \/ d.on -> T!Neutral(built)
                           [] d.kind = "invoice" /\ ~d.on -> T!Allocated(built, v)
                           [] OTHER -> built
  OBVIOUS
<1> PICK tax : tax = IF d.on THEN T!Vat(d.subtotal - v, d.rate) ELSE T!SumOf(lines, "tax")
  OBVIOUS
<1>6. T!Preview(d) = <<d.subtotal, tax, d.subtotal - v + tax>>
  BY <1>4, <1>5 DEF T!Preview
<1>7. CASE d.on = TRUE
  <2>1. tax = d.tax
    BY <1>7 DEF DocOK, Totaled
  <2> QED
    BY <1>6, <2>1 DEF DocOK, Totaled
<1>8. CASE d.on = FALSE
  <2>1. tax = T!SumOf(lines, "tax") /\ d.tax = T!SumOf(d.lines, "tax")
    BY <1>8 DEF DocOK, Totaled
  <2>2. CASE d.kind = "order"
    <3>1. NeutralFrom(lines, built)
      BY <1>3, <2>2, NeutralIs
    <3>2. T!SumOf(lines, "tax") = 0
      BY <3>1, SumOfTaxes DEF NeutralFrom
    <3>3. T!SumOf(d.lines, "tax") = 0
      BY <1>1, <2>2, SumOfTaxes DEF DocOK, LinesTaxed
    <3> QED
      BY <1>6, <2>1, <3>2, <3>3 DEF DocOK, Totaled
  <2>3. CASE d.kind = "invoice"
    <3>1. TaxedByShare(d)
      BY <2>3, <1>8 DEF TaxedByShare
    <3>2. v \in 0 .. T!SumOf(built, "total")
      BY <1>4, ValueIsWithin DEF DocOK
    <3>3. SpreadFrom(lines, built, v)
      BY <1>3, <1>8, <2>3, <3>2, SpreadIs
    <3>4. SharesOf(d.lines, v) = SharesOf(built, v)
      <4>1. IsFiniteSet(DOMAIN d.lines)
        BY <1>1, LinesAreRows
      <4> QED
        BY <4>1, <1>3, SharesAgree
    <3>5. lines \in Lines /\ DOMAIN lines = DOMAIN d.lines
             /\ \A n \in DOMAIN lines : lines[n].tax = d.lines[n].tax
      BY <1>3, <3>1, <3>3, <3>4 DEF SpreadFrom, DocOK, LinesTaxed
    <3>6. T!SumOf(lines, "tax") = T!SumOf(d.lines, "tax")
      BY <1>1, <3>5, SumsOfEqualFields
    <3> QED
      BY <1>6, <2>1, <3>6 DEF DocOK, Totaled
  <2>4. CASE d.kind \notin {"order", "invoice"}
    <3>1. lines = built
      BY <1>8, <2>4
    <3>2. \A n \in DOMAIN built : built[n].tax = d.lines[n].tax
      BY <1>2, <1>3, <1>8, <2>4 DEF BuiltFrom, DocOK, LinesTaxed
    <3>3. T!SumOf(lines, "tax") = T!SumOf(d.lines, "tax")
      BY <1>1, <1>3, <3>1, <3>2, SumsOfEqualFields
    <3> QED
      BY <1>6, <2>1, <3>3 DEF DocOK, Totaled
  <2> QED
    BY <2>2, <2>3, <2>4
<1> QED
  BY <1>1, <1>7, <1>8

\* The taxable values of an invoice add up.
LEMMA OKAddsUp ==
    ASSUME NEW d, DocOK(d), TaxedByShare(d)
    PROVE  /\ T!SumOf(d.lines, "taxable") = d.subtotal - T!DiscountOn(d.subtotal, d.discount)
           /\ \A n \in DOMAIN d.lines : d.lines[n].taxable \in 0 .. d.lines[n].total
<1> PICK v, h, S : v = ValueOf(d) /\ h = SharesOf(d.lines, v) /\ S = DOMAIN d.lines
  OBVIOUS
<1>1. /\ v \in 0 .. T!SumOf(d.lines, "total") /\ d.lines \in Lines
      /\ d.subtotal = T!SumOf(d.lines, "total")
  BY ValueIsWithin DEF DocOK, Drafted
<1>2. Priced(d.lines) /\ IsFiniteSet(S)
  BY <1>1, LinesAreRows
<1>3. Total(h, S) = d.subtotal - v /\ \A n \in S : h[n] \in 0 .. d.lines[n].total
  BY <1>1, <1>2, SharesAddUp
<1>4. \A n \in S : d.lines[n].taxable = h[n]
  BY DEF DocOK, LinesTaxed
<1>5. \A n \in S : FieldOf(d.lines, "taxable")[n] = h[n]
  BY <1>4 DEF FieldOf
<1>6. T!SumOf(d.lines, "taxable") = Total(h, S)
  <2>1. T!SumOf(d.lines, "taxable") = Total(FieldOf(d.lines, "taxable"), S)
    BY <1>2, SumOfIsTotal
  <2>2. Total(FieldOf(d.lines, "taxable"), S) = Total(h, S)
    BY <1>2, <1>5, TotalCongruence
  <2> QED
    BY <2>1, <2>2
<1> QED
  BY <1>3, <1>4, <1>6 DEF ValueOf

\* Lines a document can be saved with on a date.
LinesFit(lines, date) ==
    /\ lines \in Lines /\ LinesPriced(lines) /\ T!AllEffectiveOn(lines, date)
    /\ T!SumOf(lines, "total") \in Nat

\* Any lines have a sum.
LEMMA LinesHaveASum ==
    ASSUME NEW lines \in Lines PROVE T!SumOf(lines, "total") \in Nat
<1>1. Priced(lines)
  BY LinesAreRows
<1> QED
  BY <1>1, SumOfTotals

\* Lines built of items in force are in force.
LEMMA BuiltFits ==
    ASSUME NEW basket, NEW lines, BuiltFrom(lines, basket), NEW date,
           T!AllEffectiveOn(basket, date)
    PROVE  LinesFit(lines, date)
<1>1. lines \in Lines /\ DOMAIN lines = DOMAIN basket /\ LinesPriced(lines)
         /\ \A n \in DOMAIN basket : lines[n].treatment = basket[n].treatment
  BY DEF BuiltFrom
<1>2. T!AllEffectiveOn(lines, date)
  BY <1>1 DEF T!AllEffectiveOn
<1> QED
  BY <1>1, <1>2, LinesHaveASum DEF LinesFit

\* Neutral lines are in force on every date.
LEMMA NeutralFits ==
    ASSUME NEW old, NEW lines, NeutralFrom(lines, old), LinesPriced(old),
           NEW date \in 0 .. T!Always
    PROVE  LinesFit(lines, date)
<1>1. lines \in Lines /\ DOMAIN lines = DOMAIN old
         /\ \A n \in DOMAIN old :
               /\ lines[n].quantity = old[n].quantity /\ lines[n].price = old[n].price
               /\ lines[n].total = old[n].total /\ lines[n].treatment = "no_tax"
  BY DEF NeutralFrom
<1>2. LinesPriced(lines)
  BY <1>1 DEF LinesPriced
<1>3. T!AllEffectiveOn(lines, date)
  BY <1>1, NoTaxIsFree DEF T!AllEffectiveOn
<1> QED
  BY <1>1, <1>2, <1>3, LinesHaveASum DEF LinesFit

\* Lines that bear no tax of their own.
TaxFree(lines) ==
    \A n \in DOMAIN lines : lines[n].treatment = "no_tax" /\ lines[n].tax = 0

\* Lines taxed on their totals.
TaxedOnTotals(lines) ==
    \A n \in DOMAIN lines :
        lines[n].tax = T!HalfUp(lines[n].total * T!TaxRate(lines[n].treatment), 100)

\* No tax is the tax on a total at no rate.
LEMMA TaxFreeIsTaxedOnTotals ==
    ASSUME NEW lines \in Lines, TaxFree(lines)
    PROVE  TaxedOnTotals(lines)
<1>1. \A n \in DOMAIN lines : lines[n].total \in Nat
  BY LinesAreRows DEF LineRow
<1> QED
  BY <1>1, NoTaxIsFree DEF TaxFree, TaxedOnTotals

\* The document's own VAT.
LEMMA VatIsNat ==
    ASSUME NEW s \in Nat, NEW v \in 0 .. s, NEW rate \in AnyRate, rate # T!NoRate
    PROVE  T!Vat(s - v, rate) \in Nat
<1>1. s - v \in Nat /\ rate \in 0 .. T!Whole
  BY DEF AnyRate
<1> PICK base : base = s - v
  OBVIOUS
<1>2. base \in Nat
  BY <1>1
<1>3. T!HalfUp(base * rate, T!Whole) \in 0 .. base
  BY <1>1, <1>2, PercentOf
<1>4. T!Vat(base, rate) \in Nat
  BY <1>2, <1>3 DEF T!Vat
<1> QED
  BY <1>4

\* A document put together from lines and terms.
Figured(kind, status, date, lines, discount, on, rate, tax) ==
    [kind |-> kind, status |-> status, date |-> date, lines |-> lines,
     discount |-> discount, on |-> on, rate |-> rate, subtotal |-> T!SumOf(lines, "total"),
     tax |-> tax, total |-> T!SumOf(lines, "total")
                              - T!DiscountOn(T!SumOf(lines, "total"), discount) + tax]

\* It is as drafted as its lines and terms are.
LEMMA PutTogether ==
    ASSUME NEW kind \in {"invoice", "quote", "order", "expense"},
           NEW status \in {"draft", "sent", "approved"},
           NEW date \in 0 .. T!Always, NEW lines, LinesFit(lines, date),
           NEW discount \in AnyDiscount, NEW on \in BOOLEAN, NEW rate \in AnyRate,
           NEW tax \in Nat,
           kind \in {"order", "expense"} => discount = T!NoDiscount,
           kind = "expense" => on = FALSE, on = TRUE => rate # T!NoRate
    PROVE  Drafted(Figured(kind, status, date, lines, discount, on, rate, tax))
<1> PICK s, v : s = T!SumOf(lines, "total") /\ v = T!DiscountOn(s, discount)
  OBVIOUS
<1> PICK d : d = Figured(kind, status, date, lines, discount, on, rate, tax)
  OBVIOUS
<1>1. s \in Nat /\ lines \in Lines
  BY DEF LinesFit
<1>2. v \in 0 .. s
  BY <1>1, DiscountIsWithin
<1> PICK total : total = s - v + tax
  OBVIOUS
<1>3. total \in Int
  BY <1>1, <1>2
<1>4. d = [kind |-> kind, status |-> status, date |-> date, lines |-> lines,
           discount |-> discount, on |-> on, rate |-> rate, subtotal |-> s, tax |-> tax,
           total |-> total]
  BY DEF Figured
<1>5. d \in DocRow
  BY <1>1, <1>3, <1>4 DEF DocRow
<1>6. /\ d.kind = kind /\ d.lines = lines /\ d.on = on /\ d.subtotal = s
      /\ d.discount = discount /\ d.date = date /\ d.rate = rate
  BY <1>4
<1>7. Drafted(d)
  BY <1>5, <1>6 DEF Drafted, LinesFit
<1> QED
  BY <1>7

\* A document whose lines were just worked out on its totals or stripped of their
\* tax, and whose total was added up, is in order once reconciled.
LEMMA FreshlyOK ==
    ASSUME NEW f, Drafted(f), f.kind \in {"invoice", "quote"},
           f.status = "draft" \/ f.kind = "quote",
           f.total = f.subtotal - ValueOf(f) + f.tax,
           f.on = TRUE => TaxFree(f.lines) /\ f.tax = T!Vat(f.subtotal - ValueOf(f), f.rate),
           f.kind = "quote" /\ f.on = FALSE =>
               TaxedOnTotals(f.lines) /\ f.tax = T!SumOf(f.lines, "tax")
    PROVE  DocOK(T!Reconciled(f))
<1>1. f.on \in BOOLEAN
  BY DEF Drafted, DocRow
<1>2. TaxedByShare(f) => f.status = "draft"
  BY DEF TaxedByShare
<1>3. ~TaxedByShare(f) => Totaled(f) /\ LinesTaxed(f)
  <2>1. CASE f.on = TRUE
    BY <2>1 DEF Totaled, LinesTaxed, TaxFree, TaxedByShare
  <2>2. CASE f.on = FALSE
    BY <2>2 DEF Totaled, LinesTaxed, TaxedOnTotals, TaxedByShare
  <2> QED
    BY <1>1, <2>1, <2>2
<1> QED
  BY <1>2, <1>3, ReconciledOK

\* Whether VAT is charged on a document, and at what rate.
ChargeOK(on, rate) ==
    on \in BOOLEAN /\ rate \in AnyRate /\ (on = TRUE => rate # T!NoRate)

\* Invoices and quotes are in order when they are created.
LEMMA SaleOK ==
    ASSUME NEW kind \in {"invoice", "quote"}, NEW basket, BasketOK(basket),
           NEW discount \in AnyDiscount, NEW on, NEW rate, ChargeOK(on, rate),
           NEW date \in 0 .. T!Always, T!AllEffectiveOn(basket, date), NEW sale,
           sale = T!Sale(kind, basket, discount, on, rate, date)
    PROVE  /\ DocOK(sale) /\ sale.status = "draft"
           /\ sale.discount = discount /\ sale.rate = rate
<1> on \in BOOLEAN /\ rate \in AnyRate /\ (on = TRUE => rate # T!NoRate)
  BY DEF ChargeOK
<1>1. PICK built, lines : /\ built = T!Build(basket)
                          /\ lines = IF on THEN T!Neutral(built) ELSE built
  OBVIOUS
<1>2. PICK s, v : s = T!SumOf(lines, "total") /\ v = T!DiscountOn(s, discount)
  OBVIOUS
<1>3. PICK tax : tax = IF on THEN T!Vat(s - v, rate) ELSE T!SumOf(lines, "tax")
  OBVIOUS
<1>4. PICK d : d = Figured(kind, "draft", date, lines, discount, on, rate, tax)
  OBVIOUS
<1>5. sale = T!Reconciled(d)
  BY <1>1, <1>2, <1>3, <1>4 DEF T!Sale, T!Saved, Figured
<1>6. BuiltFrom(built, basket)
  BY <1>1, BuildIs
<1>7. built \in Lines /\ LinesPriced(built)
  BY <1>6 DEF BuiltFrom
<1>8. /\ LinesFit(lines, date)
      /\ on = TRUE => TaxFree(lines)
      /\ on = FALSE => TaxedOnTotals(lines)
  <2>1. CASE on = TRUE
    <3>1. NeutralFrom(lines, built)
      BY <1>7, <1>1, <2>1, NeutralIs
    <3> QED
      BY <1>7, <2>1, <3>1, NeutralFits DEF NeutralFrom, TaxFree
  <2>2. CASE on = FALSE
    <3>1. BuiltFrom(lines, basket)
      BY <1>6, <1>1, <2>2
    <3> QED
      BY <2>2, <3>1, BuiltFits DEF BuiltFrom, TaxedOnTotals
  <2> QED
    BY <2>1, <2>2
<1>9. s \in Nat /\ v \in 0 .. s /\ lines \in Lines
  <2>1. s \in Nat /\ lines \in Lines
    BY <1>8, <1>2 DEF LinesFit
  <2> QED
    BY <1>2, <2>1, DiscountIsWithin
<1>10. tax \in Nat
  BY <1>9, <1>3, VatIsNat, SumOfTaxes
<1>11. /\ d.kind = kind /\ d.status = "draft" /\ d.lines = lines /\ d.on = on
       /\ d.rate = rate /\ d.tax = tax /\ d.subtotal = s /\ ValueOf(d) = v
       /\ d.total = s - v + tax /\ d.discount = discount
  BY <1>2, <1>4 DEF Figured, ValueOf
<1>12. Drafted(d)
  <2>1. /\ kind \in {"invoice", "quote", "order", "expense"}
        /\ kind \notin {"order", "expense"} /\ kind # "expense"
        /\ "draft" \in {"draft", "sent", "approved"}
    OBVIOUS
  <2> QED
    BY <2>1, <1>8, <1>10, <1>4, PutTogether
<1>13. d.on = TRUE => TaxFree(d.lines) /\ d.tax = T!Vat(d.subtotal - ValueOf(d), d.rate)
  BY <1>8, <1>11, <1>3
<1>14. d.kind = "quote" /\ d.on = FALSE =>
           TaxedOnTotals(d.lines) /\ d.tax = T!SumOf(d.lines, "tax")
  BY <1>8, <1>11, <1>3
<1>15. DocOK(T!Reconciled(d))
  BY <1>11, <1>12, <1>13, <1>14, FreshlyOK
<1>16. /\ sale.discount = d.discount /\ sale.rate = d.rate /\ sale.status = d.status
  BY <1>5, <1>12, ReconciledKeeps DEF Drafted
<1> QED
  BY <1>5, <1>11, <1>15, <1>16

\* So is an order, whose lines bear no tax.
LEMMA OrderOK ==
    ASSUME NEW basket, BasketOK(basket), NEW on, NEW rate, ChargeOK(on, rate),
           NEW date \in 0 .. T!Always, T!AllEffectiveOn(basket, date)
    PROVE  /\ DocOK(T!Order(basket, on, rate, date))
           /\ T!Order(basket, on, rate, date).discount = T!NoDiscount
           /\ T!Order(basket, on, rate, date).rate = rate
           /\ T!Order(basket, on, rate, date).kind = "order"
<1> on \in BOOLEAN /\ rate \in AnyRate /\ (on = TRUE => rate # T!NoRate)
  BY DEF ChargeOK
<1>1. PICK built, lines : built = T!Build(basket) /\ lines = T!Neutral(built)
  OBVIOUS
<1>2. PICK s, v : s = T!SumOf(lines, "total") /\ v = T!DiscountOn(s, T!NoDiscount)
  OBVIOUS
<1>3. PICK tax : tax = IF on THEN T!Vat(s, rate) ELSE 0
  OBVIOUS
<1>4. PICK d : d = T!Order(basket, on, rate, date)
  OBVIOUS
<1>5. d = Figured("order", "draft", date, lines, T!NoDiscount, on, rate, tax)
  BY <1>1, <1>2, <1>3, <1>4 DEF T!Order, T!Saved, Figured
<1>6. built \in Lines /\ LinesPriced(built)
  BY <1>1, BuildIs DEF BuiltFrom
<1>7. NeutralFrom(lines, built)
  BY <1>6, <1>1, NeutralIs
<1>8. LinesFit(lines, date) /\ TaxFree(lines)
  <2>1. TaxFree(lines)
    BY <1>7 DEF NeutralFrom, TaxFree
  <2> QED
    BY <1>6, <1>7, <2>1, NeutralFits
<1>9. s \in Nat /\ v = 0 /\ s - v = s /\ T!NoDiscount \in AnyDiscount
  BY <1>8, <1>2 DEF LinesFit, T!DiscountOn, T!NoDiscount, AnyDiscount
<1>10. tax \in Nat
  <2>1. 0 \in 0 .. s /\ s - 0 = s
    BY <1>9
  <2>2. on = TRUE => T!Vat(s - 0, rate) \in Nat
    BY <1>9, <2>1, VatIsNat
  <2> QED
    BY <1>3, <2>1, <2>2
<1>11. /\ d.kind = "order" /\ d.lines = lines /\ d.on = on /\ d.rate = rate
       /\ d.discount = T!NoDiscount
       /\ d.tax = tax /\ d.subtotal = s /\ ValueOf(d) = v /\ d.total = s - v + tax
  BY <1>5, <1>2 DEF Figured, ValueOf
<1>12. Drafted(d)
  BY <1>5, <1>8, <1>9, <1>10, PutTogether
<1>13. Totaled(d)
  <2>1. T!SumOf(lines, "tax") = 0
    BY <1>8, SumOfTaxes DEF LinesFit, TaxFree
  <2> QED
    BY <1>9, <1>11, <1>3, <2>1 DEF Totaled
<1>14. LinesTaxed(d)
  BY <1>8, <1>11 DEF LinesTaxed, TaxFree, TaxedByShare
<1> QED
  BY <1>4, <1>11, <1>12, <1>13, <1>14 DEF DocOK

\* And an expense, taxed line by line.
LEMMA ExpenseOK ==
    ASSUME NEW basket, BasketOK(basket), NEW date \in 0 .. T!Always,
           T!AllEffectiveOn(basket, date)
    PROVE  /\ DocOK(T!Expense(basket, date))
           /\ T!Expense(basket, date).discount = T!NoDiscount
           /\ T!Expense(basket, date).rate = T!NoRate
           /\ T!Expense(basket, date).kind = "expense"
<1>1. PICK lines : lines = T!Build(basket)
  OBVIOUS
<1>2. PICK s, v, tax : /\ s = T!SumOf(lines, "total") /\ v = T!DiscountOn(s, T!NoDiscount)
                    /\ tax = T!SumOf(lines, "tax")
  OBVIOUS
<1>3. PICK d : d = T!Expense(basket, date)
  OBVIOUS
<1>4. d = Figured("expense", "draft", date, lines, T!NoDiscount, FALSE, T!NoRate, tax)
  BY <1>1, <1>2, <1>3 DEF T!Expense, T!Saved, Figured
<1>5. BuiltFrom(lines, basket)
  BY <1>1, BuildIs
<1>6. LinesFit(lines, date) /\ TaxedOnTotals(lines)
  <2>1. TaxedOnTotals(lines)
    BY <1>5 DEF BuiltFrom, TaxedOnTotals
  <2> QED
    BY <1>5, <2>1, BuiltFits
<1>7. tax \in Nat
  BY <1>6, <1>2, SumOfTaxes DEF LinesFit
<1>8. T!NoDiscount \in AnyDiscount /\ T!NoRate \in AnyRate
  BY DEF T!NoDiscount, AnyDiscount, AnyRate
<1>9. /\ d.kind = "expense" /\ d.lines = lines /\ d.on = FALSE /\ d.tax = tax
      /\ d.discount = T!NoDiscount /\ d.rate = T!NoRate
      /\ d.subtotal = s /\ ValueOf(d) = v /\ d.total = s - v + tax
  BY <1>4, <1>2 DEF Figured, ValueOf
<1>10. Drafted(d)
  <2>1. FALSE \in BOOLEAN
    OBVIOUS
  <2> QED
    BY <2>1, <1>4, <1>6, <1>7, <1>8, PutTogether
<1>11. Totaled(d)
  BY <1>9, <1>2 DEF Totaled
<1>12. LinesTaxed(d)
  BY <1>6, <1>9 DEF LinesTaxed, TaxedOnTotals, TaxedByShare
<1> QED
  BY <1>3, <1>9, <1>10, <1>11, <1>12 DEF DocOK

\* What the schemas let in.
LEMMA InputsAreSound ==
    /\ \A basket \in Baskets : BasketOK(basket)
    /\ Discounts \subseteq AnyDiscount /\ VatRates \subseteq 0 .. T!Whole
    /\ Dates \subseteq 0 .. T!Always
<1>1. ASSUME NEW basket \in Baskets PROVE BasketOK(basket)
  <2> PICK k, Items : /\ k = Len(basket)
                      /\ Items = [quantity : Nat \ {0}, price : Nat, treatment : T!Treatments]
    OBVIOUS
  <2>1. basket \in Seq(Items)
    BY TotalsAssumption DEF T!TotalsConstants
  <2>2. k \in Nat /\ DOMAIN basket = 1 .. k /\ \A n \in 1 .. k : basket[n] \in Items
    <3>1. ASSUME NEW I, basket \in Seq(I)
          PROVE  /\ Len(basket) \in Nat /\ DOMAIN basket = 1 .. Len(basket)
                 /\ \A n \in 1 .. Len(basket) : basket[n] \in I
      BY <3>1
    <3> QED
      BY <2>1, <3>1, Zenon
  <2>3. \A item \in Items : /\ item.quantity \in Nat /\ item.price \in Nat
                            /\ item.treatment \in T!Treatments
    OBVIOUS
  <2> QED
    BY <2>2, <2>3 DEF BasketOK
<1>2. Discounts \subseteq AnyDiscount
  BY TotalsAssumption DEF T!TotalsConstants, AnyDiscount
<1>3. VatRates \subseteq 0 .. T!Whole /\ Dates \subseteq 0 .. T!Always
  BY TotalsAssumption DEF T!TotalsConstants
<1> QED
  BY <1>1, <1>2, <1>3

\* A field of an edit: left out, or given one value.
LEMMA OptionIs ==
    ASSUME NEW S, NEW option \in T!Optional(S), NEW current
    PROVE  /\ option = {} => T!Given(option, current) = current
           /\ option # {} => /\ T!Given(option, current) \in S
                             /\ option = {T!Given(option, current)}
<1>1. option = {} \/ \E x \in S : option = {x}
  BY DEF T!Optional
<1> QED
  BY <1>1 DEF T!Given

\* A basket that was given, or the lines that are there.
LEMMA GivenIsSound ==
    /\ \A x \in T!Optional(VatRates \cup {T!NoRate}), c \in AnyRate :
          T!Given(x, c) \in AnyRate /\ T!Given(x, c) \in VatRates \cup {T!NoRate, c}
    /\ \A x \in T!Optional(Discounts), c \in AnyDiscount :
          T!Given(x, c) \in AnyDiscount /\ T!Given(x, c) \in Discounts \cup {c}
    /\ \A x \in T!Optional(Dates), c \in 0 .. T!Always : T!Given(x, c) \in 0 .. T!Always
<1>1. ASSUME NEW S, NEW R, S \subseteq R, NEW x \in T!Optional(S), NEW c \in R
      PROVE  T!Given(x, c) \in R
  BY <1>1, OptionIs
<1>2. \A x \in T!Optional(VatRates \cup {T!NoRate}), c \in AnyRate :
          T!Given(x, c) \in AnyRate /\ T!Given(x, c) \in VatRates \cup {T!NoRate, c}
  <2>1. VatRates \cup {T!NoRate} \subseteq AnyRate
    BY InputsAreSound DEF AnyRate
  <2>2. \A x \in T!Optional(VatRates \cup {T!NoRate}) :
            \A c : T!Given(x, c) \in VatRates \cup {T!NoRate, c}
    BY OptionIs
  <2> QED
    BY <1>1, <2>1, <2>2
<1>3. \A x \in T!Optional(Discounts), c \in AnyDiscount :
          T!Given(x, c) \in AnyDiscount /\ T!Given(x, c) \in Discounts \cup {c}
  <2>1. \A x \in T!Optional(Discounts) :
            \A c : T!Given(x, c) \in Discounts \cup {c}
    BY OptionIs
  <2> QED
    BY <1>1, <2>1, InputsAreSound
<1>4. \A x \in T!Optional(Dates), c \in 0 .. T!Always : T!Given(x, c) \in 0 .. T!Always
  BY <1>1, InputsAreSound
<1> QED
  BY <1>2, <1>3, <1>4

\* A document is as good as another with the same figures.
LEMMA SameFigures ==
    ASSUME NEW d, DocOK(d), NEW e \in DocRow, T!AllEffectiveOn(d.lines, e.date),
           e.kind = d.kind, e.lines = d.lines, e.discount = d.discount, e.on = d.on,
           e.rate = d.rate, e.subtotal = d.subtotal, e.tax = d.tax, e.total = d.total
    PROVE  DocOK(e)
<1>1. ValueOf(e) = ValueOf(d)
  BY DEF ValueOf
<1>2. Drafted(e)
  BY DEF DocOK, Drafted
<1>3. Totaled(e)
  BY <1>1 DEF DocOK, Totaled
<1>4. LinesTaxed(e)
  BY <1>1 DEF DocOK, LinesTaxed, TaxedByShare
<1> QED
  BY <1>2, <1>3, <1>4 DEF DocOK

\* A document changes its status.
LEMMA MovedOK ==
    ASSUME NEW d, DocOK(d), NEW status \in {"draft", "sent", "approved"}
    PROVE  DocOK([d EXCEPT !.status = status])
<1> PICK e : e = [d EXCEPT !.status = status]
  OBVIOUS
<1>1. d \in DocRow /\ T!AllEffectiveOn(d.lines, d.date)
  BY DEF DocOK, Drafted
<1>2. e \in DocRow
  BY <1>1 DEF DocRow
<1>3. /\ e.date = d.date /\ e.kind = d.kind /\ e.lines = d.lines /\ e.discount = d.discount
      /\ e.on = d.on /\ e.rate = d.rate /\ e.subtotal = d.subtotal /\ e.tax = d.tax
      /\ e.total = d.total
  BY <1>1 DEF DocRow
<1> QED
  BY <1>1, <1>2, <1>3, SameFigures

\* A row is in order when the document it was typed from is; an invoice that is taxed by
\* line and was sent is in order itself.
RowOK(row) ==
    /\ row \in DocRow
    /\ \E d \in T!Typed(row) : DocOK(d)
    /\ TaxedByShare(row) /\ row.status = "sent" => DocOK(row)

\* A row with other terms.
TermsOf(row, t, r) == [row EXCEPT !.discount = t, !.rate = r]

TypedAre(row) ==
    { term \in (Discounts \cup {row.discount}) \X (VatRates \cup {row.rate}) :
        T!Kept(term[1]) = row.discount /\ T!Column(term[2]) = row.rate }

\* The documents a row may have been typed from.
LEMMA TypedIs ==
    ASSUME NEW row
    PROVE  /\ \A d \in T!Typed(row) : \E t, r :
                 /\ t \in Discounts \cup {row.discount} /\ T!Kept(t) = row.discount
                 /\ r \in VatRates \cup {row.rate} /\ T!Column(r) = row.rate
                 /\ d = TermsOf(row, t, r)
           /\ \A t \in Discounts \cup {row.discount}, r \in VatRates \cup {row.rate} :
                 T!Kept(t) = row.discount /\ T!Column(r) = row.rate
                   => TermsOf(row, t, r) \in T!Typed(row)
<1>1. T!Typed(row) = {TermsOf(row, term[1], term[2]) : term \in TypedAre(row)}
  BY Zenon DEF T!Typed, TypedAre, TermsOf
<1>2. ASSUME NEW d \in T!Typed(row)
      PROVE  \E t, r : /\ t \in Discounts \cup {row.discount} /\ T!Kept(t) = row.discount
                       /\ r \in VatRates \cup {row.rate} /\ T!Column(r) = row.rate
                       /\ d = TermsOf(row, t, r)
  <2>1. PICK term \in TypedAre(row) : d = TermsOf(row, term[1], term[2])
    BY <1>1, <1>2, Zenon
  <2>2. /\ term[1] \in Discounts \cup {row.discount} /\ T!Kept(term[1]) = row.discount
        /\ term[2] \in VatRates \cup {row.rate} /\ T!Column(term[2]) = row.rate
    BY DEF TypedAre
  <2> QED
    BY <2>1, <2>2
<1>3. ASSUME NEW t \in Discounts \cup {row.discount}, NEW r \in VatRates \cup {row.rate},
             T!Kept(t) = row.discount, T!Column(r) = row.rate
      PROVE  TermsOf(row, t, r) \in T!Typed(row)
  <2>1. PICK term : term = <<t, r>>
    OBVIOUS
  <2>2. term \in TypedAre(row) /\ term[1] = t /\ term[2] = r
    BY <1>3, <2>1 DEF TypedAre
  <2> QED
    BY <1>1, <2>2, Zenon
<1> QED
  BY <1>2, <1>3

WithTerms(d, row, t, r) ==
    /\ d \in DocRow /\ d.discount = t /\ d.rate = r
    /\ d.kind = row.kind /\ d.status = row.status /\ d.date = row.date
    /\ d.lines = row.lines /\ d.on = row.on /\ d.subtotal = row.subtotal
    /\ d.tax = row.tax /\ d.total = row.total

LEMMA TermsAlone ==
    ASSUME NEW row \in DocRow, NEW t \in AnyDiscount, NEW r \in AnyRate
    PROVE  WithTerms(TermsOf(row, t, r), row, t, r)
<1> PICK d : d = TermsOf(row, t, r)
  OBVIOUS
<1>1. d \in DocRow
  BY DEF DocRow, TermsOf
<1> QED
  BY <1>1 DEF DocRow, TermsOf, WithTerms

\* Two rows with the same columns are the same.
LEMMA SameRow ==
    ASSUME NEW d \in DocRow, NEW e, WithTerms(e, d, d.discount, d.rate)
    PROVE  e = d
BY DEF DocRow, WithTerms

\* What is stored is a row with other terms.
LEMMA StoredIs ==
    ASSUME NEW d \in DocRow
    PROVE  T!Stored(d) = TermsOf(d, T!Kept(d.discount), T!Column(d.rate))
BY DEF T!Stored, TermsOf, DocRow

\* The document a row was typed from.
LEMMA RowIsTyped ==
    ASSUME NEW row, RowOK(row)
    PROVE  \E t \in AnyDiscount, r \in AnyRate :
              /\ t \in Discounts \cup {row.discount} /\ T!Kept(t) = row.discount
              /\ r \in VatRates \cup {row.rate} /\ T!Column(r) = row.rate
              /\ DocOK(TermsOf(row, t, r))
<1>1. PICK d \in T!Typed(row) : DocOK(d)
  BY DEF RowOK
<1>2. PICK t, r : /\ t \in Discounts \cup {row.discount} /\ T!Kept(t) = row.discount
                  /\ r \in VatRates \cup {row.rate} /\ T!Column(r) = row.rate
                  /\ d = TermsOf(row, t, r)
  BY TypedIs
<1>3. row.discount \in AnyDiscount /\ row.rate \in AnyRate
  BY DEF RowOK, DocRow
<1>4. t \in AnyDiscount /\ r \in AnyRate
  BY <1>2, <1>3, InputsAreSound DEF AnyRate
<1> QED
  BY <1>1, <1>2, <1>4

\* A document in order, whose terms were offered or are stored, leaves a row in order.
LEMMA StoredOK ==
    ASSUME NEW d, DocOK(d), d.discount \in Discounts \cup {T!Kept(d.discount)},
           d.rate \in VatRates \cup {T!Column(d.rate)},
           TaxedByShare(d) => d.status # "sent"
    PROVE  RowOK(T!Stored(d))
<1> PICK t, r, row : t = d.discount /\ r = d.rate /\ row = T!Stored(d)
  OBVIOUS
<1>1. d \in DocRow /\ t \in AnyDiscount /\ r \in AnyRate
  BY DEF DocOK, Drafted, DocRow
<1> PICK kt, kr : kt = T!Kept(t) /\ kr = T!Column(r)
  OBVIOUS
<1>2. kt \in AnyDiscount /\ kr \in AnyRate
  BY <1>1, StoredDiscount, StoredRate
<1>3. WithTerms(row, d, kt, kr)
  <2>1. row = TermsOf(d, kt, kr)
    BY <1>1, StoredIs
  <2> QED
    BY <1>1, <1>2, <2>1, TermsAlone
<1>4. row \in DocRow /\ row.discount = kt /\ row.rate = kr
  BY <1>3 DEF WithTerms
<1>5. WithTerms(TermsOf(row, t, r), row, t, r)
  BY <1>1, <1>4, TermsAlone
<1>6. TermsOf(row, t, r) = d
  <2>1. WithTerms(TermsOf(row, t, r), d, t, r)
    BY <1>3, <1>5 DEF WithTerms
  <2> QED
    BY <1>1, <2>1, SameRow
<1>7. d \in T!Typed(row)
  BY <1>4, <1>6, TypedIs
<1>8. ~(TaxedByShare(row) /\ row.status = "sent")
  BY <1>3 DEF WithTerms, TaxedByShare
<1> QED
  BY <1>4, <1>7, <1>8 DEF RowOK

\* A row that is its own document, in order.
LEMMA ExactOK ==
    ASSUME NEW d, DocOK(d), T!Kept(d.discount) = d.discount, T!Column(d.rate) = d.rate
    PROVE  RowOK(d)
<1>1. d \in DocRow
  BY DEF DocOK, Drafted
<1>2. WithTerms(TermsOf(d, d.discount, d.rate), d, d.discount, d.rate)
  BY <1>1, TermsAlone DEF DocRow
<1>3. TermsOf(d, d.discount, d.rate) = d
  BY <1>1, <1>2, SameRow
<1>4. d \in T!Typed(d)
  BY <1>3, TypedIs
<1> QED
  BY <1>1, <1>4 DEF RowOK

\* What is the same of a row and of the document it was typed from.
Shaped(row) ==
    /\ row.kind = "order" \/ row.on = TRUE => TaxFree(row.lines)
    /\ row.kind \notin {"order", "invoice"} /\ row.on = FALSE => TaxedOnTotals(row.lines)
    /\ row.on = FALSE => row.tax = T!SumOf(row.lines, "tax")
    /\ T!Kept(row.discount) = row.discount /\ T!Column(row.rate) = row.rate

LEMMA RowIsShaped ==
    ASSUME NEW row, RowOK(row) PROVE Drafted(row) /\ Shaped(row)
<1>1. PICK t \in AnyDiscount, r \in AnyRate :
        /\ t \in Discounts \cup {row.discount} /\ T!Kept(t) = row.discount
        /\ r \in VatRates \cup {row.rate} /\ T!Column(r) = row.rate
        /\ DocOK(TermsOf(row, t, r))
  BY RowIsTyped
<1> PICK d : d = TermsOf(row, t, r)
  OBVIOUS
<1>2. row \in DocRow /\ DocOK(d)
  BY <1>1 DEF RowOK
<1>3. WithTerms(d, row, t, r)
  BY <1>2, TermsAlone
<1>4. /\ T!Kept(row.discount) = row.discount /\ T!Column(row.rate) = row.rate
      /\ row.rate = T!NoRate <=> r = T!NoRate
  BY <1>1, StoredDiscount, StoredRate
<1>5. Drafted(row)
  <2>1. row.kind \in {"order", "expense"} => row.discount = T!NoDiscount
    BY <1>1, <1>2, <1>3 DEF WithTerms, DocOK, Drafted, T!Kept, T!NoDiscount
  <2>2. row.on = TRUE => row.rate # T!NoRate
    BY <1>2, <1>3, <1>4 DEF WithTerms, DocOK, Drafted
  <2> QED
    BY <1>2, <1>3, <2>1, <2>2 DEF WithTerms, DocOK, Drafted
<1>6. Shaped(row)
  BY <1>2, <1>3, <1>4 DEF WithTerms, DocOK, Totaled, LinesTaxed, Shaped, TaxFree,
                          TaxedOnTotals
<1> QED
  BY <1>5, <1>6

\* Another date or status.
LEMMA MovedRow ==
    ASSUME NEW row, RowOK(row), NEW day \in 0 .. T!Always,
           NEW status \in {"draft", "sent", "approved"}, T!AllEffectiveOn(row.lines, day),
           TaxedByShare(row) /\ status = "sent" => row.status = "sent",
           NEW new \in DocRow, new.date = day, new.status = status, new.kind = row.kind,
           new.lines = row.lines, new.discount = row.discount, new.on = row.on,
           new.rate = row.rate, new.subtotal = row.subtotal, new.tax = row.tax,
           new.total = row.total
    PROVE  RowOK(new)
<1>1. PICK t \in AnyDiscount, r \in AnyRate :
        /\ t \in Discounts \cup {row.discount} /\ T!Kept(t) = row.discount
        /\ r \in VatRates \cup {row.rate} /\ T!Column(r) = row.rate
        /\ DocOK(TermsOf(row, t, r))
  BY RowIsTyped
<1> PICK d, e : d = TermsOf(row, t, r) /\ e = TermsOf(new, t, r)
  OBVIOUS
<1>2. WithTerms(d, row, t, r) /\ WithTerms(e, new, t, r)
  BY TermsAlone DEF RowOK
<1>3. DocOK(e)
  BY <1>1, <1>2, SameFigures DEF WithTerms
<1>4. e \in T!Typed(new)
  BY <1>1, TypedIs
<1>5. TaxedByShare(new) /\ new.status = "sent" => DocOK(new)
  <2> SUFFICES ASSUME TaxedByShare(new), status = "sent" PROVE DocOK(new)
    OBVIOUS
  <2>1. DocOK(row)
    BY DEF RowOK, TaxedByShare
  <2> QED
    BY <2>1, SameFigures
<1> QED
  BY <1>3, <1>4, <1>5 DEF RowOK

\* A new date alone.
LEMMA RedatedRow ==
    ASSUME NEW row, RowOK(row), NEW day \in 0 .. T!Always, T!AllEffectiveOn(row.lines, day)
    PROVE  RowOK([row EXCEPT !.date = day])
<1> PICK new : new = [row EXCEPT !.date = day]
  OBVIOUS
<1>1. row \in DocRow
  BY DEF RowOK
<1>2. new \in DocRow
  BY <1>1 DEF DocRow
<1>3. /\ new.date = day /\ new.status = row.status /\ new.kind = row.kind
      /\ new.lines = row.lines /\ new.discount = row.discount /\ new.on = row.on
      /\ new.rate = row.rate /\ new.subtotal = row.subtotal /\ new.tax = row.tax
      /\ new.total = row.total /\ row.status \in {"draft", "sent", "approved"}
  BY <1>1 DEF DocRow
<1> QED
  BY <1>2, <1>3, MovedRow

\* What an edit leaves of a row, and what a recomputation does.
EditOf(d, day, lines, terms, charged, percent, s) ==
    [d EXCEPT !.date = day, !.lines = lines, !.discount = terms, !.on = charged,
              !.rate = percent, !.subtotal = s]

PriceOf(d, tax, total) == [d EXCEPT !.tax = tax, !.total = total]

HasFigures(e, d, day, lines, terms, charged, percent, s, tax, total) ==
    /\ e \in DocRow
    /\ e.kind = d.kind /\ e.status = d.status /\ e.date = day /\ e.lines = lines
    /\ e.discount = terms /\ e.on = charged /\ e.rate = percent /\ e.subtotal = s
    /\ e.tax = tax /\ e.total = total

\* Both leave the other columns alone.
LEMMA EditedFields ==
    ASSUME NEW d \in DocRow, NEW day \in 0 .. T!Always, NEW lines \in Lines,
           NEW terms \in AnyDiscount, NEW charged \in BOOLEAN, NEW percent \in AnyRate,
           NEW s \in Nat
    PROVE  HasFigures(EditOf(d, day, lines, terms, charged, percent, s),
                      d, day, lines, terms, charged, percent, s, d.tax, d.total)
<1> PICK e : e = EditOf(d, day, lines, terms, charged, percent, s)
  OBVIOUS
<1>1. e \in DocRow
  BY DEF DocRow, EditOf
<1> QED
  BY <1>1 DEF DocRow, EditOf, HasFigures

\* And so does the second.
LEMMA PricedFields ==
    ASSUME NEW e \in DocRow, NEW tax \in Nat, NEW total \in Int
    PROVE  HasFigures(PriceOf(e, tax, total),
                      e, e.date, e.lines, e.discount, e.on, e.rate, e.subtotal, tax, total)
<1> PICK f : f = PriceOf(e, tax, total)
  OBVIOUS
<1>1. f \in DocRow
  BY DEF DocRow, PriceOf
<1> QED
  BY <1>1 DEF DocRow, PriceOf, HasFigures

\* An edit of an invoice or a quote.
LEMMA UpdateSaleOK ==
    ASSUME RowOK(doc), NEW basket \in T!Optional(Baskets),
           NEW discount \in T!Optional(Discounts),
           NEW on \in T!Optional(BOOLEAN), NEW rate \in T!Optional(VatRates \cup {T!NoRate}),
           NEW date \in T!Optional(Dates), T!UpdateSale(basket, discount, on, rate, date)
    PROVE  RowOK(doc')
<1> PICK d : d = doc
  OBVIOUS
<1> PICK charged, percent, kept, terms, day :
        /\ charged = T!Given(on, d.on) /\ percent = T!Given(rate, d.rate)
        /\ kept = IF d.kind = "quote" THEN T!NoDiscount ELSE d.discount
        /\ terms = T!Given(discount, kept) /\ day = T!Given(date, d.date)
  OBVIOUS
<1>1. PICK raw : raw = T!Given(basket, <<>>)
  OBVIOUS
<1>2. PICK built : built = IF basket # {} THEN T!Build(raw) ELSE d.lines
  OBVIOUS
<1>3. PICK lines : lines = IF charged /\ (basket # {} \/ on # {}) THEN T!Neutral(built)
                           ELSE built
  OBVIOUS
<1>4. PICK s, v : s = T!SumOf(lines, "total") /\ v = T!DiscountOn(s, terms)
  OBVIOUS
<1>5. PICK tax : tax = CASE charged -> T!Vat(s - v, percent)
                      [] ~charged /\ (basket # {} \/ on # {}) -> T!SumOf(lines, "tax")
                      [] OTHER -> d.tax
  OBVIOUS
<1>6. PICK e : e = EditOf(d, day, lines, terms, charged, percent, s)
  OBVIOUS
<1>7. PICK f : f = PriceOf(e, tax, s - v + tax)
  OBVIOUS
<1>8. PICK fresh \in BOOLEAN : fresh = TRUE <=> basket # {}
  OBVIOUS
<1>9. PICK strip \in BOOLEAN : strip = TRUE <=> charged = TRUE /\ (basket # {} \/ on # {})
  OBVIOUS
<1>10. /\ \/ d.kind = "invoice" /\ d.status = "draft"
          \/ d.kind = "quote" /\ d.status \in {"draft", "sent"}
       /\ T!KeepsItsTreatments(basket, date) /\ (charged => percent # T!NoRate)
       /\ doc' = IF T!Recomputes(basket, discount, on, rate) THEN T!Stored(T!Reconciled(f))
                 ELSE T!Stored(e)
  BY <1>1, <1>2, <1>3, <1>4, <1>5, <1>6, <1>7 DEF T!UpdateSale, EditOf, PriceOf
<1>11. RowOK(d) /\ Drafted(d) /\ Shaped(d) /\ d \in DocRow
  BY RowIsShaped DEF Drafted
<1>12. /\ d.kind \in {"invoice", "quote"} /\ d.status \in {"draft", "sent", "approved"}
       /\ d.on \in BOOLEAN /\ d.rate \in AnyRate /\ d.discount \in AnyDiscount
       /\ d.date \in 0 .. T!Always /\ d.lines \in Lines /\ d.tax \in Nat
       /\ kept \in AnyDiscount /\ T!Kept(kept) = kept
  BY <1>10, <1>11 DEF DocRow, Shaped, AnyDiscount, T!NoDiscount, T!Kept
<1>13. /\ charged \in BOOLEAN /\ percent \in AnyRate /\ terms \in AnyDiscount
       /\ day \in 0 .. T!Always
       /\ percent \in VatRates \cup {T!NoRate, d.rate} /\ terms \in Discounts \cup {kept}
  <2>1. charged \in BOOLEAN
    BY <1>12, OptionIs
  <2>2. percent \in AnyRate /\ percent \in VatRates \cup {T!NoRate, d.rate}
    BY <1>12, GivenIsSound
  <2>3. terms \in AnyDiscount /\ terms \in Discounts \cup {kept}
    BY <1>12, GivenIsSound
  <2>4. day \in 0 .. T!Always
    BY <1>12, GivenIsSound
  <2> QED
    BY <2>1, <2>2, <2>3, <2>4
<1>14. /\ fresh = TRUE => built = T!Build(raw)
       /\ fresh = FALSE => built = d.lines
       /\ strip = TRUE => lines = T!Neutral(built)
       /\ strip = FALSE => lines = built
  BY <1>13, <1>2, <1>3, <1>8, <1>9
<1>15. fresh = TRUE => BasketOK(raw) /\ T!AllEffectiveOn(raw, day)
  <2>1. SUFFICES ASSUME basket # {} PROVE BasketOK(raw) /\ T!AllEffectiveOn(raw, day)
    BY <1>8
  <2>2. raw \in Baskets /\ basket = {raw}
    BY <1>1, <2>1, OptionIs
  <2> QED
    BY <1>10, <2>2, InputsAreSound DEF T!KeepsItsTreatments
<1>16. fresh = FALSE => T!AllEffectiveOn(d.lines, day)
  <2>1. SUFFICES ASSUME basket = {} PROVE T!AllEffectiveOn(d.lines, day)
    BY <1>8
  <2>2. CASE date = {}
    BY <1>11, <2>2, OptionIs DEF Drafted
  <2>3. CASE date # {}
    BY <1>10, <2>1, <2>3 DEF T!KeepsItsTreatments
  <2> QED
    BY <2>2, <2>3
<1>17. /\ LinesFit(lines, day)
       /\ strip = TRUE => TaxFree(lines)
       /\ fresh = TRUE /\ strip = FALSE => TaxedOnTotals(lines)
  <2>1. built \in Lines /\ LinesPriced(built) /\ T!AllEffectiveOn(built, day)
    <3>1. CASE fresh = TRUE
      <4>1. BuiltFrom(built, raw)
        BY <1>14, <1>15, <3>1, BuildIs
      <4>2. LinesFit(built, day)
        BY <1>15, <3>1, <4>1, BuiltFits
      <4> QED
        BY <4>2 DEF LinesFit
    <3>2. CASE fresh = FALSE
      BY <1>11, <1>12, <1>14, <1>16, <3>2 DEF Drafted
    <3> QED
      BY <3>1, <3>2
  <2>2. CASE strip = TRUE
    <3>1. NeutralFrom(lines, built)
      BY <1>14, <2>1, <2>2, NeutralIs
    <3>2. LinesFit(lines, day)
      BY <1>13, <2>1, <3>1, NeutralFits
    <3> QED
      BY <2>2, <3>1, <3>2 DEF NeutralFrom, TaxFree
  <2>3. CASE strip = FALSE
    <3>1. LinesFit(lines, day)
      BY <1>14, <2>1, <2>3, LinesHaveASum DEF LinesFit
    <3>2. fresh = TRUE => TaxedOnTotals(lines)
      <4>1. fresh = TRUE => BuiltFrom(lines, raw)
        BY <1>14, <1>15, <2>3, BuildIs
      <4> QED
        BY <4>1 DEF BuiltFrom, TaxedOnTotals
    <3> QED
      BY <2>3, <3>1, <3>2
  <2> QED
    BY <2>2, <2>3
<1>18. s \in Nat /\ v \in 0 .. s /\ lines \in Lines
  <2>1. s \in Nat /\ lines \in Lines
    BY <1>17, <1>4 DEF LinesFit
  <2> QED
    BY <1>13, <1>4, <2>1, DiscountIsWithin
<1>19. HasFigures(e, d, day, lines, terms, charged, percent, s, d.tax, d.total)
  <2>1. HasFigures(EditOf(d, day, lines, terms, charged, percent, s),
                   d, day, lines, terms, charged, percent, s, d.tax, d.total)
    <3>1. /\ d \in DocRow /\ day \in 0 .. T!Always /\ lines \in Lines /\ terms \in AnyDiscount
          /\ charged \in BOOLEAN /\ percent \in AnyRate /\ s \in Nat
      BY <1>11, <1>13, <1>18
    <3> QED
      BY <3>1, EditedFields
  <2> QED
    BY <1>6, <2>1
<1>20. CASE ~T!Recomputes(basket, discount, on, rate)
  <2>1. basket = {} /\ discount = {} /\ on = {} /\ rate = {} /\ d.kind # "quote"
    BY <1>20 DEF T!Recomputes
  <2>2. terms = d.discount /\ charged = d.on /\ percent = d.rate
    BY <2>1, OptionIs
  <2>3. lines = d.lines
    BY <2>1, <1>14, <1>8, <1>9
  <2>4. s = d.subtotal
    BY <1>11, <1>4, <2>3 DEF Drafted
  <2>5. e \in DocRow
    BY <1>19 DEF HasFigures
  <2>6. /\ e.date = day /\ e.kind = d.kind /\ e.lines = d.lines /\ e.discount = d.discount
        /\ e.on = d.on /\ e.rate = d.rate /\ e.subtotal = d.subtotal /\ e.tax = d.tax
        /\ e.total = d.total
    BY <1>19, <2>2, <2>3, <2>4 DEF HasFigures
  <2>7. T!AllEffectiveOn(d.lines, day)
    BY <1>16, <1>8, <2>1
  <2>8. T!Stored(e) = e
    <3>1. T!Kept(e.discount) = e.discount /\ T!Column(e.rate) = e.rate
      BY <1>11, <2>6 DEF Shaped
    <3>2. T!Stored(e) = TermsOf(e, e.discount, e.rate)
      BY <2>5, <3>1, StoredIs
    <3>3. WithTerms(TermsOf(e, e.discount, e.rate), e, e.discount, e.rate)
      BY <2>5, TermsAlone DEF DocRow
    <3> QED
      BY <2>5, <3>2, <3>3, SameRow
  <2>9. e.status = d.status
    BY <1>19 DEF HasFigures
  <2>10. RowOK(e)
    BY <1>11, <1>12, <1>13, <2>5, <2>6, <2>7, <2>9, MovedRow
  <2> QED
    BY <1>10, <1>20, <2>8, <2>10
<1>21. CASE T!Recomputes(basket, discount, on, rate)
  <2>1. tax \in Nat
    <3>1. charged = TRUE => tax \in Nat
      BY <1>10, <1>13, <1>18, <1>5, VatIsNat
    <3>2. charged = FALSE => tax \in Nat
      BY <1>12, <1>18, <1>5, SumOfTaxes
    <3> QED
      BY <1>13, <3>1, <3>2
  <2>2. s - v + tax \in Int
    BY <1>18, <2>1
  <2>3. /\ f \in DocRow
        /\ f.kind = d.kind /\ f.status = d.status /\ f.date = day /\ f.lines = lines
        /\ f.discount = terms /\ f.on = charged /\ f.rate = percent /\ f.subtotal = s
        /\ f.tax = tax /\ f.total = s - v + tax
    <3>1. /\ e \in DocRow
          /\ e.kind = d.kind /\ e.status = d.status /\ e.date = day /\ e.lines = lines
          /\ e.discount = terms /\ e.on = charged /\ e.rate = percent /\ e.subtotal = s
      BY <1>19 DEF HasFigures
    <3>2. HasFigures(f, e, e.date, e.lines, e.discount, e.on, e.rate, e.subtotal, tax,
                     s - v + tax)
      BY <1>7, <2>1, <2>2, <3>1, PricedFields
    <3> QED
      BY <3>1, <3>2 DEF HasFigures
  <2>4. ValueOf(f) = v
    BY <1>4, <2>3 DEF ValueOf
  <2>5. Drafted(f)
    BY <1>10, <1>12, <1>17, <1>4, <2>3 DEF Drafted, LinesFit
  <2>6. f.on = TRUE => TaxFree(f.lines) /\ f.tax = T!Vat(f.subtotal - ValueOf(f), f.rate)
    <3>1. SUFFICES ASSUME charged = TRUE PROVE TaxFree(lines) /\ tax = T!Vat(s - v, percent)
      BY <2>3, <2>4
    <3>2. CASE strip = TRUE
      BY <1>17, <1>5, <3>1, <3>2
    <3>3. CASE strip = FALSE
      <4>1. basket = {} /\ on = {}
        BY <1>9, <3>1, <3>3
      <4>2. lines = d.lines /\ d.on = TRUE
        BY <1>14, <1>8, <3>1, <3>3, <4>1, OptionIs
      <4>3. TaxFree(lines)
        BY <1>11, <4>2 DEF Shaped
      <4> QED
        BY <1>5, <3>1, <4>3
    <3> QED
      BY <3>2, <3>3
  <2>7. f.kind = "quote" /\ f.on = FALSE =>
            TaxedOnTotals(f.lines) /\ f.tax = T!SumOf(f.lines, "tax")
    <3>1. SUFFICES ASSUME d.kind = "quote", charged = FALSE
                   PROVE  TaxedOnTotals(lines) /\ tax = T!SumOf(lines, "tax")
      BY <2>3
    <3>2. strip = FALSE
      BY <1>9, <3>1
    <3>3. CASE fresh = TRUE
      BY <1>17, <1>5, <1>8, <3>1, <3>2, <3>3
    <3>4. CASE fresh = FALSE
      <4>1. lines = d.lines
        BY <1>14, <3>2, <3>4
      <4>2. TaxedOnTotals(lines)
        <5>1. CASE d.on = TRUE
          <6>1. TaxFree(lines)
            BY <1>11, <4>1, <5>1 DEF Shaped
          <6> QED
            BY <1>18, <6>1, TaxFreeIsTaxedOnTotals
        <5>2. CASE d.on = FALSE
          BY <1>11, <3>1, <4>1, <5>2 DEF Shaped
        <5> QED
          BY <1>12, <5>1, <5>2
      <4>3. tax = T!SumOf(lines, "tax")
        <5>1. CASE on # {}
          BY <1>5, <3>1, <5>1
        <5>2. CASE on = {}
          <6>1. d.on = FALSE
            BY <3>1, <5>2, OptionIs
          <6>2. tax = d.tax
            BY <1>5, <1>8, <3>1, <3>4, <5>2
          <6> QED
            BY <1>11, <4>1, <6>1, <6>2 DEF Shaped
        <5> QED
          BY <5>1, <5>2
      <4> QED
        BY <4>2, <4>3
    <3> QED
      BY <3>3, <3>4
  <2>8. DocOK(T!Reconciled(f))
    BY <1>10, <1>12, <2>3, <2>4, <2>5, <2>6, <2>7, FreshlyOK
  <2> PICK g : g = T!Reconciled(f)
    OBVIOUS
  <2>9. g.discount = terms /\ g.rate = percent /\ g.status = d.status /\ g.kind = d.kind
    BY <2>3, ReconciledKeeps
  <2>10. g.discount \in Discounts \cup {T!Kept(g.discount)}
    BY <1>12, <1>13, <2>9
  <2>11. g.rate \in VatRates \cup {T!Column(g.rate)}
    <3>1. T!Column(T!NoRate) = T!NoRate /\ T!Column(d.rate) = d.rate
      BY <1>11 DEF Shaped, T!Column
    <3> QED
      BY <1>13, <2>9, <3>1
  <2>12. TaxedByShare(g) => g.status # "sent"
    BY <1>10, <2>9 DEF TaxedByShare
  <2>13. RowOK(T!Stored(g))
    BY <2>8, <2>10, <2>11, <2>12, StoredOK
  <2> QED
    BY <1>10, <1>21, <2>13
<1> QED
  BY <1>20, <1>21

\* Lines without tax are in order on every day.
LEMMA TaxFreeFits ==
    ASSUME NEW lines, TaxFree(lines), NEW day \in 0 .. T!Always
    PROVE  T!AllEffectiveOn(lines, day)
BY NoTaxIsFree DEF TaxFree, T!AllEffectiveOn

\* An edited order.
OrderEditOf(d, day, lines, charged, percent, s, tax, total) ==
    [d EXCEPT !.date = day, !.lines = lines, !.on = charged, !.rate = percent,
              !.subtotal = s, !.tax = tax, !.total = total]

\* It leaves the other columns alone.
LEMMA OrderEditFields ==
    ASSUME NEW d \in DocRow, NEW day \in 0 .. T!Always, NEW lines \in Lines,
           NEW charged \in BOOLEAN, NEW percent \in AnyRate, NEW s \in Nat, NEW tax \in Nat,
           NEW total \in Int
    PROVE  HasFigures(OrderEditOf(d, day, lines, charged, percent, s, tax, total),
                      d, day, lines, d.discount, charged, percent, s, tax, total)
<1> PICK e : e = OrderEditOf(d, day, lines, charged, percent, s, tax, total)
  OBVIOUS
<1>1. e \in DocRow
  BY DEF DocRow, OrderEditOf
<1> QED
  BY <1>1 DEF DocRow, OrderEditOf, HasFigures

\* An edit of an order.
LEMMA UpdateOrderOK ==
    ASSUME RowOK(doc), NEW basket \in T!Optional(Baskets), NEW on \in T!Optional(BOOLEAN),
           NEW rate \in T!Optional(VatRates \cup {T!NoRate}), NEW date \in T!Optional(Dates),
           T!UpdateOrder(basket, on, rate, date)
    PROVE  RowOK(doc')
<1> PICK d : d = doc
  OBVIOUS
<1> PICK charged, day : charged = T!Given(on, d.on) /\ day = T!Given(date, d.date)
  OBVIOUS
<1>1. PICK percent : percent = IF charged THEN T!Given(rate, d.rate) ELSE T!NoRate
  OBVIOUS
<1>2. PICK raw : raw = T!Given(basket, <<>>)
  OBVIOUS
<1>3. PICK lines : lines = IF basket # {} THEN T!Neutral(T!Build(raw)) ELSE d.lines
  OBVIOUS
<1>4. PICK s : s = T!SumOf(lines, "total")
  OBVIOUS
<1>5. PICK tax : tax = IF charged THEN T!Vat(s, percent) ELSE 0
  OBVIOUS
<1>6. PICK total : total = s + tax
  OBVIOUS
<1>7. PICK e : e = OrderEditOf(d, day, lines, charged, percent, s, tax, total)
  OBVIOUS
<1>8. /\ d.kind = "order"
      /\ (charged => percent # T!NoRate)
      /\ \A x \in basket : T!AllEffectiveOn(x, day)
      /\ doc' = IF basket = {} /\ on = {} /\ rate = {} THEN [d EXCEPT !.date = day]
                ELSE T!Stored(e)
  BY <1>1, <1>2, <1>3, <1>4, <1>5, <1>7, <1>6 DEF T!UpdateOrder, OrderEditOf
<1>9. RowOK(d) /\ Drafted(d) /\ Shaped(d) /\ d \in DocRow
  BY RowIsShaped DEF Drafted
<1>10. /\ d.on \in BOOLEAN /\ d.rate \in AnyRate /\ d.date \in 0 .. T!Always
       /\ d.lines \in Lines /\ d.discount = T!NoDiscount /\ TaxFree(d.lines)
  BY <1>8, <1>9 DEF DocRow, Drafted, Shaped
<1>11. /\ charged \in BOOLEAN /\ percent \in AnyRate /\ day \in 0 .. T!Always
       /\ percent \in VatRates \cup {T!NoRate, d.rate}
  <2>1. charged \in BOOLEAN
    BY <1>10, OptionIs
  <2>2. /\ T!Given(rate, d.rate) \in AnyRate
        /\ T!Given(rate, d.rate) \in VatRates \cup {T!NoRate, d.rate}
    BY <1>10, GivenIsSound
  <2>3. percent \in AnyRate /\ percent \in VatRates \cup {T!NoRate, d.rate}
    BY <1>1, <2>1, <2>2 DEF AnyRate
  <2>4. day \in 0 .. T!Always
    BY <1>10, GivenIsSound
  <2> QED
    BY <2>1, <2>3, <2>4
<1>12. lines \in Lines /\ LinesPriced(lines) /\ TaxFree(lines)
  <2>1. CASE basket = {}
    BY <1>9, <1>10, <1>3, <2>1 DEF Drafted
  <2>2. CASE basket # {}
    <3>1. raw \in Baskets
      BY <1>2, <2>2, OptionIs
    <3> PICK built : built = T!Build(raw)
      OBVIOUS
    <3>2. BuiltFrom(built, raw)
      BY <3>1, InputsAreSound, BuildIs
    <3>3. built \in Lines /\ LinesPriced(built)
      BY <3>2 DEF BuiltFrom
    <3>4. NeutralFrom(lines, built)
      BY <1>3, <2>2, <3>3, NeutralIs
    <3>5. LinesFit(lines, day)
      BY <1>11, <3>3, <3>4, NeutralFits
    <3> QED
      BY <3>4, <3>5 DEF LinesFit, NeutralFrom, TaxFree
  <2> QED
    BY <2>1, <2>2
<1>13. s \in Nat /\ T!SumOf(lines, "tax") = 0
  BY <1>12, <1>4, LinesHaveASum, SumOfTaxes DEF TaxFree
<1>14. tax \in Nat /\ total \in Int
  <2>1. 0 \in 0 .. s /\ s - 0 = s
    BY <1>13
  <2>2. tax \in Nat
    <3>1. charged = TRUE => T!Vat(s - 0, percent) \in Nat
      BY <1>8, <1>11, <1>13, <2>1, VatIsNat
    <3> QED
      BY <1>11, <1>5, <2>1, <3>1
  <2> QED
    BY <1>13, <1>6, <2>2
<1>15. HasFigures(e, d, day, lines, d.discount, charged, percent, s, tax, total)
  <2>1. /\ d \in DocRow /\ day \in 0 .. T!Always /\ lines \in Lines /\ charged \in BOOLEAN
        /\ percent \in AnyRate /\ s \in Nat /\ tax \in Nat /\ total \in Int
    BY <1>9, <1>11, <1>12, <1>13, <1>14
  <2>2. HasFigures(OrderEditOf(d, day, lines, charged, percent, s, tax, total),
                   d, day, lines, d.discount, charged, percent, s, tax, total)
    BY <2>1, OrderEditFields
  <2> QED
    BY <1>7, <2>2
<1>16. /\ e \in DocRow /\ e.kind = "order" /\ e.date = day /\ e.lines = lines
       /\ e.discount = T!NoDiscount /\ e.on = charged /\ e.rate = percent
       /\ e.subtotal = s /\ e.tax = tax /\ e.total = s + tax
  BY <1>8, <1>10, <1>15, <1>6 DEF HasFigures
<1>17. ValueOf(e) = 0 /\ s - 0 = s
  BY <1>13, <1>16 DEF ValueOf, T!DiscountOn, T!NoDiscount
<1>18. DocOK(e)
  <2>1. Drafted(e)
    BY <1>8, <1>11, <1>12, <1>16, <1>4, TaxFreeFits DEF Drafted
  <2>2. Totaled(e)
    BY <1>11, <1>13, <1>16, <1>17, <1>5 DEF Totaled
  <2>3. LinesTaxed(e)
    BY <1>12, <1>16 DEF LinesTaxed, TaxFree, TaxedByShare
  <2> QED
    BY <2>1, <2>2, <2>3 DEF DocOK
<1>19. RowOK([d EXCEPT !.date = day])
  BY <1>9, <1>10, <1>11, TaxFreeFits, RedatedRow
<1>20. RowOK(T!Stored(e))
  <2>1. T!Kept(T!NoDiscount) = T!NoDiscount /\ T!Column(T!NoRate) = T!NoRate
           /\ T!Column(d.rate) = d.rate
    BY <1>9 DEF T!Kept, T!NoDiscount, T!Column, Shaped
  <2>2. e.discount \in Discounts \cup {T!Kept(e.discount)}
    BY <1>16, <2>1
  <2>3. e.rate \in VatRates \cup {T!Column(e.rate)}
    BY <1>11, <1>16, <2>1
  <2> QED
    BY <1>16, <1>18, <2>2, <2>3, StoredOK DEF TaxedByShare
<1> QED
  BY <1>8, <1>19, <1>20

\* An edited expense.
ExpenseEditOf(d, day, lines, s, tax, total) ==
    [d EXCEPT !.date = day, !.lines = lines, !.subtotal = s, !.tax = tax, !.total = total]

\* It leaves the other columns alone.
LEMMA ExpenseEditFields ==
    ASSUME NEW d \in DocRow, NEW day \in 0 .. T!Always, NEW lines \in Lines,
           NEW s \in Nat, NEW tax \in Nat, NEW total \in Int
    PROVE  HasFigures(ExpenseEditOf(d, day, lines, s, tax, total),
                      d, day, lines, d.discount, d.on, d.rate, s, tax, total)
<1> PICK e : e = ExpenseEditOf(d, day, lines, s, tax, total)
  OBVIOUS
<1>1. e \in DocRow
  BY DEF DocRow, ExpenseEditOf
<1> QED
  BY <1>1 DEF DocRow, ExpenseEditOf, HasFigures

\* An edit of an expense.
LEMMA UpdateExpenseOK ==
    ASSUME RowOK(doc), NEW basket \in T!Optional(Baskets), NEW date \in T!Optional(Dates),
           T!UpdateExpense(basket, date)
    PROVE  RowOK(doc')
<1> PICK d : d = doc
  OBVIOUS
<1> PICK day, raw : day = T!Given(date, d.date) /\ raw = T!Given(basket, d.lines)
  OBVIOUS
<1> PICK lines : lines = T!Build(raw)
  OBVIOUS
<1> PICK s, tax : s = T!SumOf(lines, "total") /\ tax = T!SumOf(lines, "tax")
  OBVIOUS
<1> PICK e : e = ExpenseEditOf(d, day, lines, s, tax, s + tax)
  OBVIOUS
<1>1. /\ d.kind = "expense" /\ T!KeepsItsTreatments(basket, date)
      /\ doc' = IF basket = {} THEN [d EXCEPT !.date = day] ELSE e
  BY DEF T!UpdateExpense, ExpenseEditOf
<1>2. RowOK(d) /\ Drafted(d) /\ Shaped(d) /\ d \in DocRow
  BY RowIsShaped DEF Drafted
<1>3. /\ d.on = FALSE /\ d.date \in 0 .. T!Always /\ d.lines \in Lines
      /\ d.discount = T!NoDiscount /\ T!AllEffectiveOn(d.lines, d.date)
  BY <1>1, <1>2 DEF DocRow, Drafted
<1>4. day \in 0 .. T!Always
  BY <1>3, GivenIsSound
<1>5. CASE basket = {}
  <2>1. T!AllEffectiveOn(d.lines, day)
    <3>1. CASE date = {}
      BY <1>3, <3>1, OptionIs
    <3>2. CASE date # {}
      BY <1>1, <1>5, <3>2 DEF T!KeepsItsTreatments
    <3> QED
      BY <3>1, <3>2
  <2> QED
    BY <1>1, <1>2, <1>4, <1>5, <2>1, RedatedRow
<1>6. CASE basket # {}
  <2>1. raw \in Baskets /\ basket = {raw}
    BY <1>6, OptionIs
  <2>2. BasketOK(raw) /\ T!AllEffectiveOn(raw, day)
    BY <1>1, <2>1, InputsAreSound DEF T!KeepsItsTreatments
  <2>3. BuiltFrom(lines, raw)
    BY <2>2, BuildIs
  <2>4. LinesFit(lines, day)
    BY <2>2, <2>3, BuiltFits
  <2>5. lines \in Lines /\ s \in Nat /\ tax \in Nat /\ TaxedOnTotals(lines)
    <3>1. lines \in Lines /\ s \in Nat
      BY <2>4 DEF LinesFit
    <3>2. TaxedOnTotals(lines)
      BY <2>3 DEF BuiltFrom, TaxedOnTotals
    <3> QED
      BY <3>1, <3>2, SumOfTaxes
  <2>6. HasFigures(e, d, day, lines, d.discount, d.on, d.rate, s, tax, s + tax)
    <3>1. s + tax \in Int
      BY <2>5
    <3> QED
      BY <1>2, <1>4, <2>5, <3>1, ExpenseEditFields
  <2>7. /\ e \in DocRow /\ e.kind = "expense" /\ e.date = day /\ e.lines = lines
        /\ e.discount = T!NoDiscount /\ e.on = FALSE /\ e.rate = d.rate
        /\ e.subtotal = s /\ e.tax = tax /\ e.total = s + tax
    BY <1>1, <1>3, <2>6 DEF HasFigures
  <2>8. ValueOf(e) = 0 /\ s - 0 = s
    BY <2>5, <2>7 DEF ValueOf, T!DiscountOn, T!NoDiscount
  <2>9. DocOK(e)
    <3>1. Drafted(e)
      BY <2>4, <2>7 DEF Drafted, LinesFit
    <3>2. Totaled(e)
      BY <2>5, <2>7, <2>8 DEF Totaled
    <3>3. LinesTaxed(e)
      <4>1. e.kind \notin {"order", "invoice"} /\ e.on # TRUE /\ TaxedOnTotals(e.lines)
        BY <2>5, <2>7
      <4> QED
        BY <4>1 DEF LinesTaxed, TaxedOnTotals, TaxedByShare
    <3> QED
      BY <3>1, <3>2, <3>3 DEF DocOK
  <2>10. RowOK(e)
    BY <1>2, <1>3, <2>7, <2>9, ExactOK DEF Shaped
  <2> QED
    BY <1>1, <1>6, <2>10
<1> QED
  BY <1>5, <1>6

\* Before there is a document.
LEMMA EmptyLines == <<>> \in Lines /\ DOMAIN <<>> = {}
<1>1. ASSUME NEW I PROVE <<>> \in Seq(I) /\ Len(<<>>) = 0
  OBVIOUS
<1>2. ASSUME NEW I, NEW x \in Seq(I) PROVE x \in [1 .. Len(x) -> I] /\ DOMAIN x = 1 .. Len(x)
  OBVIOUS
<1>3. <<>> \in [1 .. 0 -> LineRow] /\ DOMAIN <<>> = 1 .. 0
  BY <1>1, <1>2, SMT
<1>4. <<>> \in Lines
  BY <1>3, SMT DEF Lines
<1>5. 1 .. 0 = {}
  OBVIOUS
<1> QED
  BY <1>3, <1>4, <1>5, SMT

\* Before there is a document, there is nothing wrong with it.
LEMMA EmptyOK == RowOK(T!Empty)
<1> PICK d : d = T!Empty
  OBVIOUS
<1>1. /\ d.kind = "none" /\ d.status = "draft" /\ d.date = 0 /\ d.lines = <<>>
      /\ d.discount = T!NoDiscount /\ d.on = FALSE /\ d.rate = T!NoRate /\ d.subtotal = 0
      /\ d.tax = 0 /\ d.total = 0
  BY DEF T!Empty
<1>2. DOMAIN d.lines = {} /\ d.lines \in Lines
  BY <1>1, EmptyLines
<1>3. T!NoDiscount \in AnyDiscount /\ 0 \in 0 .. T!Always
  <2>1. T!Always \in Nat
    BY DEF T!Always
  <2>2. 0 \in 0 .. T!Always
    BY <2>1
  <2> QED
    BY <2>2 DEF T!NoDiscount, AnyDiscount
<1>4. d \in DocRow
  BY <1>3, EmptyLines DEF DocRow, T!Empty, AnyRate
<1>5. T!SumOf(d.lines, "tax") = 0
  BY <1>2, SumOfTaxes
<1>6. T!SumOf(d.lines, "total") = 0
  <2>1. IsFiniteSet(DOMAIN d.lines)
    BY <1>2, FS_EmptySet
  <2>2. Total(FieldOf(d.lines, "total"), DOMAIN d.lines) = 0
    BY <1>2, <2>1, TotalOfZeroes
  <2> QED
    BY <2>1, <2>2, SumOfIsTotal
<1>7. ValueOf(d) = 0
  BY <1>1 DEF ValueOf, T!DiscountOn, T!NoDiscount
<1>8. Drafted(d)
  BY <1>1, <1>2, <1>4, <1>6 DEF Drafted, LinesPriced, T!AllEffectiveOn
<1>9. Totaled(d)
  BY <1>1, <1>5, <1>7 DEF Totaled
<1>10. LinesTaxed(d)
  BY <1>2 DEF LinesTaxed
<1>11. DocOK(d)
  BY <1>8, <1>9, <1>10 DEF DocOK
<1>12. T!Kept(d.discount) = d.discount /\ T!Column(d.rate) = d.rate
  BY <1>1 DEF T!Kept, T!NoDiscount, T!Column
<1> QED
  BY <1>11, <1>12, ExactOK

\* The terms a document can be created on.
LEMMA TermsAre ==
    ASSUME NEW term \in T!Terms
    PROVE  /\ ChargeOK(term[1], term[2])
           /\ term[2] \in VatRates \cup {T!Column(term[2])}
<1>1. VatRates \subseteq 0 .. T!Whole /\ T!NoRate \notin 0 .. T!Whole
  BY InputsAreSound, FineIs DEF T!NoRate
<1>2. term = <<FALSE, T!NoRate>> \/ \E r \in VatRates : term = <<TRUE, r>>
  BY DEF T!Terms
<1>3. CASE term = <<FALSE, T!NoRate>>
  BY <1>3 DEF AnyRate, T!Column, ChargeOK
<1>4. ASSUME NEW r \in VatRates, term = <<TRUE, r>>
      PROVE  /\ term[1] \in BOOLEAN /\ term[2] \in AnyRate /\ term[2] # T!NoRate
             /\ term[2] \in VatRates
  BY <1>1, <1>4 DEF AnyRate
<1> QED
  BY <1>2, <1>3, <1>4 DEF ChargeOK

\* Each operation leaves a document in order.
LEMMA CreateOK == ASSUME T!Create PROVE RowOK(doc')
<1> PICK basket \in Baskets, date \in Dates :
        \/ \E kind \in {"invoice", "quote"}, discount \in Discounts :
              T!CreateSale(kind, basket, discount, date)
        \/ T!CreateOrder(basket, date)
        \/ T!CreateExpense(basket, date)
  BY DEF T!Create
<1>1. BasketOK(basket) /\ date \in 0 .. T!Always
  BY InputsAreSound
<1>2. ASSUME NEW kind \in {"invoice", "quote"}, NEW discount \in Discounts,
             T!CreateSale(kind, basket, discount, date)
      PROVE  RowOK(doc')
  <2> PICK term \in T!Terms :
          /\ T!AllEffectiveOn(basket, date)
          /\ doc' = T!Stored(T!Sale(kind, basket, discount, term[1], term[2], date))
    BY <1>2 DEF T!CreateSale
  <2> PICK on, rate : on = term[1] /\ rate = term[2]
    OBVIOUS
  <2> PICK sale : sale = T!Sale(kind, basket, discount, on, rate, date)
    OBVIOUS
  <2>1. /\ discount \in AnyDiscount /\ ChargeOK(on, rate)
        /\ rate \in VatRates \cup {T!Column(rate)}
    BY InputsAreSound, TermsAre
  <2>2. /\ DocOK(sale) /\ sale.status = "draft"
        /\ sale.discount = discount /\ sale.rate = rate
    BY <1>1, <2>1, SaleOK
  <2>3. RowOK(T!Stored(sale))
    BY <2>1, <2>2, StoredOK
  <2> QED
    BY <2>3
<1>3. ASSUME T!CreateOrder(basket, date) PROVE RowOK(doc')
  <2> PICK term \in T!Terms :
          /\ T!AllEffectiveOn(basket, date)
          /\ doc' = T!Stored(T!Order(basket, term[1], term[2], date))
    BY <1>3 DEF T!CreateOrder
  <2> PICK on, rate : on = term[1] /\ rate = term[2]
    OBVIOUS
  <2> PICK order : order = T!Order(basket, on, rate, date)
    OBVIOUS
  <2>1. /\ ChargeOK(on, rate)
        /\ rate \in VatRates \cup {T!Column(rate)}
    BY TermsAre
  <2>2. /\ DocOK(order) /\ order.kind = "order" /\ order.discount = T!NoDiscount
        /\ order.rate = rate
    BY <1>1, <2>1, OrderOK
  <2>3. T!Kept(order.discount) = order.discount
    BY <2>2 DEF T!Kept, T!NoDiscount
  <2>4. RowOK(T!Stored(order))
    BY <2>1, <2>2, <2>3, StoredOK DEF TaxedByShare
  <2> QED
    BY <2>4
<1>4. ASSUME NEW d, DocOK(T!Expense(d, date)), T!Expense(d, date).discount = T!NoDiscount,
             T!Expense(d, date).rate = T!NoRate
      PROVE  RowOK(T!Expense(d, date))
  <2> PICK e : e = T!Expense(d, date)
    OBVIOUS
  <2>1. T!Kept(e.discount) = e.discount /\ T!Column(e.rate) = e.rate
    BY <1>4 DEF T!Kept, T!NoDiscount, T!Column
  <2> QED
    BY <1>4, <2>1, ExactOK
<1>5. ASSUME T!CreateExpense(basket, date) PROVE RowOK(doc')
  <2>1. T!AllEffectiveOn(basket, date) /\ doc' = T!Expense(basket, date)
    BY <1>5 DEF T!CreateExpense
  <2> QED
    BY <1>1, <1>4, <2>1, ExpenseOK
<1> QED
  BY <1>2, <1>3, <1>5

LEMMA UpdateOK == ASSUME RowOK(doc), T!Update PROVE RowOK(doc')
<1> PICK basket \in T!Optional(Baskets), date \in T!Optional(Dates) :
        \/ \E on \in T!Optional(BOOLEAN), rate \in T!Optional(VatRates \cup {T!NoRate}) :
              \/ \E discount \in T!Optional(Discounts) :
                    T!UpdateSale(basket, discount, on, rate, date)
              \/ T!UpdateOrder(basket, on, rate, date)
        \/ T!UpdateExpense(basket, date)
  BY DEF T!Update
<1>1. ASSUME NEW on \in T!Optional(BOOLEAN),
             NEW rate \in T!Optional(VatRates \cup {T!NoRate}),
             NEW discount \in T!Optional(Discounts),
             T!UpdateSale(basket, discount, on, rate, date)
      PROVE  RowOK(doc')
  BY <1>1, UpdateSaleOK
<1>2. ASSUME NEW on \in T!Optional(BOOLEAN),
             NEW rate \in T!Optional(VatRates \cup {T!NoRate}),
             T!UpdateOrder(basket, on, rate, date)
      PROVE  RowOK(doc')
  BY <1>2, UpdateOrderOK
<1>3. ASSUME T!UpdateExpense(basket, date) PROVE RowOK(doc')
  BY <1>3, UpdateExpenseOK
<1> QED
  BY <1>1, <1>2, <1>3

\* A document is reconciled again before it is sent.
LEMMA SendOK == ASSUME RowOK(doc), T!Send PROVE RowOK(doc')
<1> PICK d, r : d = doc /\ r = T!Reconciled(doc)
  OBVIOUS
<1>1. d.kind \in {"invoice", "quote"} /\ d.status = "draft" /\ doc' = [r EXCEPT !.status = "sent"]
  BY DEF T!Send
<1>2. Drafted(d) /\ Shaped(d) /\ d \in DocRow /\ d.on \in BOOLEAN /\ d.date \in 0 .. T!Always
  <2>1. Drafted(d) /\ Shaped(d)
    BY RowIsShaped
  <2> QED
    BY <2>1 DEF Drafted, DocRow
<1>3. CASE TaxedByShare(d)
  <2>1. DocOK(r) /\ r \in DocRow
    BY <1>1, <1>2, <1>3, ReconciledOK DEF DocOK, Drafted
  <2>2. r.discount = d.discount /\ r.rate = d.rate
    BY <1>2, ReconciledKeeps
  <2>3. DocOK(doc')
    BY <1>1, <2>1, MovedOK
  <2>4. doc'.discount = d.discount /\ doc'.rate = d.rate
    BY <1>1, <2>1, <2>2 DEF DocRow
  <2>5. T!Kept(d.discount) = d.discount /\ T!Column(d.rate) = d.rate
    BY <1>2 DEF Shaped
  <2> QED
    BY <2>3, <2>4, <2>5, ExactOK
<1>4. CASE ~TaxedByShare(d)
  <2> PICK new : new = [d EXCEPT !.status = "sent"]
    OBVIOUS
  <2>1. r = d
    BY <1>2, <1>4 DEF T!Reconciled, TaxedByShare
  <2>2. /\ new \in DocRow /\ new.date = d.date /\ new.status = "sent" /\ new.kind = d.kind
        /\ new.lines = d.lines /\ new.discount = d.discount /\ new.on = d.on
        /\ new.rate = d.rate /\ new.subtotal = d.subtotal /\ new.tax = d.tax
        /\ new.total = d.total
    BY <1>2 DEF DocRow
  <2>3. T!AllEffectiveOn(d.lines, d.date)
    BY <1>2 DEF Drafted
  <2>4. RowOK(new)
    BY <1>2, <1>4, <2>2, <2>3, MovedRow
  <2> QED
    BY <1>1, <2>1, <2>4
<1> QED
  BY <1>3, <1>4

LEMMA ApproveOK == ASSUME RowOK(doc), T!Approve PROVE RowOK(doc')
<1> PICK d, new : d = doc /\ new = [d EXCEPT !.status = "approved"]
  OBVIOUS
<1>1. d.kind = "quote" /\ doc' = new
  BY DEF T!Approve
<1>2. Drafted(d) /\ d \in DocRow /\ d.date \in 0 .. T!Always
  <2>1. Drafted(d)
    BY RowIsShaped
  <2> QED
    BY <2>1 DEF Drafted, DocRow
<1>3. /\ new \in DocRow /\ new.date = d.date /\ new.status = "approved" /\ new.kind = d.kind
      /\ new.lines = d.lines /\ new.discount = d.discount /\ new.on = d.on
      /\ new.rate = d.rate /\ new.subtotal = d.subtotal /\ new.tax = d.tax
      /\ new.total = d.total
  BY <1>2 DEF DocRow
<1>4. T!AllEffectiveOn(d.lines, d.date)
  BY <1>2 DEF Drafted
<1>5. ~TaxedByShare(d)
  BY <1>1 DEF TaxedByShare
<1>6. RowOK(new)
  BY <1>2, <1>3, <1>4, <1>5, MovedRow
<1> QED
  BY <1>1, <1>6

\* An invoice made of a row's lines and terms is a new document of them.
LEMMA InvoiceOfOK ==
    ASSUME RowOK(doc), NEW date \in Dates, T!InvoiceOf(doc, date) PROVE RowOK(doc')
<1> PICK d, rate : d = doc /\ rate = IF d.on THEN d.rate ELSE T!NoRate
  OBVIOUS
<1> PICK sale : sale = T!Sale("invoice", d.lines, d.discount, d.on, rate, date)
  OBVIOUS
<1>1. T!AllEffectiveOn(d.lines, date) /\ doc' = T!Stored(sale)
  BY DEF T!InvoiceOf
<1>2. Drafted(d) /\ Shaped(d)
  BY RowIsShaped
<1>3. /\ d.lines \in Lines /\ d.discount \in AnyDiscount /\ d.on \in BOOLEAN
      /\ d.rate \in AnyRate /\ (d.on = TRUE => d.rate # T!NoRate)
  BY <1>2 DEF Drafted, DocRow
<1>4. /\ BasketOK(d.lines) /\ rate \in AnyRate /\ date \in 0 .. T!Always
      /\ (d.on = TRUE => rate # T!NoRate)
  BY <1>3, LinesAreRows, InputsAreSound DEF AnyRate
<1> PICK lines, discount, on : lines = d.lines /\ discount = d.discount /\ on = d.on
  OBVIOUS
<1>5. DocOK(sale) /\ sale.status = "draft" /\ sale.discount = discount /\ sale.rate = rate
  <2>1. sale = T!Sale("invoice", lines, discount, on, rate, date)
    OBVIOUS
  <2>2. /\ BasketOK(lines) /\ discount \in AnyDiscount /\ T!AllEffectiveOn(lines, date)
    BY <1>1, <1>3, <1>4
  <2>3. ChargeOK(on, rate)
    BY <1>3, <1>4 DEF ChargeOK
  <2> QED
    BY <1>4, <2>1, <2>2, <2>3, SaleOK
<1>6. T!Kept(d.discount) = d.discount /\ T!Column(rate) = rate
  BY <1>2, <1>3 DEF Shaped, T!Column
<1>7. RowOK(T!Stored(sale))
  BY <1>5, <1>6, StoredOK
<1> QED
  BY <1>1, <1>7

LEMMA ConvertOK ==
    ASSUME RowOK(doc), NEW date \in Dates, T!Convert(date) PROVE RowOK(doc')
BY InvoiceOfOK DEF T!Convert

\* A copy: of an invoice or an expense built anew, of an order with its figures.
CopyOf(d, date) == [d EXCEPT !.status = "draft", !.date = date]

\* A copy is a draft of its own date; its lines are in force, or it is refused.
LEMMA DuplicateOK ==
    ASSUME RowOK(doc), NEW date \in Dates, T!Duplicate(date) PROVE RowOK(doc')
<1> PICK d : d = doc
  OBVIOUS
<1>1. /\ Drafted(d) /\ Shaped(d) /\ d \in DocRow /\ d.lines \in Lines
      /\ date \in 0 .. T!Always
  <2>1. Drafted(d) /\ Shaped(d)
    BY RowIsShaped
  <2> QED
    BY <2>1, InputsAreSound DEF Drafted, DocRow
<1>2. CASE T!AllEffectiveOn(d.lines, date) /\ doc' = T!Expense(d.lines, date)
  <2>1. BasketOK(d.lines)
    BY <1>1, LinesAreRows
  <2>2. /\ DocOK(doc') /\ doc'.discount = T!NoDiscount /\ doc'.rate = T!NoRate
    BY <1>1, <1>2, <2>1, ExpenseOK
  <2>3. T!Kept(T!NoDiscount) = T!NoDiscount /\ T!Column(T!NoRate) = T!NoRate
    BY DEF T!Kept, T!NoDiscount, T!Column
  <2> QED
    BY <2>2, <2>3, ExactOK
<1>3. CASE d.kind = "order" /\ doc' = CopyOf(d, date)
  <2> PICK e : e = CopyOf(d, date)
    OBVIOUS
  <2>1. e \in DocRow
    BY <1>1 DEF DocRow, CopyOf
  <2>2. /\ e.date = date /\ e.kind = d.kind /\ e.lines = d.lines /\ e.discount = d.discount
        /\ e.on = d.on /\ e.rate = d.rate /\ e.subtotal = d.subtotal /\ e.tax = d.tax
        /\ e.total = d.total /\ e.status = "draft"
    BY <1>1 DEF DocRow, CopyOf
  <2>3. TaxFree(d.lines)
    BY <1>1, <1>3 DEF Shaped
  <2>4. T!AllEffectiveOn(d.lines, date)
    BY <1>1, <2>3, TaxFreeFits
  <2>5. RowOK(e)
    BY <1>1, <2>1, <2>2, <2>4, MovedRow
  <2> QED
    BY <1>3, <2>5
<1>4. CASE T!InvoiceOf(d, date)
  BY <1>4, InvoiceOfOK
<1> QED
  BY <1>2, <1>3, <1>4 DEF T!Duplicate, CopyOf

\* Every document row, at all times, is that of a document in order: its lines are priced
\* and in force, and its figures add up and are taxed as its kind and the terms it was
\* typed with call for, terms of which the row keeps what its columns hold.  An invoice
\* taxed by line that was sent is in order by the row's own terms.
THEOREM DocumentsAreInOrder == T!Spec => []RowOK(doc)
<1>1. T!Init => RowOK(doc)
  BY EmptyOK DEF T!Init
<1>2. RowOK(doc) /\ [T!Next]_doc => RowOK(doc)'
  <2> SUFFICES ASSUME RowOK(doc), [T!Next]_doc PROVE RowOK(doc')
    BY DEF RowOK
  <2>1. CASE T!Create
    BY <2>1, CreateOK
  <2>2. CASE T!Update
    BY <2>2, UpdateOK
  <2>3. CASE T!Send
    BY <2>3, SendOK
  <2>4. CASE T!Approve
    BY <2>4, ApproveOK
  <2>5. ASSUME NEW date \in Dates, T!Convert(date) PROVE RowOK(doc')
    BY <2>5, ConvertOK
  <2>6. ASSUME NEW date \in Dates, T!Duplicate(date) PROVE RowOK(doc')
    BY <2>6, DuplicateOK
  <2>7. CASE UNCHANGED doc
    BY <2>7
  <2> QED
    BY <2>1, <2>2, <2>3, <2>4, <2>5, <2>6, <2>7 DEF T!Next
<1> QED
  BY <1>1, <1>2, PTL DEF T!Spec

\* What is saved is what the preview computes from the lines and the terms that were
\* typed: subtotal, discount, tax and total agree after every sequence of creations,
\* edits, conversions and copies, whichever of them recomputed what
\* (common/financial.py).  The row keeps those terms in fewer decimals, which may show
\* other totals (SentTotalsStand says when not).
THEOREM TotalsAreAsPreviewed == T!Spec => []SavedAsPreviewed
<1>1. ASSUME RowOK(doc) PROVE T!SavedAsPreviewed
  <2>1. PICK t \in AnyDiscount, r \in AnyRate :
          /\ t \in Discounts \cup {doc.discount} /\ T!Kept(t) = doc.discount
          /\ r \in VatRates \cup {doc.rate} /\ T!Column(r) = doc.rate
          /\ DocOK(TermsOf(doc, t, r))
    BY <1>1, RowIsTyped
  <2> PICK d : d = TermsOf(doc, t, r)
    OBVIOUS
  <2>2. WithTerms(d, doc, t, r)
    BY <1>1, TermsAlone DEF RowOK
  <2>3. T!Preview(d) = <<doc.subtotal, doc.tax, doc.total>>
    BY <2>1, <2>2, OKIsPreviewed DEF WithTerms
  <2>4. d \in T!Typed(doc)
    BY <2>1, TypedIs
  <2> QED
    BY <2>3, <2>4 DEF T!SavedAsPreviewed
<1> QED
  BY <1>1, DocumentsAreInOrder, PTL DEF SavedAsPreviewed

\* An invoice taxed by line leaves the draft with the totals its row shows: sending it
\* works them out from the stored terms (mark_as_sent, _recalculate_line_tax).
THEOREM SentInvoicesStand == T!Spec => []SentTotalsStand
<1>1. ASSUME RowOK(doc) PROVE T!SentTotalsStand
  <2> SUFFICES ASSUME doc.kind = "invoice", doc.status = "sent", ~doc.on
               PROVE  T!Preview(doc) = <<doc.subtotal, doc.tax, doc.total>>
    BY DEF T!SentTotalsStand
  <2>1. doc.on \in BOOLEAN
    BY <1>1 DEF RowOK, DocRow
  <2>2. DocOK(doc)
    BY <1>1, <2>1 DEF RowOK, TaxedByShare
  <2> QED
    BY <2>2, OKIsPreviewed
<1> QED
  BY <1>1, DocumentsAreInOrder, PTL DEF SentTotalsStand

\* On an invoice taxed by line, the taxable shares of the lines add up to the net amount
\* to the cent, and no share exceeds its line or falls below nothing, for any number of
\* lines and any amounts (allocate_discount, by largest remainders).
THEOREM DiscountsAddUp == T!Spec => []AllocationAddsUp
<1>1. ASSUME RowOK(doc) PROVE T!AllocationAddsUp
  <2> SUFFICES ASSUME doc.kind = "invoice", ~doc.on PROVE T!AllocationAddsUp
    BY DEF T!AllocationAddsUp
  <2>1. PICK t \in AnyDiscount, r \in AnyRate :
          /\ t \in Discounts \cup {doc.discount} /\ T!Kept(t) = doc.discount
          /\ r \in VatRates \cup {doc.rate} /\ T!Column(r) = doc.rate
          /\ DocOK(TermsOf(doc, t, r))
    BY <1>1, RowIsTyped
  <2> PICK d : d = TermsOf(doc, t, r)
    OBVIOUS
  <2>2. WithTerms(d, doc, t, r) /\ d.on \in BOOLEAN
    BY <1>1, TermsAlone DEF RowOK, WithTerms, DocRow
  <2>3. TaxedByShare(d) /\ DocOK(d)
    BY <2>1, <2>2 DEF WithTerms, TaxedByShare
  <2>4. /\ T!SumOf(doc.lines, "taxable") = doc.subtotal - T!DiscountOn(doc.subtotal, d.discount)
        /\ \A n \in DOMAIN doc.lines : doc.lines[n].taxable \in 0 .. doc.lines[n].total
    BY <2>2, <2>3, OKAddsUp DEF WithTerms
  <2>5. d \in T!Typed(doc)
    BY <2>1, TypedIs
  <2> QED
    BY <2>4, <2>5 DEF T!AllocationAddsUp
<1> QED
  BY <1>1, DocumentsAreInOrder, PTL DEF AllocationAddsUp

\* Every line's tax treatment is in force on the date of its document, also when only
\* the date of it was changed or it was copied to another day.
THEOREM TreatmentsAreInForce == T!Spec => []TreatmentsFitTheDate
<1>1. RowOK(doc) => TreatmentsFitTheDate
  BY RowIsShaped DEF Drafted, TreatmentsFitTheDate, T!TreatmentsFitTheDate
<1> QED
  BY <1>1, DocumentsAreInOrder, PTL

------------------------------------------------------------------------------
(***************************************************************************)
(* The books: a vendor's statements carry forward.  The entries of any     *)
(* period are those of one ledger, so what the opening balance adds up and *)
(* what the rows of the period add up make the next opening balance; the   *)
(* closing one is a running balance that is rounded at every row.          *)
(***************************************************************************)
\* 2 * |x - y| is at most z.
Close(x, y, z) == 2 * (x - y) <= z /\ 2 * (y - x) <= z

LEMMA CloseIs ==
    ASSUME NEW x \in Int, NEW y \in Int, NEW z \in Int
    PROVE  Close(x, y, z) <=> 2 * A!Abs(x - y) <= z
BY DEF Close, A!Abs

LEMMA RateUnitIs == RateUnit \in Nat \ {0} /\ RateUnit \in Int
BY BooksAssumption DEF A!BooksConstants

\* A rounded amount is half a cent away at most (quantize_money).
LEMMA QuantizedNear ==
    ASSUME NEW x \in Int
    PROVE  A!Quantized(x) \in Int /\ Close(A!Quantized(x), x, RateUnit)
<1>u. PICK u, a, m : u = RateUnit /\ a = A!Abs(x) /\ m = 2 * a + u
  OBVIOUS
<1>q. PICK q, r : q = m \div (2 * u) /\ r = m % (2 * u)
  OBVIOUS
<1>1. u \in Nat /\ u > 0 /\ a \in Nat /\ a = IF x < 0 THEN -x ELSE x
  BY <1>u, RateUnitIs DEF A!Abs
<1>2. m \in Nat /\ 2 * u \in Nat \ {0}
  BY <1>u, <1>1
<1>3. Divides(m, 2 * u, q, r)
  BY <1>2, <1>q, Division
<1>c. PICK c : c = u * q
  OBVIOUS
<1>4. c \in Int /\ m = 2 * c + r /\ r \in 0 .. 2 * u - 1
  <2>1. q \in Nat /\ r \in 0 .. 2 * u - 1 /\ m = (2 * u) * q + r
    BY <1>3 DEF Divides
  <2>2. c \in Int
    BY <1>c, <1>1, <2>1
  <2>3. (2 * u) * q = 2 * (u * q)
    BY <1>1, <2>1
  <2> QED
    BY <1>c, <2>1, <2>2, <2>3
<1>5. A!Quantized(x) = IF x < 0 THEN -c ELSE c
  BY <1>u, <1>q, <1>c DEF A!Quantized
<1>6. 2 * c = 2 * a + u - r
  BY <1>u, <1>1, <1>4
<1>7. /\ x \in Int /\ u = RateUnit
      /\ A!Quantized(x) = IF x < 0 THEN -c ELSE c
      /\ 2 * c = 2 * a + u - r
  BY <1>u, <1>5, <1>6
<1> QED
  BY <1>1, <1>4, <1>7 DEF Close

\* The books add up and sort with the operators of the community modules.
LEMMA ExactIs ==
    ASSUME NEW e, IsFiniteSet(DOMAIN e)
    PROVE  A!Exact(e) = Total([x \in DOMAIN e |-> e[x].amount], DOMAIN e)
<1> PICK w, S : w = [x \in DOMAIN e |-> e[x].amount] /\ S = DOMAIN w
  OBVIOUS
<1>1. S = DOMAIN e /\ IsFiniteSet(S)
  OBVIOUS
<1>2. A!Exact(e) = A!SumFunction(w)
  BY DEF A!Exact
<1>3. A!SumFunction(w) = SumFunction(w)
  BY Zenon DEF A!SumFunction, A!SumFunctionOnSet, A!FoldFunctionOnSet, A!MapThenFoldSet,
     SumFunction, SumFunctionOnSet, FoldFunctionOnSet, MapThenFoldSet
<1>4. SumFunction(w) = Total(w, S)
  BY <1>1, SumFunctionIsTotal
<1> QED
  BY <1>1, <1>2, <1>3, <1>4

LEMMA SameOrder == ASSUME NEW key PROVE A!InOrder(key) = InOrder(key)
BY Zenon DEF A!InOrder, InOrder, A!Cardinality, Cardinality, A!Earlier, Earlier

LEMMA SameCount == ASSUME NEW S PROVE A!Cardinality(S) = Cardinality(S)
BY Zenon DEF A!Cardinality, Cardinality

------------------------------------------------------------------------------
(* The ledger of one table *)

\* The slots the rows of a table give: 0 is the row, k its k-th payment.
Slots(book, table, rows) ==
    UNION { {book} \X {n} \X (0 .. Len(table[n].payments)) : n \in rows }

DayAt(table, x) ==
    IF x[3] = 0 THEN table[x[2]].date ELSE table[x[2]].payments[x[3]].date

\* What a slot adds to the balance, when worth has the amounts of the payments.
WorthAt(table, worth, x) ==
    IF x[3] = 0 THEN RateUnit * table[x[2]].total ELSE -worth[<<x[2], x[3]>>]

\* A table of documents with payments, of numbers.
Payable(table) ==
    /\ table \in Seq(Range(table))
    /\ \A n \in DOMAIN table :
          /\ table[n].date \in Nat /\ table[n].total \in Nat
          /\ Len(table[n].payments) \in Nat
          /\ \A k \in 1 .. Len(table[n].payments) : table[n].payments[k].date \in Nat

\* A day and an amount for each of finitely many slots of some books.
Ledger(D, day, w, Books) ==
    /\ IsFiniteSet(D) /\ D \in SUBSET (Books \X Nat \X Nat)
    /\ \A x \in D : day[x] \in Nat /\ w[x] \in Int

OnDays(D, day, from, to) == { x \in D : day[x] \in from .. to }

\* The entries are those of the ledger on the days from .. to.
Shows(e, D, day, w, from, to) ==
    /\ DOMAIN e = OnDays(D, day, from, to)
    /\ \A x \in DOMAIN e : e[x].date = day[x] /\ e[x].amount = w[x] /\ e[x].credit \in BOOLEAN

LEMMA SlotsAre ==
    ASSUME NEW book, NEW table, NEW rows
    PROVE  \A x \in Slots(book, table, rows) :
              /\ x = <<book, x[2], x[3]>> /\ x[2] \in rows
              /\ x[3] \in 0 .. Len(table[x[2]].payments)
<1> SUFFICES ASSUME NEW x \in Slots(book, table, rows)
             PROVE  /\ x = <<book, x[2], x[3]>> /\ x[2] \in rows
                    /\ x[3] \in 0 .. Len(table[x[2]].payments)
  OBVIOUS
<1>1. PICK n \in rows : x \in {book} \X {n} \X (0 .. Len(table[n].payments))
  BY DEF Slots
<1> QED
  BY <1>1

LEMMA SlotsAreFinite ==
    ASSUME NEW book, NEW table, NEW rows, IsFiniteSet(rows),
           \A n \in rows : Len(table[n].payments) \in Nat
    PROVE  IsFiniteSet(Slots(book, table, rows))
<1> PICK B : B = [n \in rows |-> {book} \X {n} \X (0 .. Len(table[n].payments))]
  OBVIOUS
<1>1. ASSUME NEW n \in rows PROVE IsFiniteSet(B[n])
  <2> PICK K, f : /\ K = 0 .. Len(table[n].payments)
                  /\ f = [k \in K |-> <<book, n, k>>]
    OBVIOUS
  <2>1. IsFiniteSet(K)
    <3> PICK m : m = Len(table[n].payments)
      OBVIOUS
    <3>1. m \in Int /\ 0 \in Int /\ K = 0 .. m
      OBVIOUS
    <3> QED
      BY <3>1, FS_Interval
  <2>2. B[n] = {book} \X {n} \X K
    OBVIOUS
  <2>3. f \in [K -> B[n]]
    BY <2>2
  <2>4. \A x \in B[n] : \E k \in K : f[k] = x
    BY <2>2
  <2>5. f \in Surjection(K, B[n])
    BY <2>3, <2>4, Zenon DEF Surjection
  <2> QED
    BY <2>1, <2>5, FS_Surjection
<1> PICK R : R = { B[n] : n \in rows }
  OBVIOUS
<1>2. IsFiniteSet(R)
  <2>1. B \in Surjection(rows, R)
    BY Zenon DEF Surjection
  <2> QED
    BY <2>1, FS_Surjection
<1>3. \A Q \in R : IsFiniteSet(Q)
  BY <1>1
<1>4. Slots(book, table, rows) = UNION R
  BY DEF Slots
<1> QED
  BY <1>2, <1>3, <1>4, FS_UNION

\* The slots of a table are a ledger.
LEMMA SlotsLedger ==
    ASSUME NEW book, NEW table, Payable(table), NEW rows, rows \subseteq DOMAIN table,
           NEW worth,
           \A n \in DOMAIN table : \A k \in 1 .. Len(table[n].payments) :
               worth[<<n, k>>] \in Int
    PROVE  LET D == Slots(book, table, rows) IN
           Ledger(D, [x \in D |-> DayAt(table, x)], [x \in D |-> WorthAt(table, worth, x)],
                  {book})
<1> PICK D, day, w : /\ D = Slots(book, table, rows)
                     /\ day = [x \in D |-> DayAt(table, x)]
                     /\ w = [x \in D |-> WorthAt(table, worth, x)]
  OBVIOUS
<1>1. /\ DOMAIN table = 1 .. Len(table) /\ IsFiniteSet(rows) /\ rows \subseteq Nat
      /\ \A n \in rows : Len(table[n].payments) \in Nat
  <2>1. DOMAIN table = 1 .. Len(table) /\ Len(table) \in Nat
    BY DEF Payable
  <2>2. IsFiniteSet(rows)
    <3> PICK Q : Q = 1 .. Len(table)
      OBVIOUS
    <3>1. IsFiniteSet(Q)
      BY <2>1, FS_Interval
    <3>2. rows \subseteq Q
      BY <2>1
    <3> QED
      BY <3>1, <3>2, FS_Subset
  <2> QED
    BY <2>1, <2>2 DEF Payable
<1>2. IsFiniteSet(D)
  BY <1>1, SlotsAreFinite
<1>3. ASSUME NEW x \in D
      PROVE  /\ x \in {book} \X Nat \X Nat /\ x[2] \in DOMAIN table
             /\ x[3] \in 0 .. Len(table[x[2]].payments)
  <2>1. /\ x = <<book, x[2], x[3]>> /\ x[2] \in rows
        /\ x[3] \in 0 .. Len(table[x[2]].payments)
    BY SlotsAre
  <2>2. x[2] \in Nat /\ x[3] \in Nat
    BY <1>1, <2>1
  <2> QED
    BY <2>1, <2>2
<1>4. ASSUME NEW x \in D PROVE day[x] \in Nat /\ w[x] \in Int
  <2> PICK n, k : n = x[2] /\ k = x[3]
    OBVIOUS
  <2>1. n \in DOMAIN table /\ k \in 0 .. Len(table[n].payments)
    BY <1>3
  <2>2. CASE k = 0
    <3>1. table[n].date \in Nat /\ table[n].total \in Nat
      BY <2>1 DEF Payable
    <3>2. RateUnit * table[n].total \in Int
      BY <3>1, RateUnitIs
    <3> QED
      BY <2>2, <3>1, <3>2 DEF DayAt, WorthAt
  <2>3. CASE k # 0
    <3>1. k \in 1 .. Len(table[n].payments)
      BY <1>1, <2>1, <2>3
    <3>2. table[n].payments[k].date \in Nat /\ worth[<<n, k>>] \in Int
      BY <2>1, <3>1 DEF Payable
    <3> QED
      BY <2>3, <3>2 DEF DayAt, WorthAt
  <2> QED
    BY <2>2, <2>3
<1> QED
  BY <1>2, <1>3, <1>4 DEF Ledger

------------------------------------------------------------------------------
(* What a vendor was billed and paid *)

BilledRows(v) == { n \in DOMAIN expenses : A!BilledBy(v, expenses[n]) }

OrderedRows(v) == { n \in DOMAIN orders : A!OrderedFrom(v, orders[n]) }

BilledSlots(v) == Slots(1, expenses, BilledRows(v))

OrderedSlots(v) == Slots(2, orders, OrderedRows(v))

PaidInCents ==
    [p \in UNION { {n} \X (1 .. Len(expenses[n].payments)) : n \in DOMAIN expenses } |->
        RateUnit * expenses[p[1]].payments[p[2]].amount]

PaidUnrounded ==
    [p \in UNION { {n} \X (1 .. Len(orders[n].payments)) : n \in DOMAIN orders } |->
        orders[p[1]].payments[p[2]].amount * orders[p[1]].payments[p[2]].rate]

\* The tables of the vendors are some of those the services can leave.
VendorTables == expenses \in ExpenseTables \cup {<<>>} /\ orders \in OrderTables \cup {<<>>}

LEMMA MembersOfSeq ==
    ASSUME NEW R, NEW s \in Seq(R) PROVE \A k \in 1 .. Len(s) : s[k] \in R
OBVIOUS

LEMMA ExpensesPayable ==
    ASSUME expenses \in ExpenseTables \cup {<<>>}
    PROVE  /\ Payable(expenses)
           /\ \A n \in DOMAIN expenses : \A k \in 1 .. Len(expenses[n].payments) :
                 /\ PaidInCents[<<n, k>>] = RateUnit * expenses[n].payments[k].amount
                 /\ PaidInCents[<<n, k>>] \in Int
<1>1. expenses \in Seq(Range(expenses))
  <2>1. CASE expenses \in ExpenseTables
    <3>1. expenses \in InvoiceTables \cup ExpenseTables \cup OrderTables \cup QuoteTables
      BY <2>1
    <3>2. expenses \in Seq(A!Range(expenses))
      BY <3>1, BooksAssumption, Zenon DEF A!BooksConstants
    <3> QED
      BY <3>2 DEF A!Range, Range
  <2>2. CASE expenses = <<>>
    BY <2>2
  <2> QED
    BY <2>1, <2>2
<1>2. ASSUME NEW n \in DOMAIN expenses PROVE A!RealExpense(expenses[n])
  <2>1. expenses \in ExpenseTables
    OBVIOUS
  <2>2. expenses[n] \in UNION { A!Range(table) : table \in ExpenseTables }
    BY <2>1 DEF A!Range
  <2> QED
    BY <2>2, BooksAssumption DEF A!BooksConstants
<1>3. ASSUME NEW n \in DOMAIN expenses
      PROVE  /\ expenses[n].date \in Nat /\ expenses[n].total \in Nat
             /\ Len(expenses[n].payments) \in Nat
             /\ \A k \in 1 .. Len(expenses[n].payments) :
                   /\ expenses[n].payments[k].date \in Nat
                   /\ expenses[n].payments[k].amount \in Nat
  <2>1. expenses[n].payments \in Seq([date: Nat, amount: Nat])
    BY <1>2 DEF A!RealExpense
  <2>2. \A k \in 1 .. Len(expenses[n].payments) :
           expenses[n].payments[k] \in [date: Nat, amount: Nat]
    BY <2>1, MembersOfSeq
  <2> QED
    BY <1>2, <2>1, <2>2 DEF A!RealExpense
<1>4. ASSUME NEW n \in DOMAIN expenses, NEW k \in 1 .. Len(expenses[n].payments)
      PROVE  /\ PaidInCents[<<n, k>>] = RateUnit * expenses[n].payments[k].amount
             /\ PaidInCents[<<n, k>>] \in Int
  <2>1. <<n, k>> \in UNION { {m} \X (1 .. Len(expenses[m].payments)) :
                               m \in DOMAIN expenses }
    OBVIOUS
  <2>2. PaidInCents[<<n, k>>] = RateUnit * expenses[n].payments[k].amount
    BY <2>1 DEF PaidInCents
  <2>3. expenses[n].payments[k].amount \in Nat
    BY <1>3
  <2> QED
    BY <2>2, <2>3, RateUnitIs
<1> QED
  BY <1>1, <1>3, <1>4 DEF Payable

LEMMA OrdersPayable ==
    ASSUME orders \in OrderTables \cup {<<>>}
    PROVE  /\ Payable(orders)
           /\ \A n \in DOMAIN orders : \A k \in 1 .. Len(orders[n].payments) :
                 /\ PaidUnrounded[<<n, k>>]
                      = orders[n].payments[k].amount * orders[n].payments[k].rate
                 /\ PaidUnrounded[<<n, k>>] \in Int
<1>1. orders \in Seq(Range(orders))
  <2>1. CASE orders \in OrderTables
    <3>1. orders \in InvoiceTables \cup ExpenseTables \cup OrderTables \cup QuoteTables
      BY <2>1
    <3>2. orders \in Seq(A!Range(orders))
      BY <3>1, BooksAssumption, Zenon DEF A!BooksConstants
    <3> QED
      BY <3>2 DEF A!Range, Range
  <2>2. CASE orders = <<>>
    BY <2>2
  <2> QED
    BY <2>1, <2>2
<1>2. ASSUME NEW n \in DOMAIN orders PROVE A!RealOrder(orders[n])
  <2>1. orders \in OrderTables
    OBVIOUS
  <2>2. orders[n] \in UNION { A!Range(table) : table \in OrderTables }
    BY <2>1 DEF A!Range
  <2> QED
    BY <2>2, BooksAssumption DEF A!BooksConstants
<1>3. ASSUME NEW n \in DOMAIN orders
      PROVE  /\ orders[n].date \in Nat /\ orders[n].total \in Nat
             /\ Len(orders[n].payments) \in Nat
             /\ \A k \in 1 .. Len(orders[n].payments) :
                   /\ orders[n].payments[k].date \in Nat
                   /\ orders[n].payments[k].amount \in Nat
                   /\ orders[n].payments[k].rate \in Nat
  <2>1. orders[n].payments \in Seq([date: Nat, amount: Nat, rate: Nat])
    BY <1>2 DEF A!RealOrder
  <2>2. \A k \in 1 .. Len(orders[n].payments) :
           orders[n].payments[k] \in [date: Nat, amount: Nat, rate: Nat]
    BY <2>1, MembersOfSeq
  <2> QED
    BY <1>2, <2>1, <2>2 DEF A!RealOrder
<1>4. ASSUME NEW n \in DOMAIN orders, NEW k \in 1 .. Len(orders[n].payments)
      PROVE  /\ PaidUnrounded[<<n, k>>]
                  = orders[n].payments[k].amount * orders[n].payments[k].rate
             /\ PaidUnrounded[<<n, k>>] \in Int
  <2>1. <<n, k>> \in UNION { {m} \X (1 .. Len(orders[m].payments)) :
                               m \in DOMAIN orders }
    OBVIOUS
  <2>2. PaidUnrounded[<<n, k>>] = orders[n].payments[k].amount * orders[n].payments[k].rate
    BY <2>1 DEF PaidUnrounded
  <2>3. orders[n].payments[k].amount \in Nat /\ orders[n].payments[k].rate \in Nat
    BY <1>3
  <2>4. \A i, j \in Nat : i * j \in Int
    OBVIOUS
  <2> QED
    BY <2>2, <2>3, <2>4
<1> QED
  BY <1>1, <1>3, <1>4 DEF Payable

\* The entry a slot makes.
EntryAt(table, worth, x) ==
    IF x[3] = 0 THEN A!Entry(DayAt(table, x), FALSE, RateUnit * table[x[2]].total)
    ELSE A!Entry(DayAt(table, x), TRUE, worth[<<x[2], x[3]>>])

PartOfBook(e, table, worth, D, from, to) ==
    /\ DOMAIN e = { y \in D : DayAt(table, y) \in from .. to }
    /\ \A x \in DOMAIN e : e[x] = EntryAt(table, worth, x)

\* What a slot of a book is.
Slotted(table, worth, x) ==
    /\ x[3] = 0 => RateUnit * table[x[2]].total \in Int
    /\ x[3] # 0 => worth[<<x[2], x[3]>>] \in Int

LEMMA EntryAtIs ==
    ASSUME NEW table, NEW worth, NEW x, Slotted(table, worth, x)
    PROVE  /\ EntryAt(table, worth, x).date = DayAt(table, x)
           /\ EntryAt(table, worth, x).amount = WorthAt(table, worth, x)
           /\ EntryAt(table, worth, x).credit \in BOOLEAN
<1>1. CASE x[3] = 0
  <2> PICK a, d : a = RateUnit * table[x[2]].total /\ d = DayAt(table, x)
    OBVIOUS
  <2>1. a \in Int /\ EntryAt(table, worth, x) = A!Entry(d, FALSE, a)
    BY <1>1 DEF Slotted, EntryAt
  <2>2. WorthAt(table, worth, x) = a
    BY <1>1 DEF WorthAt
  <2> PICK entry : entry = EntryAt(table, worth, x)
    OBVIOUS
  <2>3. entry = A!Entry(d, FALSE, a) /\ a \in Int
    BY <2>1
  <2>4. entry.date = d /\ entry.amount = a /\ entry.credit \in BOOLEAN
    BY <2>3 DEF A!Entry
  <2> QED
    BY <2>2, <2>4, Zenon
<1>2. CASE x[3] # 0
  <2> PICK a, d : a = worth[<<x[2], x[3]>>] /\ d = DayAt(table, x)
    OBVIOUS
  <2>1. a \in Int /\ EntryAt(table, worth, x) = A!Entry(d, TRUE, a)
    BY <1>2 DEF Slotted, EntryAt
  <2>2. WorthAt(table, worth, x) = -a
    BY <1>2 DEF WorthAt
  <2> PICK entry : entry = EntryAt(table, worth, x)
    OBVIOUS
  <2>3. entry = A!Entry(d, TRUE, a) /\ a \in Int
    BY <2>1
  <2>4. entry.date = d /\ entry.amount = -a /\ entry.credit \in BOOLEAN
    BY <2>3 DEF A!Entry
  <2> QED
    BY <2>2, <2>4, Zenon
<1> QED
  BY <1>1, <1>2

\* What is in the slots of a table with payments.
LEMMA SlotsSlotted ==
    ASSUME NEW book, NEW table, Payable(table), NEW rows, rows \subseteq DOMAIN table,
           NEW worth,
           \A n \in DOMAIN table : \A k \in 1 .. Len(table[n].payments) :
               worth[<<n, k>>] \in Int,
           NEW x \in Slots(book, table, rows)
    PROVE  /\ x[2] \in DOMAIN table
           /\ x[3] # 0 => x[3] \in 1 .. Len(table[x[2]].payments)
           /\ Slotted(table, worth, x)
<1> PICK n, k : n = x[2] /\ k = x[3]
  OBVIOUS
<1>1. n \in rows /\ n \in DOMAIN table /\ k \in 0 .. Len(table[n].payments)
  BY SlotsAre
<1>2. table[n].total \in Nat /\ Len(table[n].payments) \in Nat
  BY <1>1 DEF Payable
<1>3. k # 0 => k \in 1 .. Len(table[n].payments)
  BY <1>1, <1>2
<1>4. RateUnit * table[n].total \in Int
  BY <1>2, RateUnitIs
<1>5. k # 0 => worth[<<n, k>>] \in Int
  BY <1>1, <1>3
<1> QED
  BY <1>1, <1>3, <1>4, <1>5 DEF Slotted

\* A part of a book shows its ledger.
LEMMA PartsShow ==
    ASSUME NEW table, NEW worth, NEW D, \A x \in D : Slotted(table, worth, x),
           NEW from, NEW to, NEW e, PartOfBook(e, table, worth, D, from, to)
    PROVE  Shows(e, D, [x \in D |-> DayAt(table, x)], [x \in D |-> WorthAt(table, worth, x)],
                 from, to)
<1>d. PICK day, w : /\ day = [x \in D |-> DayAt(table, x)]
                    /\ w = [x \in D |-> WorthAt(table, worth, x)]
  OBVIOUS
<1>1. \A x \in D : day[x] = DayAt(table, x) /\ w[x] = WorthAt(table, worth, x)
  BY <1>d
<1>2. DOMAIN e = OnDays(D, day, from, to)
  <2>1. DOMAIN e = { y \in D : DayAt(table, y) \in from .. to }
    BY DEF PartOfBook
  <2>2. \A y \in D : DayAt(table, y) \in from .. to <=> day[y] \in from .. to
    BY <1>1
  <2> QED
    BY <2>1, <2>2, Zenon DEF OnDays
<1>3. ASSUME NEW x \in DOMAIN e
      PROVE  e[x].date = day[x] /\ e[x].amount = w[x] /\ e[x].credit \in BOOLEAN
  <2>1. x \in D
    BY <1>2 DEF OnDays
  <2>2. e[x] = EntryAt(table, worth, x)
    BY DEF PartOfBook
  <2> QED
    BY <1>1, <2>1, <2>2, EntryAtIs
<1> QED
  BY <1>d, <1>2, <1>3 DEF Shows

LEMMA BilledEntries ==
    ASSUME NEW v, NEW from, NEW to,
           \A x \in BilledSlots(v) : x[3] # 0 =>
               PaidInCents[<<x[2], x[3]>>] = A!InCents(expenses[x[2]].payments[x[3]])
    PROVE  PartOfBook(A!Billed(v, from, to), expenses, PaidInCents, BilledSlots(v), from, to)
<1>f. PICK S, f : /\ S = { y \in BilledSlots(v) : DayAt(expenses, y) \in from .. to }
                  /\ f = [x \in S |->
                          IF x[3] = 0
                          THEN A!Entry(DayAt(expenses, x), FALSE,
                                       RateUnit * expenses[x[2]].total)
                          ELSE A!Entry(DayAt(expenses, x), TRUE,
                                       A!InCents(expenses[x[2]].payments[x[3]]))]
  OBVIOUS
<1>1. A!Billed(v, from, to) = f
  BY <1>f, Zenon DEF A!Billed, A!Entries, BilledSlots, BilledRows, Slots, DayAt
<1>2. DOMAIN f = S
  BY <1>f
<1>3. ASSUME NEW x \in S PROVE f[x] = EntryAt(expenses, PaidInCents, x)
  <2>1. x \in BilledSlots(v)
    BY <1>f
  <2>2. CASE x[3] = 0
    BY <1>f, <2>2 DEF EntryAt
  <2>3. CASE x[3] # 0
    <3>1. f[x] = A!Entry(DayAt(expenses, x), TRUE, A!InCents(expenses[x[2]].payments[x[3]]))
      BY <1>f, <2>3
    <3>2. PaidInCents[<<x[2], x[3]>>] = A!InCents(expenses[x[2]].payments[x[3]])
      BY <2>1, <2>3
    <3> QED
      BY <2>3, <3>1, <3>2 DEF EntryAt
  <2> QED
    BY <2>2, <2>3
<1> QED
  BY <1>f, <1>1, <1>2, <1>3 DEF PartOfBook

\* The book of the bills is a ledger, and every period shows its part of it.
LEMMA BilledKept ==
    ASSUME expenses \in ExpenseTables \cup {<<>>}, NEW v
    PROVE  \E day, w : /\ Ledger(BilledSlots(v), day, w, {1})
                       /\ \A from, to :
                             Shows(A!Billed(v, from, to), BilledSlots(v), day, w, from, to)
<1> PICK D : D = BilledSlots(v)
  OBVIOUS
<1>d. PICK day, w : /\ day = [x \in D |-> DayAt(expenses, x)]
                    /\ w = [x \in D |-> WorthAt(expenses, PaidInCents, x)]
  OBVIOUS
<1>1. /\ Payable(expenses) /\ BilledRows(v) \subseteq DOMAIN expenses
      /\ \A n \in DOMAIN expenses : \A k \in 1 .. Len(expenses[n].payments) :
            /\ PaidInCents[<<n, k>>] = A!InCents(expenses[n].payments[k])
            /\ PaidInCents[<<n, k>>] \in Int
  BY ExpensesPayable DEF BilledRows, A!InCents
<1>2. Ledger(D, day, w, {1})
  BY <1>d, <1>1, SlotsLedger DEF BilledSlots
<1>3. ASSUME NEW x \in D
      PROVE  /\ x[2] \in DOMAIN expenses /\ Slotted(expenses, PaidInCents, x)
             /\ x[3] # 0 => x[3] \in 1 .. Len(expenses[x[2]].payments)
  BY <1>1, SlotsSlotted DEF BilledSlots
<1>4. \A x \in D : x[3] # 0 =>
         PaidInCents[<<x[2], x[3]>>] = A!InCents(expenses[x[2]].payments[x[3]])
  BY <1>1, <1>3
<1>5. ASSUME NEW from, NEW to PROVE Shows(A!Billed(v, from, to), D, day, w, from, to)
  <2>1. PartOfBook(A!Billed(v, from, to), expenses, PaidInCents, D, from, to)
    BY <1>4, BilledEntries
  <2>2. Shows(A!Billed(v, from, to), D, [x \in D |-> DayAt(expenses, x)],
              [x \in D |-> WorthAt(expenses, PaidInCents, x)], from, to)
    BY <1>3, <2>1, PartsShow
  <2> QED
    BY <1>d, <2>2
<1> QED
  BY <1>2, <1>5

LEMMA OrderedEntries ==
    ASSUME NEW v, NEW from, NEW to,
           \A x \in OrderedSlots(v) : x[3] # 0 =>
               PaidUnrounded[<<x[2], x[3]>>] = A!Unrounded(orders[x[2]].payments[x[3]])
    PROVE  PartOfBook(A!Ordered(v, from, to), orders, PaidUnrounded, OrderedSlots(v), from, to)
<1>f. PICK S, f : /\ S = { y \in OrderedSlots(v) : DayAt(orders, y) \in from .. to }
                  /\ f = [x \in S |->
                          IF x[3] = 0
                          THEN A!Entry(DayAt(orders, x), FALSE, RateUnit * orders[x[2]].total)
                          ELSE A!Entry(DayAt(orders, x), TRUE,
                                       A!Unrounded(orders[x[2]].payments[x[3]]))]
  OBVIOUS
<1>1. A!Ordered(v, from, to) = f
  BY <1>f, Zenon DEF A!Ordered, A!Entries, OrderedSlots, OrderedRows, Slots, DayAt
<1>2. DOMAIN f = S
  BY <1>f
<1>3. ASSUME NEW x \in S PROVE f[x] = EntryAt(orders, PaidUnrounded, x)
  <2>1. x \in OrderedSlots(v)
    BY <1>f
  <2>2. CASE x[3] = 0
    BY <1>f, <2>2 DEF EntryAt
  <2>3. CASE x[3] # 0
    <3>1. f[x] = A!Entry(DayAt(orders, x), TRUE, A!Unrounded(orders[x[2]].payments[x[3]]))
      BY <1>f, <2>3
    <3>2. PaidUnrounded[<<x[2], x[3]>>] = A!Unrounded(orders[x[2]].payments[x[3]])
      BY <2>1, <2>3
    <3> QED
      BY <2>3, <3>1, <3>2 DEF EntryAt
  <2> QED
    BY <2>2, <2>3
<1> QED
  BY <1>f, <1>1, <1>2, <1>3 DEF PartOfBook

\* The book of the orders is a ledger, and every period shows its part of it.
LEMMA OrderedKept ==
    ASSUME orders \in OrderTables \cup {<<>>}, NEW v
    PROVE  \E day, w : /\ Ledger(OrderedSlots(v), day, w, {2})
                       /\ \A from, to :
                             Shows(A!Ordered(v, from, to), OrderedSlots(v), day, w, from, to)
<1> PICK D : D = OrderedSlots(v)
  OBVIOUS
<1>d. PICK day, w : /\ day = [x \in D |-> DayAt(orders, x)]
                    /\ w = [x \in D |-> WorthAt(orders, PaidUnrounded, x)]
  OBVIOUS
<1>1. /\ Payable(orders) /\ OrderedRows(v) \subseteq DOMAIN orders
      /\ \A n \in DOMAIN orders : \A k \in 1 .. Len(orders[n].payments) :
            /\ PaidUnrounded[<<n, k>>] = A!Unrounded(orders[n].payments[k])
            /\ PaidUnrounded[<<n, k>>] \in Int
  BY OrdersPayable DEF OrderedRows, A!Unrounded
<1>2. Ledger(D, day, w, {2})
  BY <1>d, <1>1, SlotsLedger DEF OrderedSlots
<1>3. ASSUME NEW x \in D
      PROVE  /\ x[2] \in DOMAIN orders /\ Slotted(orders, PaidUnrounded, x)
             /\ x[3] # 0 => x[3] \in 1 .. Len(orders[x[2]].payments)
  BY <1>1, SlotsSlotted DEF OrderedSlots
<1>4. \A x \in D : x[3] # 0 =>
         PaidUnrounded[<<x[2], x[3]>>] = A!Unrounded(orders[x[2]].payments[x[3]])
  BY <1>1, <1>3
<1>5. ASSUME NEW from, NEW to PROVE Shows(A!Ordered(v, from, to), D, day, w, from, to)
  <2>1. PartOfBook(A!Ordered(v, from, to), orders, PaidUnrounded, D, from, to)
    BY <1>4, OrderedEntries
  <2>2. Shows(A!Ordered(v, from, to), D, [x \in D |-> DayAt(orders, x)],
              [x \in D |-> WorthAt(orders, PaidUnrounded, x)], from, to)
    BY <1>3, <2>1, PartsShow
  <2> QED
    BY <1>d, <2>2
<1> QED
  BY <1>2, <1>5

\* What the entries of a period add up is what its part of the ledger does.
LEMMA ShownSum ==
    ASSUME NEW D, NEW day, NEW w, NEW book, Ledger(D, day, w, book),
           NEW from, NEW to, NEW e, Shows(e, D, day, w, from, to)
    PROVE  /\ IsFiniteSet(DOMAIN e) /\ \A x \in DOMAIN e : w[x] \in Int
           /\ A!Exact(e) = Total(w, OnDays(D, day, from, to))
<1> PICK S, u : S = DOMAIN e /\ u = [x \in DOMAIN e |-> e[x].amount]
  OBVIOUS
<1>1. S = OnDays(D, day, from, to) /\ S \subseteq D
  BY DEF Shows, OnDays
<1>2. IsFiniteSet(S) /\ \A x \in S : w[x] \in Int
  BY <1>1, FS_Subset DEF Ledger
<1>3. A!Exact(e) = Total(u, S)
  BY <1>2, ExactIs
<1>4. \A x \in S : u[x] = w[x]
  BY DEF Shows
<1>5. Total(u, S) = Total(w, S)
  BY <1>2, <1>4, TotalCongruence
<1> QED
  BY <1>1, <1>2, <1>3, <1>5

\* Two books side by side.
Both(D1, D2, f, g) == [x \in D1 \cup D2 |-> IF x \in D1 THEN f[x] ELSE g[x]]

LEMMA JoinedLedger ==
    ASSUME NEW D1, NEW D2, NEW day1, NEW day2, NEW w1, NEW w2,
           Ledger(D1, day1, w1, {1}), Ledger(D2, day2, w2, {2})
    PROVE  /\ D1 \cap D2 = {}
           /\ Ledger(D1 \cup D2, Both(D1, D2, day1, day2), Both(D1, D2, w1, w2), {1, 2})
<1> PICK D, day, w : /\ D = D1 \cup D2 /\ day = Both(D1, D2, day1, day2)
                     /\ w = Both(D1, D2, w1, w2)
  OBVIOUS
<1>1. D1 \in SUBSET ({1} \X Nat \X Nat) /\ D2 \in SUBSET ({2} \X Nat \X Nat)
  BY DEF Ledger
<1>2. (\A x \in D1 : x[1] = 1) /\ (\A x \in D2 : x[1] = 2)
  BY <1>1
<1>3. D1 \cap D2 = {}
  BY <1>2
<1>4. IsFiniteSet(D)
  BY FS_Union DEF Ledger
<1>5. D \in SUBSET ({1, 2} \X Nat \X Nat)
  BY <1>1
<1>6. ASSUME NEW x \in D PROVE day[x] \in Nat /\ w[x] \in Int
  <2>1. CASE x \in D1
    BY <2>1 DEF Both, Ledger
  <2>2. CASE x \notin D1
    BY <2>2 DEF Both, Ledger
  <2> QED
    BY <2>1, <2>2
<1> QED
  BY <1>3, <1>4, <1>5, <1>6 DEF Ledger

LEMMA JoinedShow ==
    ASSUME NEW D1, NEW D2, NEW day1, NEW day2, NEW w1, NEW w2, D1 \cap D2 = {},
           NEW from, NEW to, NEW e1, NEW e2,
           Shows(e1, D1, day1, w1, from, to), Shows(e2, D2, day2, w2, from, to)
    PROVE  Shows(A!Joined(e1, e2), D1 \cup D2, Both(D1, D2, day1, day2),
                 Both(D1, D2, w1, w2), from, to)
<1>d. PICK D, day, w, e : /\ D = D1 \cup D2 /\ day = Both(D1, D2, day1, day2)
                          /\ w = Both(D1, D2, w1, w2) /\ e = A!Joined(e1, e2)
  OBVIOUS
<1>1. /\ DOMAIN e = DOMAIN e1 \cup DOMAIN e2
      /\ \A x \in DOMAIN e1 : e[x] = e1[x]
      /\ \A x \in DOMAIN e2 : x \notin DOMAIN e1 => e[x] = e2[x]
  BY <1>d DEF A!Joined
<1>2. /\ \A x \in D1 : day[x] = day1[x] /\ w[x] = w1[x]
      /\ \A x \in D2 : x \notin D1 => day[x] = day2[x] /\ w[x] = w2[x]
  BY <1>d DEF Both
<1>3. /\ DOMAIN e1 = OnDays(D1, day1, from, to) /\ DOMAIN e2 = OnDays(D2, day2, from, to)
      /\ DOMAIN e1 \subseteq D1 /\ DOMAIN e2 \subseteq D2
  BY DEF Shows, OnDays
<1>4. DOMAIN e = OnDays(D, day, from, to)
  <2>1. OnDays(D1, day1, from, to) = OnDays(D1, day, from, to)
    BY <1>2, Zenon DEF OnDays
  <2>2. OnDays(D2, day2, from, to) = OnDays(D2, day, from, to)
    <3>1. \A x \in D2 : day[x] = day2[x]
      BY <1>2
    <3> QED
      BY <3>1, Zenon DEF OnDays
  <2>3. OnDays(D, day, from, to) = OnDays(D1, day, from, to) \cup OnDays(D2, day, from, to)
    BY <1>d DEF OnDays
  <2> QED
    BY <1>1, <1>3, <2>1, <2>2, <2>3
<1>5. ASSUME NEW x \in DOMAIN e
      PROVE  e[x].date = day[x] /\ e[x].amount = w[x] /\ e[x].credit \in BOOLEAN
  <2>1. CASE x \in DOMAIN e1
    <3>1. e[x] = e1[x] /\ day[x] = day1[x] /\ w[x] = w1[x]
      BY <1>1, <1>2, <1>3, <2>1
    <3> QED
      BY <2>1, <3>1 DEF Shows
  <2>2. CASE x \in DOMAIN e2
    <3>1. x \notin D1 /\ x \in D2
      BY <1>3, <2>2
    <3>2. e[x] = e2[x] /\ day[x] = day2[x] /\ w[x] = w2[x]
      BY <1>1, <1>2, <1>3, <2>2, <3>1
    <3> QED
      BY <2>2, <3>2 DEF Shows
  <2> QED
    BY <1>1, <2>1, <2>2
<1> QED
  BY <1>d, <1>4, <1>5 DEF Shows

LEMMA JoinedSum ==
    ASSUME NEW D1, NEW D2, NEW day1, NEW day2, NEW w1, NEW w2,
           Ledger(D1, day1, w1, {1}), Ledger(D2, day2, w2, {2}), NEW from, NEW to
    PROVE  Total(Both(D1, D2, w1, w2),
                 OnDays(D1 \cup D2, Both(D1, D2, day1, day2), from, to))
             = Total(w1, OnDays(D1, day1, from, to)) + Total(w2, OnDays(D2, day2, from, to))
<1>d. PICK day, w, S, S1, S2 :
         /\ day = Both(D1, D2, day1, day2) /\ w = Both(D1, D2, w1, w2)
         /\ S = OnDays(D1 \cup D2, day, from, to)
         /\ S1 = OnDays(D1, day1, from, to) /\ S2 = OnDays(D2, day2, from, to)
  OBVIOUS
<1>1. D1 \cap D2 = {} /\ Ledger(D1 \cup D2, day, w, {1, 2})
  BY <1>d, JoinedLedger
<1>2. /\ \A x \in D1 : day[x] = day1[x] /\ w[x] = w1[x]
      /\ \A x \in D2 : x \notin D1 => day[x] = day2[x] /\ w[x] = w2[x]
  BY <1>d DEF Both
<1>3. S1 \subseteq D1 /\ S2 \subseteq D2 /\ S \subseteq D1 \cup D2
  BY <1>d DEF OnDays
<1>4. IsFiniteSet(S) /\ \A x \in S : w[x] \in Int
  BY <1>1, <1>3, FS_Subset DEF Ledger
<1>5. S \cap D1 = S1
  BY <1>d, <1>2 DEF OnDays
<1>6. S \ D1 = S2
  <2>1. \A x \in D2 : x \notin D1 /\ day[x] = day2[x]
    BY <1>1, <1>2
  <2> QED
    BY <1>d, <2>1 DEF OnDays
<1>7. Total(w, S) = Total(w, S1) + Total(w, S2)
  BY <1>4, <1>5, <1>6, TotalInParts DEF InParts
<1>8. IsFiniteSet(S1) /\ IsFiniteSet(S2)
  BY <1>3, FS_Subset DEF Ledger
<1>9. Total(w, S1) = Total(w1, S1)
  BY <1>2, <1>3, <1>8, TotalCongruence
<1>10. Total(w, S2) = Total(w2, S2)
  <2>1. \A x \in S2 : w[x] = w2[x]
    BY <1>1, <1>2, <1>3
  <2> QED
    BY <1>8, <2>1, TotalCongruence
<1> QED
  BY <1>d, <1>7, <1>9, <1>10

\* The account of a vendor: one ledger that every period shows a part of, and that every
\* opening balance adds up.
Account(v, D, day, w) ==
    /\ Ledger(D, day, w, {1, 2})
    /\ \A from, to :
          Shows(A!Joined(A!Billed(v, from, to), A!Ordered(v, from, to)), D, day, w, from, to)
    /\ \A d : A!VendorOpening(v, d) = Total(w, OnDays(D, day, 0, d - 1))

LEMMA AccountsAreKept ==
    ASSUME VendorTables, NEW v
    PROVE  \E D, day, w : Account(v, D, day, w)
<1> PICK D1, D2 : D1 = BilledSlots(v) /\ D2 = OrderedSlots(v)
  OBVIOUS
<1>1. PICK day1, w1 : /\ Ledger(D1, day1, w1, {1})
                      /\ \A from, to : Shows(A!Billed(v, from, to), D1, day1, w1, from, to)
  BY BilledKept DEF VendorTables
<1>2. PICK day2, w2 : /\ Ledger(D2, day2, w2, {2})
                      /\ \A from, to : Shows(A!Ordered(v, from, to), D2, day2, w2, from, to)
  BY OrderedKept DEF VendorTables
<1>d. PICK D, day, w : /\ D = D1 \cup D2 /\ day = Both(D1, D2, day1, day2)
                       /\ w = Both(D1, D2, w1, w2)
  OBVIOUS
<1>3. D1 \cap D2 = {} /\ Ledger(D, day, w, {1, 2})
  BY <1>d, <1>1, <1>2, JoinedLedger
<1>4. ASSUME NEW from, NEW to
      PROVE  Shows(A!Joined(A!Billed(v, from, to), A!Ordered(v, from, to)),
                   D, day, w, from, to)
  <2>1. /\ Shows(A!Billed(v, from, to), D1, day1, w1, from, to)
        /\ Shows(A!Ordered(v, from, to), D2, day2, w2, from, to)
    BY <1>1, <1>2
  <2> QED
    BY <1>d, <1>3, <2>1, JoinedShow
<1>5. ASSUME NEW d PROVE A!VendorOpening(v, d) = Total(w, OnDays(D, day, 0, d - 1))
  <2>1. /\ Shows(A!Billed(v, 0, d - 1), D1, day1, w1, 0, d - 1)
        /\ Shows(A!Ordered(v, 0, d - 1), D2, day2, w2, 0, d - 1)
    BY <1>1, <1>2
  <2>2. A!Exact(A!Billed(v, 0, d - 1)) = Total(w1, OnDays(D1, day1, 0, d - 1))
    BY <1>1, <2>1, ShownSum
  <2>3. A!Exact(A!Ordered(v, 0, d - 1)) = Total(w2, OnDays(D2, day2, 0, d - 1))
    BY <1>2, <2>1, ShownSum
  <2>4. Total(w, OnDays(D, day, 0, d - 1))
          = Total(w1, OnDays(D1, day1, 0, d - 1)) + Total(w2, OnDays(D2, day2, 0, d - 1))
    BY <1>d, <1>1, <1>2, JoinedSum
  <2> QED
    BY <2>2, <2>3, <2>4 DEF A!VendorOpening
<1> QED
  BY <1>3, <1>4, <1>5 DEF Account

\* The days of a period follow those before it.
LEMMA PeriodsAddUp ==
    ASSUME NEW D, NEW day, NEW w, NEW book, Ledger(D, day, w, book),
           NEW from \in Nat, NEW to \in Nat, from <= to
    PROVE  /\ Total(w, OnDays(D, day, 0, from - 1)) \in Int
           /\ Total(w, OnDays(D, day, from, to)) \in Int
           /\ Total(w, OnDays(D, day, 0, to))
                = Total(w, OnDays(D, day, 0, from - 1)) + Total(w, OnDays(D, day, from, to))
<1>d. PICK S, S1, S2 : /\ S = OnDays(D, day, 0, to) /\ S1 = OnDays(D, day, 0, from - 1)
                       /\ S2 = OnDays(D, day, from, to)
  OBVIOUS
<1>1. S \subseteq D /\ S1 \subseteq D /\ S2 \subseteq D
  BY <1>d DEF OnDays
<1>2. \A x \in D : day[x] \in Nat /\ w[x] \in Int
  BY DEF Ledger
<1>3. IsFiniteSet(S) /\ IsFiniteSet(S1) /\ IsFiniteSet(S2)
  BY <1>1, FS_Subset DEF Ledger
<1>4. \A x \in D : /\ x \in S <=> day[x] <= to
                   /\ x \in S1 <=> day[x] < from
                   /\ x \in S2 <=> from <= day[x] /\ day[x] <= to
  <2> SUFFICES ASSUME NEW x \in D
               PROVE  /\ x \in S <=> day[x] <= to
                      /\ x \in S1 <=> day[x] < from
                      /\ x \in S2 <=> from <= day[x] /\ day[x] <= to
    OBVIOUS
  <2> PICK n : n = day[x]
    OBVIOUS
  <2>1. n \in Nat
    BY <1>2
  <2>2. /\ n \in 0 .. to <=> n <= to
        /\ n \in 0 .. from - 1 <=> n < from
        /\ n \in from .. to <=> from <= n /\ n <= to
    BY <2>1
  <2>3. /\ x \in S <=> n \in 0 .. to
        /\ x \in S1 <=> n \in 0 .. from - 1
        /\ x \in S2 <=> n \in from .. to
    BY <1>d DEF OnDays
  <2> QED
    BY <2>2, <2>3
<1>5. \A x \in D : day[x] <= to /\ day[x] < from <=> day[x] < from
  BY <1>2
<1>6. \A x \in D : day[x] <= to /\ ~ (day[x] < from) <=> from <= day[x] /\ day[x] <= to
  BY <1>2
<1>7. S \cap S1 = S1 /\ S \ S1 = S2
  BY <1>1, <1>4, <1>5, <1>6
<1>8. Total(w, S) = Total(w, S1) + Total(w, S2)
  <2>1. \A x \in S : w[x] \in Int
    BY <1>1, <1>2
  <2> QED
    BY <1>3, <1>7, <2>1, TotalInParts DEF InParts
<1>9. Total(w, S1) \in Int
  <2>1. \A x \in S1 : w[x] \in Int
    BY <1>1, <1>2
  <2> QED
    BY <1>3, <2>1, TotalSplits DEF AnyOrder
<1>10. Total(w, S2) \in Int
  <2>1. \A x \in S2 : w[x] \in Int
    BY <1>1, <1>2
  <2> QED
    BY <1>3, <2>1, TotalSplits DEF AnyOrder
<1> QED
  BY <1>d, <1>8, <1>9, <1>10

------------------------------------------------------------------------------
(* The running balance *)

\* The rows of a statement are its entries, each once.
LEMMA SortedEnumerates ==
    ASSUME NEW D, NEW day, NEW w, Ledger(D, day, w, {1, 2}),
           NEW from, NEW to, NEW e, Shows(e, D, day, w, from, to)
    PROVE  Enumerates(A!Sorted(e), DOMAIN e)
<1>d. PICK S, key : /\ S = DOMAIN e
                    /\ key = [x \in S |-> <<e[x].date, IF e[x].credit THEN 1 ELSE 0,
                                            x[1], x[2], x[3]>>]
  OBVIOUS
<1>1. S \subseteq D /\ IsFiniteSet(S)
  <2>1. S \subseteq D
    BY <1>d DEF Shows, OnDays
  <2>2. IsFiniteSet(S)
    BY <1>d, ShownSum
  <2> QED
    BY <2>1, <2>2
<1>2. ASSUME NEW x \in S
      PROVE  /\ x = <<x[1], x[2], x[3]>> /\ x[1] \in Int /\ x[2] \in Int /\ x[3] \in Int
             /\ e[x].date \in Int
  <2>1. x \in {1, 2} \X Nat \X Nat /\ day[x] \in Nat
    BY <1>1 DEF Ledger
  <2>2. e[x].date = day[x]
    BY <1>d DEF Shows
  <2> QED
    BY <2>1, <2>2
<1>3. ASSUME NEW x \in S PROVE key[x] \in [1 .. 5 -> Int]
  <2> PICK b : b = IF e[x].credit THEN 1 ELSE 0
    OBVIOUS
  <2>1. b \in Int /\ key[x] = <<e[x].date, b, x[1], x[2], x[3]>>
    BY <1>d
  <2> QED
    BY <1>2, <2>1, TupleOfFive
<1>4. ASSUME NEW x \in S, NEW y \in S, key[x] = key[y] PROVE x = y
  <2>1. x[1] = y[1] /\ x[2] = y[2] /\ x[3] = y[3]
    BY <1>d, <1>4
  <2> QED
    BY <1>2, <2>1
<1>5. DOMAIN key = S /\ Keyed(key, 5)
  BY <1>d, <1>3, <1>4 DEF Keyed
<1>6. A!Sorted(e) = InOrder(key)
  BY <1>d, SameOrder DEF A!Sorted
<1> QED
  BY <1>d, <1>1, <1>5, <1>6, InOrderEnumerates

\* The balance after each row.
Running(f, rows, e, opening) ==
    f = [k \in 0 .. Len(rows) |->
            IF k = 0 THEN opening ELSE A!Quantized(f[k - 1] + e[rows[k]].amount)]

LEMMA ClosingIs ==
    ASSUME NEW e, NEW opening, NEW rows, rows = A!Sorted(e)
    PROVE  A!Closing(opening, e) = (CHOOSE f : Running(f, rows, e, opening))[Len(rows)]
BY Zenon DEF A!Closing, Running

\* The balance after the first rows only.
Started(f, rows, e, opening, m) ==
    f = [k \in 0 .. m |->
            IF k = 0 THEN opening ELSE A!Quantized(f[k - 1] + e[rows[k]].amount)]

LEMMA RunningExists ==
    ASSUME NEW rows, NEW e, NEW opening, Len(rows) \in Nat
    PROVE  \E f : Running(f, rows, e, opening)
<1>n. PICK n, B : /\ n = Len(rows)
                  /\ B = { m \in 1 .. n : ~ \E f : Started(f, rows, e, opening, m) }
  OBVIOUS
<1>1. \E f : Started(f, rows, e, opening, 0)
  <2> PICK f : f = [k \in 0 .. 0 |->
                      IF k = 0 THEN opening ELSE A!Quantized(k + e[rows[k]].amount)]
    OBVIOUS
  <2>1. f = [k \in 0 .. 0 |->
                IF k = 0 THEN opening ELSE A!Quantized(f[k - 1] + e[rows[k]].amount)]
    OBVIOUS
  <2> QED
    BY <2>1 DEF Started
<1>2. ASSUME B # {} PROVE FALSE
  <2>1. n \in Nat /\ B \in SUBSET (1 .. n)
    BY <1>n
  <2>2. PICK m \in B : \A j \in B : m <= j
    BY <1>2, <2>1, LeastNumber
  <2>3. m \in 1 .. n /\ ~ \E f : Started(f, rows, e, opening, m)
    BY <1>n, <2>2
  <2>4. \E f : Started(f, rows, e, opening, m - 1)
    <3>1. CASE m = 1
      BY <1>1, <3>1
    <3>2. CASE m # 1
      <4>1. m - 1 \in 1 .. n /\ ~ (m <= m - 1)
        BY <2>1, <2>3, <3>2
      <4>2. m - 1 \notin B
        BY <2>2, <4>1
      <4> QED
        BY <1>n, <4>1, <4>2
    <3> QED
      BY <3>1, <3>2
  <2>5. PICK f : Started(f, rows, e, opening, m - 1)
    BY <2>4
  <2>6. PICK g : g = [k \in 0 .. m |->
                        IF k = m THEN A!Quantized(f[m - 1] + e[rows[m]].amount) ELSE f[k]]
    OBVIOUS
  <2>7. m \in Nat /\ m # 0
    BY <2>3
  <2>8. ASSUME NEW k \in 0 .. m
        PROVE  g[k] = IF k = 0 THEN opening
                      ELSE A!Quantized(g[k - 1] + e[rows[k]].amount)
    <3>1. CASE k = m
      <4>1. g[k] = A!Quantized(f[m - 1] + e[rows[m]].amount)
        BY <2>6, <3>1
      <4>2. m - 1 \in 0 .. m /\ m - 1 # m
        BY <2>7
      <4>3. g[m - 1] = f[m - 1]
        BY <2>6, <4>2
      <4> QED
        BY <2>7, <3>1, <4>1, <4>3
    <3>2. CASE k # m
      <4>1. k \in 0 .. m - 1
        BY <2>7, <3>2
      <4>2. g[k] = f[k]
        BY <2>6, <3>2
      <4>3. f[k] = IF k = 0 THEN opening
                   ELSE A!Quantized(f[k - 1] + e[rows[k]].amount)
        BY <2>5, <4>1 DEF Started
      <4>4. k # 0 => k - 1 \in 0 .. m /\ k - 1 # m
        BY <2>7, <4>1
      <4>5. k # 0 => g[k - 1] = f[k - 1]
        BY <2>6, <4>4
      <4> QED
        BY <4>2, <4>3, <4>5
    <3> QED
      BY <3>1, <3>2
  <2>9. g = [k \in 0 .. m |-> g[k]]
    BY <2>6
  <2>10. Started(g, rows, e, opening, m)
    BY <2>8, <2>9 DEF Started
  <2> QED
    BY <2>3, <2>10
<1>3. \E f : Started(f, rows, e, opening, n)
  <2>1. CASE n = 0
    BY <1>1, <2>1
  <2>2. CASE n # 0
    <3>1. n \in 1 .. n
      BY <1>n, <2>2
    <3> QED
      BY <1>n, <1>2, <3>1
  <2> QED
    BY <2>1, <2>2
<1> QED
  BY <1>n, <1>3 DEF Started, Running

\* The rows up to the k-th.
UpTo(rows, k) == { rows[j] : j \in 1 .. k }

\* After k rows the balance is off by k half cents at most.
Drift(f, rows, w, opening, k) ==
    /\ f[k] \in Int
    /\ Close(f[k], opening + Total(w, UpTo(rows, k)), RateUnit * k)

LEMMA UpToGrows ==
    ASSUME NEW S, IsFiniteSet(S), NEW rows, Enumerates(rows, S),
           NEW w, \A x \in S : w[x] \in Int, NEW k \in 1 .. Cardinality(S)
    PROVE  /\ Total(w, UpTo(rows, k - 1)) \in Int
           /\ Total(w, UpTo(rows, k)) = w[rows[k]] + Total(w, UpTo(rows, k - 1))
<1>n. PICK n, Q, U : n = Cardinality(S) /\ Q = UpTo(rows, k) /\ U = UpTo(rows, k - 1)
  OBVIOUS
<1>1. n \in Nat /\ k \in 1 .. n /\ k \in Nat
  BY <1>n, FS_CardinalityType
<1>2. /\ \A j \in 1 .. n : rows[j] \in S
      /\ \A i, j \in 1 .. n : rows[i] = rows[j] => i = j
  BY <1>n DEF Enumerates
<1>3. \A j \in 1 .. k : j \in 1 .. n
  BY <1>1
<1>4. \A j : j \in 1 .. k - 1 <=> j \in 1 .. k /\ j # k
  BY <1>1
<1>5. Q \subseteq S /\ U \subseteq S /\ rows[k] \in Q
  <2>1. k \in 1 .. k
    BY <1>1
  <2> QED
    BY <1>n, <1>2, <1>3, <1>4, <2>1 DEF UpTo
<1>6. Q \ {rows[k]} = U
  <2>1. ASSUME NEW x \in Q, x # rows[k] PROVE x \in U
    <3>1. PICK j \in 1 .. k : x = rows[j]
      BY <1>n DEF UpTo
    <3>2. j # k
      BY <2>1, <3>1
    <3> QED
      BY <1>n, <1>4, <3>1, <3>2 DEF UpTo
  <2>2. ASSUME NEW x \in U PROVE x \in Q /\ x # rows[k]
    <3>1. PICK j \in 1 .. k - 1 : x = rows[j]
      BY <1>n DEF UpTo
    <3>2. j \in 1 .. k /\ j # k
      BY <1>4
    <3>3. rows[j] # rows[k]
      BY <1>1, <1>2, <1>3, <3>2
    <3> QED
      BY <1>n, <3>1, <3>2, <3>3 DEF UpTo
  <2> QED
    BY <2>1, <2>2
<1>7. IsFiniteSet(Q) /\ IsFiniteSet(U)
  BY <1>5, FS_Subset
<1>8. AnyOrder(w, Q) /\ AnyOrder(w, U)
  <2>1. (\A x \in Q : w[x] \in Int) /\ (\A x \in U : w[x] \in Int)
    BY <1>5
  <2> QED
    BY <1>7, <2>1, TotalSplits
<1> QED
  BY <1>n, <1>5, <1>6, <1>8 DEF AnyOrder

\* One row more.
LEMMA DriftGrows ==
    ASSUME NEW S, IsFiniteSet(S), NEW rows, Enumerates(rows, S), Len(rows) = Cardinality(S),
           NEW w, \A x \in S : w[x] \in Int, NEW e, \A x \in S : e[x].amount = w[x],
           NEW opening \in Int, NEW f, Running(f, rows, e, opening),
           NEW k \in 1 .. Cardinality(S), Drift(f, rows, w, opening, k - 1)
    PROVE  Drift(f, rows, w, opening, k)
<1>n. PICK n, a, b, s, t, u, m, z, y :
         /\ n = Cardinality(S) /\ a = w[rows[k]] /\ b = f[k - 1]
         /\ s = Total(w, UpTo(rows, k)) /\ t = Total(w, UpTo(rows, k - 1))
         /\ u = RateUnit /\ m = RateUnit * (k - 1) /\ z = RateUnit * k /\ y = f[k]
  OBVIOUS
<1>1. n \in Nat /\ k \in 1 .. n /\ k \in 0 .. n /\ k # 0
  BY <1>n, FS_CardinalityType
<1>2. rows[k] \in S
  BY <1>n, <1>1 DEF Enumerates
<1>3. s = a + t /\ t \in Int /\ a \in Int
  <2>1. Total(w, UpTo(rows, k - 1)) \in Int
    BY UpToGrows
  <2>2. Total(w, UpTo(rows, k)) = w[rows[k]] + Total(w, UpTo(rows, k - 1))
    BY UpToGrows
  <2> QED
    BY <1>n, <1>2, <2>1, <2>2
<1>4. b \in Int /\ Close(b, opening + t, m)
  BY <1>n DEF Drift
<1>5. y = A!Quantized(b + a)
  <2>1. f[k] = A!Quantized(f[k - 1] + e[rows[k]].amount)
    BY <1>n, <1>1 DEF Running
  <2>2. e[rows[k]].amount = a
    BY <1>n, <1>2
  <2> QED
    BY <1>n, <2>1, <2>2
<1>6. y \in Int /\ Close(y, b + a, u)
  <2> PICK c : c = b + a
    OBVIOUS
  <2>1. c \in Int
    BY <1>3, <1>4
  <2>2. A!Quantized(c) \in Int /\ Close(A!Quantized(c), c, RateUnit)
    BY <2>1, QuantizedNear
  <2> QED
    BY <1>n, <1>5, <2>2
<1>7. z = m + u /\ m \in Int /\ u \in Int
  <2>1. k \in Int /\ RateUnit \in Int
    BY <1>1, RateUnitIs
  <2>2. RateUnit * k = RateUnit * (k - 1) + RateUnit
    BY <2>1
  <2>3. RateUnit * (k - 1) \in Int
    BY <2>1
  <2> QED
    BY <1>n, <2>1, <2>2, <2>3
<1>8. Close(y, opening + s, z)
  BY <1>3, <1>4, <1>6, <1>7 DEF Close
<1> QED
  BY <1>n, <1>6, <1>8 DEF Drift

LEMMA BalanceDrifts ==
    ASSUME NEW S, IsFiniteSet(S), NEW rows, Enumerates(rows, S), Len(rows) = Cardinality(S),
           NEW w, \A x \in S : w[x] \in Int, NEW e, \A x \in S : e[x].amount = w[x],
           NEW opening \in Int, NEW f, Running(f, rows, e, opening)
    PROVE  Drift(f, rows, w, opening, Cardinality(S))
<1>n. PICK n, B : /\ n = Cardinality(S)
                  /\ B = { k \in 1 .. n : ~ Drift(f, rows, w, opening, k) }
  OBVIOUS
<1>1. n \in Nat /\ B \in SUBSET (1 .. n)
  BY <1>n, FS_CardinalityType
<1>2. Drift(f, rows, w, opening, 0)
  <2>1. 0 \in 0 .. Len(rows)
    BY <1>n, <1>1
  <2>2. f[0] = opening
    BY <2>1 DEF Running
  <2>3. UpTo(rows, 0) = {}
    BY DEF UpTo
  <2>4. Total(w, {}) = 0
    BY FS_EmptySet, TotalUnfolds
  <2>5. RateUnit * 0 = 0
    BY RateUnitIs
  <2> QED
    <3>1. Total(w, UpTo(rows, 0)) = 0
      BY <2>3, <2>4
    <3>2. Close(opening, opening + 0, 0)
      BY DEF Close
    <3> QED
      BY <2>2, <2>5, <3>1, <3>2 DEF Drift
<1>3. ASSUME B # {} PROVE FALSE
  <2>1. PICK k \in B : \A j \in B : k <= j
    BY <1>1, <1>3, LeastNumber
  <2>2. k \in 1 .. n /\ ~ Drift(f, rows, w, opening, k)
    BY <1>n, <2>1
  <2>3. Drift(f, rows, w, opening, k - 1)
    <3>1. CASE k = 1
      BY <1>2, <3>1
    <3>2. CASE k # 1
      <4>1. k - 1 \in 1 .. n /\ ~ (k <= k - 1)
        BY <1>1, <2>2, <3>2
      <4>2. k - 1 \notin B
        BY <2>1, <4>1
      <4> QED
        BY <1>n, <4>1, <4>2
    <3> QED
      BY <3>1, <3>2
  <2> QED
    BY <1>n, <2>2, <2>3, DriftGrows
<1>4. CASE n = 0
  BY <1>n, <1>2, <1>4
<1>5. CASE n # 0
  <2>1. n \in 1 .. n
    BY <1>1, <1>5
  <2> QED
    BY <1>n, <1>3, <2>1
<1> QED
  BY <1>4, <1>5

\* The closing balance is the opening one and the rows, but for a half cent a row.
LEMMA ClosingNear ==
    ASSUME NEW D, NEW day, NEW w, Ledger(D, day, w, {1, 2}),
           NEW from, NEW to, NEW e, Shows(e, D, day, w, from, to), NEW opening \in Int
    PROVE  /\ A!Closing(opening, e) \in Int
           /\ Close(A!Closing(opening, e), opening + Total(w, OnDays(D, day, from, to)),
                    RateUnit * Cardinality(DOMAIN e))
<1>n. PICK S, rows, n : S = DOMAIN e /\ rows = A!Sorted(e) /\ n = Cardinality(S)
  OBVIOUS
<1>1. IsFiniteSet(S) /\ \A x \in S : w[x] \in Int
  BY <1>n, ShownSum
<1>2. Enumerates(rows, S)
  BY <1>n, SortedEnumerates
<1>3. Len(rows) = n /\ n \in Nat
  BY <1>n, <1>1, <1>2, EnumeratesSeq, FS_CardinalityType
<1>4. \A x \in S : e[x].amount = w[x]
  BY <1>n DEF Shows
<1>5. \E f : Running(f, rows, e, opening)
  BY <1>3, RunningExists
<1>6. PICK f : f = CHOOSE g : Running(g, rows, e, opening)
  OBVIOUS
<1>7. Running(f, rows, e, opening)
  BY <1>5, <1>6
<1>8. A!Closing(opening, e) = f[n]
  BY <1>n, <1>3, <1>6, ClosingIs
<1>9. Drift(f, rows, w, opening, n)
  BY <1>n, <1>1, <1>2, <1>3, <1>4, <1>7, BalanceDrifts
<1>10. UpTo(rows, n) = S
  <2>1. /\ \A k \in 1 .. n : rows[k] \in S
        /\ \A x \in S : \E k \in 1 .. n : rows[k] = x
    BY <1>n, <1>2 DEF Enumerates
  <2> QED
    BY <2>1, Zenon DEF UpTo
<1>11. S = OnDays(D, day, from, to)
  BY <1>n DEF Shows
<1> QED
  BY <1>n, <1>8, <1>9, <1>10, <1>11 DEF Drift

------------------------------------------------------------------------------
(* The statements *)

\* The entries of a vendor in the given tables.
BilledOf(table, v, from, to) ==
    A!Entries(1, table, LAMBDA row : A!BilledBy(v, row), A!InCents, from, to)

OrderedOf(table, v, from, to) ==
    A!Entries(2, table, LAMBDA row : A!OrderedFrom(v, row), A!Unrounded, from, to)

OpeningOf(bills, purchases, v, day) ==
    A!Exact(BilledOf(bills, v, 0, day - 1)) + A!Exact(OrderedOf(purchases, v, 0, day - 1))

RowsOf(bills, purchases, v, from, to) ==
    A!Joined(BilledOf(bills, v, from, to), OrderedOf(purchases, v, from, to))

\* A statement that was made from the given tables.
MadeFrom(s, bills, purchases) ==
    LET rows == RowsOf(bills, purchases, s.of, s.from, s.to) IN
    /\ s.from \in Nat /\ s.to \in Nat /\ s.from <= s.to
    /\ s.opening = OpeningOf(bills, purchases, s.of, s.from)
    /\ s.closing = A!Closing(s.opening, rows)
    /\ s.rows = Cardinality(DOMAIN rows)

\* The tables are as the services leave them, and a vendor's statement is made from them.
BooksInv ==
    /\ VendorTables
    /\ statement.of \in Vendors => MadeFrom(statement, expenses, orders)

LEMMA VendorRowsAre ==
    ASSUME NEW v, NEW from, NEW to
    PROVE  /\ A!Billed(v, from, to) = BilledOf(expenses, v, from, to)
           /\ A!Ordered(v, from, to) = OrderedOf(orders, v, from, to)
           /\ A!VendorOpening(v, from) = OpeningOf(expenses, orders, v, from)
<1>1. \A a, b : A!Billed(v, a, b) = BilledOf(expenses, v, a, b)
  BY DEF A!Billed, BilledOf
<1>2. \A a, b : A!Ordered(v, a, b) = OrderedOf(orders, v, a, b)
  BY DEF A!Ordered, OrderedOf
<1> QED
  BY <1>1, <1>2 DEF A!VendorOpening, OpeningOf

\* The statement a vendor is sent.
LEMMA StatementMade ==
    ASSUME NEW v, NEW from \in Nat, NEW to \in Nat, from <= to,
           A!VendorStatement(v, from, to)
    PROVE  /\ statement'.of = v /\ MadeFrom(statement', expenses, orders)
           /\ expenses' = expenses /\ orders' = orders
<1>s. PICK s : s = statement'
  OBVIOUS
<1>r. PICK opening, rows : /\ opening = OpeningOf(expenses, orders, v, from)
                           /\ rows = RowsOf(expenses, orders, v, from, to)
  OBVIOUS
<1>1. /\ opening = A!VendorOpening(v, from)
      /\ rows = A!Joined(A!Billed(v, from, to), A!Ordered(v, from, to))
  BY <1>r, VendorRowsAre DEF RowsOf
<1>2. s = [of |-> v, from |-> from, to |-> to, opening |-> opening,
           closing |-> A!Closing(opening, rows), rows |-> A!Cardinality(DOMAIN rows)]
  BY <1>s, <1>1 DEF A!VendorStatement
<1>3. /\ s.of = v /\ s.from = from /\ s.to = to /\ s.opening = opening
      /\ s.closing = A!Closing(opening, rows) /\ s.rows = A!Cardinality(DOMAIN rows)
  BY <1>2
<1>4. MadeFrom(s, expenses, orders)
  BY <1>r, <1>3, SameCount DEF MadeFrom
<1>5. expenses' = expenses /\ orders' = orders
  BY DEF A!VendorStatement, A!books
<1> QED
  BY <1>s, <1>3, <1>4, <1>5

\* The steps of the books.
LEMMA BooksSteps ==
    ASSUME A!Next
    PROVE  /\ expenses' = expenses /\ orders' = orders
           /\ \/ statement'.of \in Customers
              \/ statement'.of \in Vendors /\ MadeFrom(statement', expenses, orders)
<1>1. PICK from \in A!Days, to \in A!Days :
         /\ from <= to
         /\ \/ \E c \in Customers : A!CustomerStatement(c, from, to)
            \/ \E v \in Vendors : A!VendorStatement(v, from, to)
  BY DEF A!Next
<1>2. from \in Nat /\ to \in Nat
  BY BooksAssumption DEF A!Days, A!BooksConstants
<1>3. CASE \E c \in Customers : A!CustomerStatement(c, from, to)
  <2>1. PICK c \in Customers : A!CustomerStatement(c, from, to)
    BY <1>3
  <2>2. statement'.of = c /\ expenses' = expenses /\ orders' = orders
    BY <2>1 DEF A!CustomerStatement, A!books
  <2> QED
    BY <2>2
<1>4. CASE \E v \in Vendors : A!VendorStatement(v, from, to)
  <2>1. PICK v \in Vendors : A!VendorStatement(v, from, to)
    BY <1>4
  <2>2. /\ statement'.of = v /\ MadeFrom(statement', expenses, orders)
        /\ expenses' = expenses /\ orders' = orders
    BY <1>1, <1>2, <2>1, StatementMade
  <2> QED
    BY <2>2
<1> QED
  BY <1>1, <1>3, <1>4

LEMMA BooksInit ==
    ASSUME A!Init
    PROVE  BooksInv
<1>1. VendorTables
  BY DEF A!Init, VendorTables
<1>2. statement.of = Nobody /\ Nobody \notin Vendors
  BY BooksAssumption DEF A!Init, A!NoStatement, A!BooksConstants
<1> QED
  BY <1>1, <1>2 DEF BooksInv

LEMMA BooksNext ==
    ASSUME BooksInv, [A!Next]_(A!vars)
    PROVE  BooksInv'
<1>1. CASE A!Next
  <2>1. expenses' = expenses /\ orders' = orders
    BY <1>1, BooksSteps
  <2>2. statement'.of \in Vendors => MadeFrom(statement', expenses, orders)
    <3>1. Customers \cap Vendors = {}
      BY BooksAssumption DEF A!BooksConstants
    <3> QED
      BY <1>1, <3>1, BooksSteps
  <2>3. VendorTables'
    BY <2>1 DEF BooksInv, VendorTables
  <2> QED
    BY <2>1, <2>2, <2>3 DEF BooksInv
<1>2. CASE UNCHANGED A!vars
  <2>1. expenses' = expenses /\ orders' = orders /\ statement' = statement
    BY <1>2 DEF A!vars, A!books
  <2>2. VendorTables'
    BY <2>1 DEF BooksInv, VendorTables
  <2> QED
    BY <2>1, <2>2 DEF BooksInv
<1> QED
  BY <1>1, <1>2

\* Two statements in a row, made from the same tables.
LEMMA StatementsChain ==
    ASSUME VendorTables, NEW s, NEW t, t.of = s.of, t.from = s.to + 1,
           MadeFrom(s, expenses, orders), MadeFrom(t, expenses, orders)
    PROVE  2 * A!Abs(t.opening - s.closing) <= RateUnit * s.rows
<1>v. PICK v, from, to, e : /\ v = s.of /\ from = s.from /\ to = s.to
                            /\ e = RowsOf(expenses, orders, v, from, to)
  OBVIOUS
<1>1. PICK D, day, w : Account(v, D, day, w)
  BY AccountsAreKept
<1>2. /\ Ledger(D, day, w, {1, 2}) /\ Shows(e, D, day, w, from, to)
      /\ \A d : OpeningOf(expenses, orders, v, d) = Total(w, OnDays(D, day, 0, d - 1))
  BY <1>v, <1>1, VendorRowsAre DEF Account, RowsOf
<1>3. from \in Nat /\ to \in Nat /\ from <= to
  BY <1>v DEF MadeFrom
<1>p. PICK p, q, r, o, c, n :
         /\ p = Total(w, OnDays(D, day, 0, from - 1)) /\ q = Total(w, OnDays(D, day, from, to))
         /\ r = Total(w, OnDays(D, day, 0, to)) /\ o = t.opening /\ c = s.closing
         /\ n = RateUnit * Cardinality(DOMAIN e)
  OBVIOUS
<1>4. p \in Int /\ q \in Int /\ r = p + q
  BY <1>p, <1>2, <1>3, PeriodsAddUp
<1>5. s.opening = p
  BY <1>v, <1>p, <1>2 DEF MadeFrom
<1>6. c = A!Closing(p, e)
  BY <1>v, <1>p, <1>5 DEF MadeFrom
<1>7. c \in Int /\ Close(c, p + q, n)
  BY <1>p, <1>2, <1>4, <1>6, ClosingNear
<1>8. o = r
  <2>1. o = OpeningOf(expenses, orders, v, to + 1)
    BY <1>v, <1>p DEF MadeFrom
  <2>2. (to + 1) - 1 = to
    BY <1>3
  <2> QED
    BY <1>p, <1>2, <2>1, <2>2
<1>9. n \in Int /\ n = RateUnit * s.rows
  <2>1. s.rows = Cardinality(DOMAIN e)
    BY <1>v DEF MadeFrom
  <2>2. Cardinality(DOMAIN e) \in Nat
    BY <1>2, ShownSum, FS_CardinalityType
  <2>3. RateUnit * Cardinality(DOMAIN e) \in Int
    BY <2>2, RateUnitIs
  <2> QED
    BY <1>p, <2>1, <2>3
<1>10. Close(o, c, n)
  BY <1>4, <1>7, <1>8, <1>9 DEF Close
<1>11. 2 * A!Abs(o - c) <= n
  <2>1. o \in Int /\ c \in Int /\ n \in Int
    BY <1>4, <1>7, <1>8, <1>9
  <2> QED
    BY <1>10, <2>1, CloseIs
<1> QED
  BY <1>p, <1>9, <1>11

\* The tables a vendor's statement was made from are still the tables.
THEOREM BooksInvariant == A!Spec => []BooksInv
BY BooksInit, BooksNext, PTL DEF A!Spec

\* A vendor's statement opens with the balance the one before it closed with, but for the
\* half cent a row that rounding the running balance may cost (StatementGenerator).
THEOREM VendorStatementsCarryForward == A!Spec => VendorStatementsChain
<1>1. BooksInv /\ [A!Next]_(A!vars)
        => [A!Follows /\ statement.of \in Vendors =>
              2 * A!Abs(statement'.opening - statement.closing)
                <= RateUnit * statement.rows]_(A!vars)
  <2> SUFFICES ASSUME BooksInv, A!Next, A!Follows, statement.of \in Vendors
               PROVE  2 * A!Abs(statement'.opening - statement.closing)
                        <= RateUnit * statement.rows
    OBVIOUS
  <2>1. statement'.of = statement.of /\ statement'.from = statement.to + 1
    BY DEF A!Follows
  <2>2. statement.of \notin Customers
    BY BooksAssumption DEF A!BooksConstants
  <2>3. MadeFrom(statement', expenses, orders)
    BY <2>1, <2>2, BooksSteps
  <2>4. VendorTables /\ MadeFrom(statement, expenses, orders)
    BY DEF BooksInv
  <2> QED
    BY <2>1, <2>3, <2>4, StatementsChain
<1>2. A!Spec => [][A!Next]_(A!vars)
  BY PTL DEF A!Spec
<1>3. A!Spec => [][A!Follows /\ statement.of \in Vendors =>
                     2 * A!Abs(statement'.opening - statement.closing)
                       <= RateUnit * statement.rows]_(A!vars)
  BY <1>1, <1>2, BooksInvariant, PTL
<1> QED
  BY <1>3 DEF VendorStatementsChain, A!VendorStatementsChain
===============================================================================
