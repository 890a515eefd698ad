------------------------------ MODULE DeskProofs ------------------------------
(***************************************************************************)
(* The pages of the Sales Desk agree, on any day, whatever was done to the *)
(* deals and the prospects (DeskAlwaysAgrees).                             *)
(*                                                                         *)
(* DeskInv says what the rows hold, which is all that the pages need of    *)
(* the history: a closed deal was closed by today, a lost one has one of   *)
(* the reasons.  The rest is about what the pages compute from such rows:  *)
(* the deals of a set are those of its classes (by stage, representative,  *)
(* month, reason, company), so that counts add up exactly and rounded sums *)
(* to within half a cent a class; a month closes in the quarter exactly    *)
(* when its days do; days idle and dates compared are the same buckets;    *)
(* a list sorted by keys that tell its rows apart shows each once, and     *)
(* pages and batches put one after another are the list.                   *)
(***************************************************************************)
EXTENDS Desk, SumTheorems, SequenceTheorems

\* What a row holds.
DealRow ==
    [status: {"open", "parked", "won", "lost"}, terms: Terms, stage: Stages,
     first: Nat, last: Nat, until: Nat, closed: Nat,
     reason: WonReasons \cup LostReasons \cup {"none"}]

\* What one deal holds on a day.
DealOK(row, day) ==
    \/ row = Absent
    \/ /\ row \in DealRow
       /\ row.status \in Closed => row.closed \in 1 .. day
       /\ row.status = "lost" => row.reason \in LostReasons

DeskInv ==
    /\ today \in 1 .. LastDay
    /\ DOMAIN deals = Deals /\ \A d \in Deals : DealOK(deals[d], today)
    /\ DOMAIN prospects = Prospects
    /\ \A p \in Prospects : prospects[p] = Absent \/ prospects[p] \in Plans

LEMMA DeskInitial == DeskInit => DeskInv
BY DeskAssumption DEF DeskInit, DeskInv, DealOK

\* One deal is written, the others and the day are kept.
LEMMA WritesOneDeal ==
    ASSUME DeskInv, NEW d \in Deals, NEW row, DealOK(row, today),
           deals' = [deals EXCEPT ![d] = row], today' = today,
           DOMAIN prospects' = Prospects,
           \A p \in Prospects : prospects'[p] = Absent \/ prospects'[p] \in Plans
    PROVE  DeskInv'
<1>1. \A e \in Deals : DealOK(deals'[e], today')
  BY DEF DeskInv
<1>2. DOMAIN deals' = Deals
  BY DEF DeskInv
<1> QED
  BY <1>1, <1>2 DEF DeskInv

\* A deal that is there, and one on which something can be done.
LEMMA RowThere ==
    ASSUME DeskInv, NEW d \in Deals, deals[d] # Absent
    PROVE  deals[d] \in DealRow
BY DEF DeskInv, DealOK

LEMMA StatusTells ==
    ASSUME NEW row, NEW day, DealOK(row, day)
    PROVE  /\ row = Absent <=> row.status = "absent"
           /\ row # Absent => row \in DealRow
BY DEF DealOK, DealRow, Absent

LEMMA OpenedOK ==
    ASSUME DeskInv, NEW terms \in Terms
    PROVE  DealOK(Opened(terms), today)
<1>1. today \in Nat /\ 1 \in Stages
  BY DeskAssumption DEF DeskInv, Stages
<1>2. Opened(terms) \in DealRow
  BY <1>1 DEF Opened, DealRow, NoDate
<1> QED
  BY <1>2 DEF DealOK, Opened, Closed

\* How a row may be written to: the fields it has are kept or get a value of theirs.
LEMMA RowWritten ==
    ASSUME NEW row \in DealRow
    PROVE  /\ \A terms \in Terms : [row EXCEPT !.terms = terms] \in DealRow
           /\ \A day \in Nat : [row EXCEPT !.last = day] \in DealRow
           /\ \A stage \in Stages, day \in Nat :
                 [row EXCEPT !.stage = stage, !.last = day] \in DealRow
           /\ \A status \in Closed, reason \in WonReasons \cup LostReasons, day \in Nat :
                 [row EXCEPT !.status = status, !.reason = reason, !.closed = day,
                             !.last = day] \in DealRow
           /\ \A until, day \in Nat :
                 /\ [row EXCEPT !.status = "parked", !.until = until, !.last = day] \in DealRow
                 /\ [row EXCEPT !.status = "open", !.until = until, !.last = day] \in DealRow
BY DEF DealRow, Closed

LEMMA DeskPreserved == DeskInv /\ [DeskNext]_deskVars => DeskInv'
<1> SUFFICES ASSUME DeskInv, [DeskNext]_deskVars PROVE DeskInv'
  OBVIOUS
<1>d. today \in Nat /\ today \in 1 .. LastDay
  BY DeskAssumption DEF DeskInv
<1>p. /\ DOMAIN prospects = Prospects
      /\ \A p \in Prospects : prospects[p] = Absent \/ prospects[p] \in Plans
  BY DEF DeskInv
<1>s. \A d \in Deals : /\ deals[d] = Absent <=> deals[d].status = "absent"
                       /\ deals[d] # Absent => deals[d] \in DealRow
                       /\ DealOK(deals[d], today)
  BY StatusTells DEF DeskInv
<1>1. CASE UNCHANGED deskVars
  BY <1>1 DEF DeskInv, deskVars
<1>2. ASSUME NEW d \in Deals, NEW terms \in Terms, Create(d, terms) PROVE DeskInv'
  <2>1. DealOK(Opened(terms), today)
    BY OpenedOK
  <2> QED
    BY <1>p, <2>1, <1>2, WritesOneDeal DEF Create
<1>3. ASSUME NEW d \in Deals, NEW terms \in Terms, Update(d, terms) PROVE DeskInv'
  <2> PICK row : row = [deals[d] EXCEPT !.terms = terms]
    OBVIOUS
  <2>1. deals[d] \in DealRow
    BY <1>s, <1>3 DEF Update, Absent
  <2>2. row \in DealRow /\ row.status = deals[d].status /\ row.closed = deals[d].closed
          /\ row.reason = deals[d].reason
    <3>1. row \in DealRow
      BY <2>1, RowWritten
    <3> QED
      BY <2>1, <3>1 DEF DealRow
  <2>3. DealOK(row, today)
    BY <2>2, <1>3, <1>s DEF DealOK, Update, Closed
  <2>4. deals' = [deals EXCEPT ![d] = row]
    BY <1>3 DEF Update
  <2> QED
    BY <1>p, <2>3, <2>4, <1>3, WritesOneDeal DEF Update
<1>4. ASSUME NEW d \in Deals, LogActivity(d) PROVE DeskInv'
  <2> PICK row : row = [deals[d] EXCEPT !.last = today]
    OBVIOUS
  <2>1. deals[d] \in DealRow
    BY <1>s, <1>4 DEF LogActivity, Absent
  <2>2. row \in DealRow /\ row.status = "open"
    <3>1. row \in DealRow
      BY <2>1, <1>d, RowWritten
    <3> QED
      BY <2>1, <3>1, <1>4 DEF DealRow, LogActivity
  <2>3. DealOK(row, today)
    BY <2>2 DEF DealOK, Closed
  <2>4. deals' = [deals EXCEPT ![d] = row]
    BY <1>4 DEF LogActivity
  <2> QED
    BY <1>p, <2>3, <2>4, <1>4, WritesOneDeal DEF LogActivity
<1>5. ASSUME NEW d \in Deals, AdvanceStage(d) PROVE DeskInv'
  <2> PICK row : row = [deals[d] EXCEPT !.stage = deals[d].stage + 1, !.last = today]
    OBVIOUS
  <2>1. deals[d] \in DealRow /\ deals[d].stage + 1 \in Stages
    <3>1. deals[d] \in DealRow /\ deals[d].stage < LastStage
      BY <1>s, <1>5 DEF AdvanceStage, Absent
    <3>2. deals[d].stage \in 1 .. LastStage /\ LastStage \in Nat
      BY <3>1, DeskAssumption DEF DealRow, Stages
    <3> QED
      BY <3>1, <3>2 DEF Stages
  <2>2. row \in DealRow /\ row.status = "open"
    <3>1. row \in DealRow
      BY <2>1, <1>d, RowWritten
    <3> QED
      BY <2>1, <3>1, <1>5 DEF DealRow, AdvanceStage
  <2>3. DealOK(row, today)
    BY <2>2 DEF DealOK, Closed
  <2>4. deals' = [deals EXCEPT ![d] = row]
    BY <1>5 DEF AdvanceStage
  <2> QED
    BY <1>p, <2>3, <2>4, <1>5, WritesOneDeal DEF AdvanceStage
<1>6. ASSUME NEW d \in Deals, Resume(d) PROVE DeskInv'
  <2> PICK row : row = [deals[d] EXCEPT !.status = "open", !.until = NoDate, !.last = today]
    OBVIOUS
  <2>1. deals[d] \in DealRow
    BY <1>s, <1>6 DEF Resume, Absent
  <2>2. row \in DealRow /\ row.status = "open"
    <3>1. row \in DealRow
      BY <2>1, <1>d, RowWritten DEF NoDate
    <3> QED
      BY <2>1, <3>1 DEF DealRow
  <2>3. DealOK(row, today)
    BY <2>2 DEF DealOK, Closed
  <2>4. deals' = [deals EXCEPT ![d] = row]
    BY <1>6 DEF Resume
  <2> QED
    BY <1>p, <2>3, <2>4, <1>6, WritesOneDeal DEF Resume
<1>7. ASSUME NEW d \in Deals, Delete(d) PROVE DeskInv'
  <2>1. DealOK(Absent, today)
    BY DEF DealOK
  <2> QED
    BY <1>p, <2>1, <1>7, WritesOneDeal DEF Delete
<1>8. ASSUME NEW d \in Deals, NEW result \in Closed,
             NEW reason \in WonReasons \cup LostReasons, Close(d, result, reason)
      PROVE  DeskInv'
  <2> PICK row : row = [deals[d] EXCEPT !.status = result, !.reason = reason,
                                        !.closed = today, !.last = today]
    OBVIOUS
  <2>1. deals[d] \in DealRow
    BY <1>s, <1>8 DEF Close, Absent
  <2>2. /\ row \in DealRow /\ row.status = result /\ row.reason = reason
        /\ row.closed = today
    <3>1. row \in DealRow
      BY <2>1, <1>d, RowWritten
    <3> QED
      BY <2>1, <3>1 DEF DealRow
  <2>3. DealOK(row, today)
    BY <2>2, <1>d, <1>8 DEF DealOK, Close
  <2>4. deals' = [deals EXCEPT ![d] = row]
    BY <1>8 DEF Close
  <2> QED
    BY <1>p, <2>3, <2>4, <1>8, WritesOneDeal DEF Close
<1>9. ASSUME NEW d \in Deals, NEW until \in Dates, Park(d, until) PROVE DeskInv'
  <2> PICK row : row = [deals[d] EXCEPT !.status = "parked", !.until = until, !.last = today]
    OBVIOUS
  <2>1. deals[d] \in DealRow /\ until \in Nat
    BY <1>s, <1>9, DeskAssumption DEF Park, Absent
  <2>2. row \in DealRow /\ row.status = "parked"
    <3>1. row \in DealRow
      BY <2>1, <1>d, RowWritten
    <3> QED
      BY <2>1, <3>1 DEF DealRow
  <2>3. DealOK(row, today)
    BY <2>2 DEF DealOK, Closed
  <2>4. deals' = [deals EXCEPT ![d] = row]
    BY <1>9 DEF Park
  <2> QED
    BY <1>p, <2>3, <2>4, <1>9, WritesOneDeal DEF Park
<1>10. ASSUME NEW d \in Deals, NEW p \in Prospects, NEW terms \in Terms, Engage(p, d, terms)
       PROVE  DeskInv'
  <2>1. DealOK(Opened(terms), today)
    BY OpenedOK
  <2>2. /\ DOMAIN prospects' = Prospects
        /\ \A q \in Prospects : prospects'[q] = Absent \/ prospects'[q] \in Plans
    BY <1>p, <1>10 DEF Engage
  <2> QED
    BY <2>1, <2>2, <1>10, WritesOneDeal DEF Engage
<1>11. ASSUME NEW p \in Prospects, NEW plan \in Plans, Plan(p, plan) PROVE DeskInv'
  BY <1>11 DEF Plan, DeskInv
<1>12. ASSUME NEW p \in Prospects, Drop(p) PROVE DeskInv'
  BY <1>12 DEF Drop, DeskInv
<1>13. CASE NextDay
  <2>1. today' \in 1 .. LastDay /\ today' = today + 1 /\ UNCHANGED <<deals, prospects>>
    BY <1>d, <1>13, DeskAssumption DEF NextDay
  <2>2. ASSUME NEW d \in Deals PROVE DealOK(deals[d], today + 1)
    <3>1. \A n \in Nat : n \in 1 .. today => n \in 1 .. today + 1
      BY <1>d
    <3>2. deals[d] \in DealRow => deals[d].closed \in Nat
      BY DEF DealRow
    <3> QED
      BY <3>1, <3>2, <1>s DEF DealOK
  <2> QED
    BY <2>1, <2>2 DEF DeskInv
<1> QED
  BY <1>1, <1>2, <1>3, <1>4, <1>5, <1>6, <1>7, <1>8, <1>9, <1>10, <1>11, <1>12, <1>13
     DEF DeskNext

\* On any day the rows of the deals and the prospects hold what they should.
THEOREM DeskInvariant == DeskSpec => []DeskInv
<1>1. DeskInit => DeskInv
  BY DeskInitial
<1>2. DeskInv /\ [DeskNext]_deskVars => DeskInv'
  BY DeskPreserved
<1> QED
  BY <1>1, <1>2, PTL DEF DeskSpec

------------------------------------------------------------------------------
(* Rounding *)

\* Division by a positive number, and what it leaves.
LEMMA Division ==
    \A n \in Nat, d \in Nat \ {0} :
        /\ n \div d \in Nat
        /\ d * (n \div d) <= n /\ n < d * (n \div d) + d
OBVIOUS

\* q is n/d, rounded to the nearest.
Rounds(q, n, d) == q \in Nat /\ Within((2 * d) * q - 2 * n, d)

LEMMA HalfUpRounds == \A n \in Nat, d \in Nat \ {0} : Rounds(HalfUp(n, d), n, d)
<1> TAKE n \in Nat, d \in Nat \ {0}
<1> PICK m, e : m = 2 * n + d /\ e = 2 * d
  OBVIOUS
<1>1. m \in Nat /\ e \in Nat \ {0}
  OBVIOUS
<1> PICK q : q = m \div e
  OBVIOUS
<1>2. q \in Nat /\ e * q <= m /\ m < e * q + e
  BY <1>1, Division
<1> PICK p : p = e * q
  OBVIOUS
<1>3. p \in Int
  BY <1>1, <1>2
<1>4. Within(p - 2 * n, d)
  BY <1>1, <1>2, <1>3 DEF Within
<1>5. q = HalfUp(n, d)
  BY DEF HalfUp
<1> QED
  BY <1>2, <1>4, <1>5 DEF Rounds

\* A tie is as near to the number below as to the one above.
LEMMA HalfEvenRounds == \A n \in Nat, d \in Nat \ {0} : Rounds(HalfEven(n, d), n, d)
<1> TAKE n \in Nat, d \in Nat \ {0}
<1> PICK q : q = n \div d
  OBVIOUS
<1> PICK p : p = d * q
  OBVIOUS
<1>1. q \in Nat /\ p \in Int /\ (2 * d) * q = 2 * p
  BY Division
<1>2. CASE 2 * (n - p) = d /\ q % 2 = 0
  <2>1. HalfEven(n, d) = q
    BY <1>2 DEF HalfEven
  <2>2. Within(2 * p - 2 * n, d)
    BY <1>1, <1>2 DEF Within
  <2> QED
    BY <1>1, <2>1, <2>2 DEF Rounds
<1>3. CASE ~(2 * (n - p) = d /\ q % 2 = 0)
  <2>1. HalfEven(n, d) = HalfUp(n, d)
    BY <1>3 DEF HalfEven
  <2> QED
    BY <2>1, HalfUpRounds
<1> QED
  BY <1>2, <1>3

LEMMA Multiplied == \A p \in Nat : \A a, b \in Int : a <= b => p * a <= p * b
OBVIOUS

\* Products written in another order.
Regroups(p, q, u, R, U) ==
    /\ p * ((2 * R) * q) = (2 * R) * (q * p)
    /\ p * (2 * (u * U) + R) = (2 * U) * (p * u) + p * R

LEMMA Regrouped == \A p, q, u, R, U \in Nat : Regroups(p, q, u, R, U)
BY DEF Regroups

\* A sum of dollars in the currency of the page: converted, then rounded.
LEMMA InCurrencyRounds ==
    ASSUME NEW currency \in Currencies, NEW u \in Nat, NEW unit \in Nat \ {0}
    PROVE  Rounds(InCurrency(u, unit, currency), u * UnitsPerUsd[currency], unit * RateUnit)
<1>1. RateUnit \in Nat \ {0} /\ UnitsPerUsd[currency] \in Nat \ {0}
  BY DeskAssumption
<1>2. CASE currency = "USD"
  <2> PICK q : q = HalfEven(u, unit)
    OBVIOUS
  <2>1. q \in Nat /\ Within((2 * unit) * q - 2 * u, unit)
    BY HalfEvenRounds DEF Rounds
  <2> PICK x : x = (2 * unit) * q - 2 * u
    OBVIOUS
  <2>2. x \in Int /\ Within(x, unit) /\ unit \in Nat /\ RateUnit \in Nat
    BY <1>1, <2>1
  <2>3. Within(RateUnit * x, RateUnit * unit)
    BY <2>2, WithinScales
  <2>4. RateUnit * x = (2 * (unit * RateUnit)) * q - 2 * (u * RateUnit)
    BY <1>1, <2>1
  <2>5. RateUnit * unit = unit * RateUnit
    BY <1>1
  <2>6. UnitsPerUsd[currency] = RateUnit
    BY <1>2, DeskAssumption
  <2>7. InCurrency(u, unit, currency) = q
    BY <1>2 DEF InCurrency
  <2> QED
    BY <2>1, <2>3, <2>4, <2>5, <2>6, <2>7 DEF Rounds
<1>3. CASE currency # "USD"
  <2> PICK n, d : n = u * UnitsPerUsd[currency] /\ d = unit * RateUnit
    OBVIOUS
  <2>1. n \in Nat /\ d \in Nat \ {0}
    BY <1>1
  <2>2. Rounds(HalfUp(n, d), n, d)
    BY <2>1, HalfUpRounds
  <2> QED
    BY <1>3, <2>2 DEF InCurrency
<1> QED
  BY <1>2, <1>3

\* A factor is taken out of what lies within a bound.
LEMMA WithinCancels ==
    \A x \in Int, n \in Nat, r \in Nat \ {0} : Within(r * x, r * n) => Within(x, n)
<1> TAKE x \in Int, n \in Nat, r \in Nat \ {0}
<1>1. \A y, z \in Int : r * y <= r * z => y <= z
  OBVIOUS
<1>2. r * (-n) = -(r * n) /\ -n \in Int /\ n \in Int
  OBVIOUS
<1> QED
  BY <1>1, <1>2 DEF Within

\* The parts of a sum, each shown in the currency of the page, are near the
\* sum, when there are at most n of them.
PartsNear(w, S, class, I, currency, n) ==
    Near(InCurrency(Total(w, S), 1, currency),
         Total([i \in I |-> InCurrency(Total(w, Class(S, class, i)), 1, currency)], I),
         n + 1)

LEMMA PartsAreNear ==
    ASSUME NEW S, IsFiniteSet(S), NEW I, IsFiniteSet(I), NEW w, NEW class,
           \A x \in S : w[x] \in Nat /\ class[x] \in I,
           NEW currency \in Currencies, NEW n \in Nat, Cardinality(I) <= n
    PROVE  PartsNear(w, S, class, I, currency, n)
<1> PICK R, U : R = RateUnit /\ U = UnitsPerUsd[currency]
  OBVIOUS
<1>1. R \in Nat \ {0} /\ U \in Nat \ {0}
  BY DeskAssumption
<1> PICK part : part = [i \in I |-> Total(w, Class(S, class, i))]
  OBVIOUS
<1> PICK shown : shown = [i \in I |-> InCurrency(Total(w, Class(S, class, i)), 1, currency)]
  OBVIOUS
<1> PICK exact : exact = [i \in I |-> U * part[i]]
  OBVIOUS
<1> PICK all, a, b, x : /\ all = Total(w, S) /\ a = InCurrency(all, 1, currency)
                        /\ b = Total(shown, I) /\ x = Total(exact, I)
  OBVIOUS
<1>2. all \in Nat /\ \A i \in I : part[i] \in Nat
  <2>1. \A i \in I : /\ IsFiniteSet(Class(S, class, i))
                     /\ \A y \in Class(S, class, i) : w[y] \in Nat
    BY FS_Subset DEF Class
  <2> QED
    BY <2>1, TotalNonNegative
<1>3. all = Total(part, I)
  BY TotalByClass DEF ByClass
<1>4. \A i \in I : part[i] \in Int /\ exact[i] = U * part[i] /\ exact[i] \in Int
  BY <1>1, <1>2
<1>5. x = U * all
  BY <1>1, <1>3, <1>4, TotalScales DEF Scales
<1>6. \A u \in Nat : /\ InCurrency(u, 1, currency) \in Nat
                     /\ Within((2 * R) * InCurrency(u, 1, currency) - 2 * (U * u), R)
  <2> TAKE u \in Nat
  <2>1. Rounds(InCurrency(u, 1, currency), u * U, 1 * R)
    BY InCurrencyRounds
  <2>2. 1 * R = R /\ u * U = U * u
    BY <1>1
  <2> QED
    BY <2>1, <2>2 DEF Rounds
<1>7. a \in Nat /\ Within((2 * R) * a - 2 * (U * all), R)
  BY <1>2, <1>6
<1>8. \A i \in I : shown[i] \in Int /\ Within((2 * R) * shown[i] - 2 * exact[i], R)
  BY <1>2, <1>4, <1>6
<1>9. b \in Int
  BY <1>8, TotalSplits DEF AnyOrder
<1> PICK count : count = Cardinality(I)
  OBVIOUS
<1>10. count \in Nat /\ count <= n
  BY FS_CardinalityType
<1>11. Within((2 * R) * b - 2 * x, R * count)
  <2>1. 2 * R \in Int /\ R \in Nat
    BY <1>1
  <2> QED
    BY <1>4, <1>8, <2>1, TotalsDrift
<1>12. Within(R * (2 * (a - b)), R * (n + 1))
  <2> PICK ra, rb : ra = (2 * R) * a /\ rb = (2 * R) * b
    OBVIOUS
  <2> PICK rn, rc : rn = R * n /\ rc = R * count
    OBVIOUS
  <2>1. rc <= rn /\ rc \in Int /\ rn \in Int
    BY <1>1, <1>10
  <2>2. ra \in Int /\ rb \in Int /\ x \in Int
    BY <1>1, <1>2, <1>5, <1>7, <1>9
  <2>3. R * (2 * (a - b)) = ra - rb /\ R * (n + 1) = rn + R
    BY <1>1, <1>7, <1>9
  <2>4. Within(ra - 2 * x, R) /\ Within(rb - 2 * x, rc)
    BY <1>5, <1>7, <1>11
  <2>5. Within(ra - rb, rn + R)
    BY <1>1, <2>1, <2>2, <2>4 DEF Within
  <2> QED
    BY <2>3, <2>5
<1>13. Within(2 * (a - b), n + 1)
  <2>1. 2 * (a - b) \in Int /\ n + 1 \in Nat
    BY <1>7, <1>9
  <2> QED
    BY <1>1, <1>12, <2>1, WithinCancels
<1>14. Near(a, b, n + 1)
  BY <1>7, <1>9, <1>13 DEF Near, Within
<1> QED
  BY <1>14 DEF PartsNear


------------------------------------------------------------------------------
(* What the pages add up *)

\* What is known of a deal that is there.
LEMMA DealFacts ==
    ASSUME DeskInv, NEW d \in Deals, deals[d] # Absent
    PROVE  /\ deals[d].status \in {"open", "parked", "won", "lost"}
           /\ deals[d].stage \in Stages
           /\ deals[d].terms.owner \in Owners
           /\ deals[d].terms.value \in Nat /\ deals[d].terms.currency \in Currencies
           /\ deals[d].first \in Nat /\ deals[d].last \in Nat /\ deals[d].until \in Nat
           /\ deals[d].status \in Closed => deals[d].closed \in 1 .. today
           /\ deals[d].status = "lost" => deals[d].reason \in LostReasons
<1>1. deals[d] \in DealRow /\ DealOK(deals[d], today)
  BY RowThere DEF DeskInv
<1>2. deals[d].terms \in [owner: Owners, value: Nat, currency: Currencies]
  BY <1>1, DeskAssumption DEF DealRow
<1>3. /\ deals[d].terms.owner \in Owners
      /\ deals[d].terms.value \in Nat /\ deals[d].terms.currency \in Currencies
  BY <1>2
<1>4. /\ deals[d].status \in Closed => deals[d].closed \in 1 .. today
      /\ deals[d].status = "lost" => deals[d].reason \in LostReasons
  BY <1>1 DEF DealOK
<1> QED
  BY <1>1, <1>3, <1>4 DEF DealRow

LEMMA WorthIsNat ==
    ASSUME DeskInv, NEW d \in Deals, deals[d] # Absent
    PROVE  UsdEquivalent(d) \in Nat
<1> PICK v, u : v = deals[d].terms.value /\ u = UnitsPerUsd[deals[d].terms.currency]
  OBVIOUS
<1>1. v \in Nat /\ u \in Nat \ {0} /\ RateUnit \in Nat
  BY DealFacts, DeskAssumption
<1>2. v * RateUnit \in Nat
  BY <1>1
<1>3. HalfUp(v * RateUnit, u) \in Nat
  BY <1>1, <1>2, HalfUpRounds DEF Rounds
<1> QED
  BY <1>3 DEF UsdEquivalent

Worths == [d \in Deals |-> UsdEquivalent(d)]

LEMMA UsdIsTotal ==
    ASSUME NEW A \in SUBSET Deals
    PROVE  Usd(A) = Total(Worths, A)
<1> PICK v : v = [d \in A |-> UsdEquivalent(d)]
  OBVIOUS
<1>1. IsFiniteSet(A) /\ A = DOMAIN v
  BY DeskAssumption, FS_Subset
<1>2. SumFunction(v) = Total(v, A)
  BY <1>1, SumFunctionIsTotal
<1>3. \A d \in A : v[d] = Worths[d]
  BY DEF Worths
<1>4. Total(v, A) = Total(Worths, A)
  BY <1>1, <1>3, TotalCongruence
<1> QED
  BY <1>2, <1>4 DEF Usd

\* What a set of deals is worth, shown in the currency of the page.
Shown(A, currency) == InCurrency(Usd(A), 1, currency)

\* Deals shown together and shown class by class.
ShownNear(A, class, I, currency, n) ==
    Near(Shown(A, currency), SumFunction([i \in I |-> Shown(Class(A, class, i), currency)]),
         n + 1)

There(A) == \A d \in A : d \in Deals /\ deals[d] # Absent

LEMMA ShownByClass ==
    ASSUME DeskInv, NEW A \in SUBSET Deals, There(A), NEW I, IsFiniteSet(I), NEW class,
           \A d \in A : class[d] \in I,
           NEW currency \in Currencies, NEW n \in Nat, Cardinality(I) <= n
    PROVE  ShownNear(A, class, I, currency, n)
<1>1. IsFiniteSet(A) /\ \A d \in A : Worths[d] \in Nat
  BY WorthIsNat, DeskAssumption, FS_Subset DEF There, Worths
<1>2. PartsNear(Worths, A, class, I, currency, n)
  BY <1>1, PartsAreNear
<1> PICK v, u :
      /\ v = [i \in I |-> InCurrency(Total(Worths, Class(A, class, i)), 1, currency)]
      /\ u = [i \in I |-> Shown(Class(A, class, i), currency)]
  OBVIOUS
<1>3. ASSUME NEW i \in I PROVE v[i] = u[i]
  <2>1. Class(A, class, i) \in SUBSET Deals
    BY DEF Class
  <2> QED
    BY <2>1, UsdIsTotal DEF Shown
<1>4. v = u
  BY <1>3
<1>5. SumFunction(u) = Total(u, I)
  BY SumFunctionIsTotal
<1>6. Shown(A, currency) = InCurrency(Total(Worths, A), 1, currency)
  BY UsdIsTotal DEF Shown
<1> QED
  BY <1>2, <1>4, <1>5, <1>6 DEF PartsNear, ShownNear

\* Deals counted together and class by class.
CountedNear(A, class, I) ==
    Cardinality(A) = SumFunction([i \in I |-> Cardinality(Class(A, class, i))])

LEMMA DealsByClass ==
    ASSUME NEW A, IsFiniteSet(A), NEW I, IsFiniteSet(I), NEW class,
           \A d \in A : class[d] \in I
    PROVE  CountedNear(A, class, I)
<1> PICK v : v = [i \in I |-> Cardinality(Class(A, class, i))]
  OBVIOUS
<1>1. Cardinality(A) = Total(v, I)
  BY CardinalityByClass DEF CountedByClass
<1>2. SumFunction(v) = Total(v, I)
  BY SumFunctionIsTotal
<1> QED
  BY <1>1, <1>2 DEF CountedNear

\* The sets of deals the pages are about.
LEMMA DealSets ==
    ASSUME NEW scope
    PROVE  /\ \A status : WithStatus(status, scope) \in SUBSET Deals
           /\ \A status : There(WithStatus(status, scope))
           /\ \A status : IsFiniteSet(WithStatus(status, scope))
           /\ \A status : \A d \in WithStatus(status, scope) : deals[d].status = status
           /\ OpenDeals(scope) = WithStatus("open", scope)
<1>1. \A status : WithStatus(status, scope) \in SUBSET Deals
  BY DEF WithStatus
<1> QED
  BY <1>1, DeskAssumption, FS_Subset DEF WithStatus, OpenDeals, There, In

StageOf == [d \in Deals |-> deals[d].stage]

LEMMA StagesFinite == IsFiniteSet(Stages) /\ Cardinality(Stages) = LastStage
BY DeskAssumption, FS_Interval DEF Stages

AtStage(scope, s) == { d \in OpenDeals(scope) : deals[d].stage = s }

LEMMA AtStageIsClass ==
    ASSUME NEW scope, NEW s
    PROVE  AtStage(scope, s) = Class(OpenDeals(scope), StageOf, s)
BY DEF AtStage, Class, StageOf, OpenDeals, WithStatus

LEMMA DashStages ==
    ASSUME NEW scope, NEW currency
    PROVE  /\ Dashboard(scope, currency).openCount = Cardinality(OpenDeals(scope))
           /\ Dashboard(scope, currency).arr = Shown(OpenDeals(scope), currency)
           /\ \A s \in Stages :
                 /\ Dashboard(scope, currency).stages[s].value
                      = Shown(AtStage(scope, s), currency)
                 /\ Dashboard(scope, currency).stages[s].count
                      = Cardinality(AtStage(scope, s))
BY DEF Dashboard, Shown, AtStage

LEMMA PageStages ==
    ASSUME NEW scope, NEW currency
    PROVE  /\ PipelineOverview(scope, currency).total = Shown(OpenDeals(scope), currency)
           /\ \A s \in Stages :
                 /\ PipelineOverview(scope, currency).stages[s].value
                      = Shown(AtStage(scope, s), currency)
                 /\ PipelineOverview(scope, currency).stages[s].count
                      = Cardinality(AtStage(scope, s))
BY DEF PipelineOverview, Shown, AtStage

\* The cards of the stages add up to the open deals, and to their value.
LEMMA StagesAddUp ==
    ASSUME DeskInv, NEW scope, NEW currency \in Currencies
    PROVE  /\ Dashboard(scope, currency).openCount
                = SumFunction([s \in Stages |-> Dashboard(scope, currency).stages[s].count])
           /\ Near(Dashboard(scope, currency).arr,
                   SumFunction([s \in Stages |-> Dashboard(scope, currency).stages[s].value]),
                   LastStage + 1)
<1> PICK A : A = OpenDeals(scope)
  OBVIOUS
<1>1. A \in SUBSET Deals /\ There(A) /\ IsFiniteSet(A)
  BY DealSets
<1>2. \A d \in A : StageOf[d] \in Stages
  BY <1>1, DealFacts DEF StageOf, There
<1>3. IsFiniteSet(Stages) /\ Cardinality(Stages) <= LastStage /\ LastStage \in Nat
  BY StagesFinite, DeskAssumption
<1>4. CountedNear(A, StageOf, Stages)
  BY <1>1, <1>2, <1>3, DealsByClass
<1>5. ShownNear(A, StageOf, Stages, currency, LastStage)
  BY <1>1, <1>2, <1>3, ShownByClass
<1>6. [s \in Stages |-> Dashboard(scope, currency).stages[s].count]
        = [s \in Stages |-> Cardinality(Class(A, StageOf, s))]
  BY DashStages, AtStageIsClass
<1>7. [s \in Stages |-> Dashboard(scope, currency).stages[s].value]
        = [s \in Stages |-> Shown(Class(A, StageOf, s), currency)]
  BY DashStages, AtStageIsClass
<1>8. /\ Dashboard(scope, currency).openCount = Cardinality(A)
      /\ Dashboard(scope, currency).arr = Shown(A, currency)
  BY DashStages
<1> QED
  BY <1>4, <1>5, <1>6, <1>7, <1>8 DEF CountedNear, ShownNear

------------------------------------------------------------------------------
(* Probabilities *)

WeightOf == [d \in Deals |-> UsdEquivalent(d) * Probability[deals[d].stage]]

LEMMA ProbabilityType == ASSUME NEW s \in Stages PROVE Probability[s] \in 0 .. 100
BY DeskAssumption

LEMMA WeightedIs ==
    ASSUME NEW scope, NEW currency
    PROVE  Dashboard(scope, currency).weighted
             = InCurrency(Total(WeightOf, OpenDeals(scope)), 100, currency)
<1> PICK A, v : /\ A = OpenDeals(scope)
                /\ v = [d \in A |-> UsdEquivalent(d) * Probability[deals[d].stage]]
  OBVIOUS
<1>1. A \in SUBSET Deals /\ IsFiniteSet(A)
  BY DealSets
<1>2. SumFunction(v) = Total(v, A)
  BY <1>1, SumFunctionIsTotal
<1>3. \A d \in A : v[d] = WeightOf[d]
  BY <1>1 DEF WeightOf
<1>4. Total(v, A) = Total(WeightOf, A)
  BY <1>1, <1>3, TotalCongruence
<1>5. Dashboard(scope, currency).weighted = InCurrency(SumFunction(v), 100, currency)
  BY DEF Dashboard
<1> QED
  BY <1>2, <1>4, <1>5

\* A stage's weight is its worth times its probability.
LEMMA StageWeight ==
    ASSUME DeskInv, NEW scope, NEW s \in Stages
    PROVE  /\ Total(WeightOf, AtStage(scope, s)) = Probability[s] * Usd(AtStage(scope, s))
           /\ Usd(AtStage(scope, s)) \in Nat
<1> PICK A : A = AtStage(scope, s)
  OBVIOUS
<1>1. /\ A \in SUBSET Deals /\ IsFiniteSet(A)
      /\ \A d \in A : deals[d] # Absent /\ deals[d].stage = s
  <2>1. A \in SUBSET OpenDeals(scope)
    BY DEF AtStage
  <2> QED
    BY <2>1, DealSets, FS_Subset DEF AtStage, There
<1>2. \A d \in A : Worths[d] \in Nat /\ WeightOf[d] = Worths[d] * Probability[s]
  BY <1>1, WorthIsNat DEF Worths, WeightOf
<1>3. Probability[s] \in Nat
  BY ProbabilityType
<1>4. \A d \in A : Worths[d] \in Int /\ WeightOf[d] = Probability[s] * Worths[d]
  BY <1>2, <1>3
<1>5. Total(WeightOf, A) = Probability[s] * Total(Worths, A)
  BY <1>1, <1>3, <1>4, TotalScales DEF Scales
<1>6. Usd(A) = Total(Worths, A) /\ Total(Worths, A) \in Nat
  BY <1>1, <1>2, UsdIsTotal, TotalNonNegative
<1> QED
  BY <1>5, <1>6

\* Rounding a stage adds at most half a cent, and its probability is at most
\* 100 percent; rounding the weighted sum takes at most half a cent.
LEMMA WeightedAtLeast ==
    ASSUME DeskInv, NEW scope, NEW currency \in Currencies
    PROVE  100 * Dashboard(scope, currency).weighted
             >= SumFunction([s \in Stages |->
                                Dashboard(scope, currency).stages[s].value * Probability[s]])
                  - 50 * (LastStage + 1)
<1> PICK A : A = OpenDeals(scope)
  OBVIOUS
<1>1. A \in SUBSET Deals /\ There(A) /\ IsFiniteSet(A)
  BY DealSets
<1>2. IsFiniteSet(Stages) /\ Cardinality(Stages) = LastStage /\ LastStage \in Nat
  BY StagesFinite, DeskAssumption
<1> PICK R, U : R = RateUnit /\ U = UnitsPerUsd[currency]
  OBVIOUS
<1>3. R \in Nat \ {0} /\ U \in Nat \ {0}
  BY DeskAssumption
<1> PICK W, part : W = Total(WeightOf, A) /\ part = [s \in Stages |-> Total(WeightOf, AtStage(scope, s))]
  OBVIOUS
<1>4. \A d \in A : WeightOf[d] \in Nat /\ StageOf[d] \in Stages
  <2> TAKE d \in A
  <2>1. deals[d].stage \in Stages /\ UsdEquivalent(d) \in Nat /\ d \in Deals
    BY <1>1, DealFacts, WorthIsNat DEF There
  <2>2. Probability[deals[d].stage] \in Nat
    BY <2>1, ProbabilityType
  <2> QED
    BY <2>1, <2>2 DEF WeightOf, StageOf
<1>5. W = Total(part, Stages)
  <2>1. W = Total([s \in Stages |-> Total(WeightOf, Class(A, StageOf, s))], Stages)
    BY <1>1, <1>2, <1>4, TotalByClass DEF ByClass
  <2>2. part = [s \in Stages |-> Total(WeightOf, Class(A, StageOf, s))]
    BY AtStageIsClass
  <2> QED
    BY <2>1, <2>2
<1>6. W \in Nat
  BY <1>1, <1>4, TotalNonNegative
<1> PICK w : w = Dashboard(scope, currency).weighted
  OBVIOUS
<1>7. w \in Nat /\ Within((2 * (100 * R)) * w - 2 * (W * U), 100 * R)
  <2>1. w = InCurrency(W, 100, currency)
    BY WeightedIs
  <2>2. Rounds(w, W * U, 100 * R)
    BY <1>6, <2>1, InCurrencyRounds
  <2> QED
    BY <2>2 DEF Rounds
<1> PICK v, x, y :
      /\ v = [s \in Stages |-> Dashboard(scope, currency).stages[s].value * Probability[s]]
      /\ x = [s \in Stages |-> (2 * R) * v[s]]
      /\ y = [s \in Stages |-> (2 * U) * part[s] + 100 * R]
  OBVIOUS
<1>8. ASSUME NEW s \in Stages
      PROVE  part[s] \in Nat /\ v[s] \in Nat /\ x[s] <= y[s]
  <2> PICK u, p, q : /\ u = Usd(AtStage(scope, s)) /\ p = Probability[s]
                     /\ q = Dashboard(scope, currency).stages[s].value
    OBVIOUS
  <2>1. u \in Nat /\ p \in Nat /\ p <= 100 /\ part[s] = p * u
    BY StageWeight, ProbabilityType
  <2>2. q = InCurrency(u, 1, currency)
    BY DashStages DEF Shown
  <2>3. Rounds(q, u * U, 1 * R)
    BY <2>1, <2>2, InCurrencyRounds
  <2>4. q \in Nat /\ (2 * R) * q <= 2 * (u * U) + R
    <3> PICK rq, uu : rq = (2 * R) * q /\ uu = u * U
      OBVIOUS
    <3>1. q \in Nat /\ Within(rq - 2 * uu, R) /\ 1 * R = R
      BY <1>3, <2>3 DEF Rounds
    <3>2. rq \in Int /\ uu \in Int
      BY <1>3, <2>1, <3>1
    <3> QED
      BY <1>3, <3>1, <3>2 DEF Within
  <2>5. p * ((2 * R) * q) <= p * (2 * (u * U) + R)
    <3>1. \A a, b \in Int : a <= b => p * a <= p * b
      BY <2>1, Multiplied
    <3>2. (2 * R) * q \in Int /\ 2 * (u * U) + R \in Int
      BY <1>3, <2>1, <2>4
    <3> QED
      BY <2>4, <3>1, <3>2
  <2>6. p * R <= 100 * R
    BY <1>3, <2>1
  <2>7. /\ p * ((2 * R) * q) = (2 * R) * (q * p)
        /\ p * (2 * (u * U) + R) = (2 * U) * (p * u) + p * R
    <3>1. p \in Nat /\ q \in Nat /\ u \in Nat /\ R \in Nat /\ U \in Nat
      BY <1>3, <2>1, <2>4
    <3>2. Regroups(p, q, u, R, U)
      BY <3>1, Regrouped
    <3> QED
      BY <3>2 DEF Regroups
  <2>8. v[s] = q * p /\ q * p \in Nat /\ p * u \in Nat
    BY <2>1, <2>4
  <2>9. x[s] = (2 * R) * (q * p) /\ y[s] = (2 * U) * (p * u) + 100 * R
    BY <2>1, <2>8
  <2>10. (2 * R) * (q * p) <= (2 * U) * (p * u) + 100 * R
    <3> PICK a, b, c : a = (2 * R) * (q * p) /\ b = (2 * U) * (p * u) /\ c = p * R
      OBVIOUS
    <3>1. a \in Int /\ b \in Int /\ c \in Int /\ a <= b + c /\ c <= 100 * R
      <4>1. a \in Int /\ b \in Int /\ c \in Int /\ c <= 100 * R
        BY <1>3, <2>1, <2>6, <2>8
      <4>2. p * ((2 * R) * q) = a /\ p * (2 * (u * U) + R) = b + c
        BY <2>7
      <4> QED
        BY <2>5, <4>1, <4>2
    <3> QED
      BY <1>3, <3>1
  <2> QED
    BY <2>1, <2>8, <2>9, <2>10
<1>9. \A s \in Stages : x[s] \in Int /\ y[s] \in Int /\ v[s] \in Int /\ part[s] \in Int
  BY <1>3, <1>8
<1>10. Total(x, Stages) <= Total(y, Stages)
  BY <1>2, <1>8, <1>9, TotalAtMost DEF AtMost
<1> PICK V : V = Total(v, Stages)
  OBVIOUS
<1>11. V \in Int /\ Total(x, Stages) = (2 * R) * V
  <2>1. 2 * R \in Int
    BY <1>3
  <2> QED
    BY <1>2, <1>9, <2>1, TotalScales, TotalSplits DEF Scales, AnyOrder
<1>12. Total(y, Stages) = (2 * U) * W + (100 * R) * LastStage
  <2> PICK z, c, one : /\ z = [s \in Stages |-> (2 * U) * part[s]]
                       /\ c = [s \in Stages |-> 100 * R]
                       /\ one = [s \in Stages |-> 1]
    OBVIOUS
  <2>1. 2 * U \in Int /\ 100 * R \in Int
    BY <1>3
  <2>2. \A s \in Stages : z[s] \in Int /\ c[s] \in Int /\ y[s] = z[s] + c[s]
    BY <1>3, <1>9
  <2>3. Total(y, Stages) = Total(z, Stages) + Total(c, Stages)
    BY <1>2, <2>2, TotalAdds DEF Adds
  <2>4. Total(z, Stages) = (2 * U) * W
    BY <1>2, <1>5, <1>9, <2>1, TotalScales DEF Scales
  <2>5. \A s \in Stages : one[s] = 1 /\ one[s] \in Int /\ c[s] = (100 * R) * one[s]
    BY <1>3
  <2>6. Total(one, Stages) = LastStage
    BY <1>2, <2>5, TotalOfOnes
  <2>7. Total(c, Stages) = (100 * R) * LastStage
    BY <1>2, <2>1, <2>5, <2>6, TotalScales DEF Scales
  <2> QED
    BY <2>3, <2>4, <2>7
<1>13. (2 * R) * V <= (2 * R) * (100 * w + 50 * (LastStage + 1))
  <2> PICK a, b, c : a = W * U /\ b = R * w /\ c = R * LastStage
    OBVIOUS
  <2>1. a \in Int /\ b \in Int /\ c \in Int
    BY <1>2, <1>3, <1>6, <1>7
  <2>2. (2 * R) * V <= 2 * a + 100 * c
    <3>1. (2 * U) * W = 2 * a /\ (100 * R) * LastStage = 100 * c
      BY <1>2, <1>3, <1>6
    <3> QED
      BY <1>10, <1>11, <1>12, <3>1
  <2>3. Within(200 * b - 2 * a, 100 * R)
    <3>1. (2 * (100 * R)) * w = 200 * b
      BY <1>3, <1>7
    <3> QED
      BY <1>7, <3>1
  <2>4. (2 * R) * (100 * w + 50 * (LastStage + 1)) = 200 * b + 100 * c + 100 * R
    BY <1>2, <1>3, <1>7
  <2>5. (2 * R) * V \in Int
    BY <1>3, <1>11
  <2> QED
    BY <1>3, <2>1, <2>2, <2>3, <2>4, <2>5 DEF Within
<1>14. V <= 100 * w + 50 * (LastStage + 1)
  <2> PICK r, m : r = 2 * R /\ m = 100 * w + 50 * (LastStage + 1)
    OBVIOUS
  <2>1. r \in Nat \ {0} /\ m \in Int
    BY <1>2, <1>3, <1>7
  <2>2. \A a, b \in Int : r * a <= r * b => a <= b
    BY <2>1
  <2> QED
    BY <1>11, <1>13, <2>1, <2>2
<1>15. SumFunction(v) = V
  BY <1>2, SumFunctionIsTotal
<1>16. 100 * w >= V - 50 * (LastStage + 1)
  BY <1>2, <1>7, <1>11, <1>14
<1> QED
  BY <1>15, <1>16

\* In dollars nothing is converted: the weighted sum is the sum of the weighted
\* values, but for the half cent of each.
LEMMA WeightedInDollars ==
    ASSUME DeskInv, NEW scope,
           \A d \in OpenDeals(scope) : deals[d].terms.currency = "USD"
    PROVE  Near(Dashboard(scope, "USD").weighted,
                SumFunction([d \in OpenDeals(scope) |-> WeightedValue(d)]),
                Dashboard(scope, "USD").openCount + 1)
<1> PICK A : A = OpenDeals(scope)
  OBVIOUS
<1>1. A \in SUBSET Deals /\ There(A) /\ IsFiniteSet(A)
  BY DealSets
<1> PICK v, n : v = [d \in A |-> WeightedValue(d)] /\ n = Cardinality(A)
  OBVIOUS
<1>2. n \in Nat
  BY <1>1, FS_CardinalityType
<1>3. ASSUME NEW d \in A
      PROVE  /\ WeightOf[d] \in Nat
             /\ v[d] \in Nat /\ Within(200 * v[d] - 2 * WeightOf[d], 100)
  <2> PICK x, p : x = deals[d].terms.value /\ p = Probability[deals[d].stage]
    OBVIOUS
  <2>1. x \in Nat /\ p \in Nat /\ d \in Deals /\ deals[d].terms.currency = "USD"
    BY <1>1, DealFacts, ProbabilityType DEF There
  <2>2. UnitsPerUsd["USD"] = RateUnit /\ RateUnit \in Nat \ {0}
    BY DeskAssumption
  <2>3. UsdEquivalent(d) = x
    <3> PICK q, r : q = UsdEquivalent(d) /\ r = RateUnit
      OBVIOUS
    <3>1. q = HalfUp(x * r, r) /\ r \in Nat \ {0} /\ x * r \in Nat
      BY <2>1, <2>2 DEF UsdEquivalent
    <3>2. q \in Nat /\ Within((2 * r) * q - 2 * (x * r), r)
      BY <3>1, HalfUpRounds DEF Rounds
    <3>3. (2 * r) * q - 2 * (x * r) = r * (2 * (q - x)) /\ r = r * 1
      BY <2>1, <3>1, <3>2
    <3>4. Within(2 * (q - x), 1)
      <4>1. 2 * (q - x) \in Int /\ 1 \in Nat
        BY <2>1, <3>2
      <4> QED
        BY <3>1, <3>2, <3>3, <4>1, WithinCancels
    <3> QED
      BY <2>1, <3>2, <3>4 DEF Within
  <2>4. WeightOf[d] = x * p /\ x * p \in Nat
    BY <2>1, <2>3 DEF WeightOf
  <2>5. v[d] = HalfEven(x * p, 100)
    BY DEF WeightedValue
  <2> QED
    BY <2>4, <2>5, HalfEvenRounds DEF Rounds
<1> PICK W, V, w : /\ W = Total(WeightOf, A) /\ V = Total(v, A)
                   /\ w = Dashboard(scope, "USD").weighted
  OBVIOUS
<1>4. W \in Nat /\ V \in Int
  BY <1>1, <1>3, TotalNonNegative
<1>5. Within(200 * V - 2 * W, 100 * n)
  <2>1. \A d \in A : /\ v[d] \in Int /\ WeightOf[d] \in Int
                     /\ Within(200 * v[d] - 2 * WeightOf[d], 100)
    BY <1>3
  <2>k. PICK k, b : k = 200 /\ b = 100
    OBVIOUS
  <2>2. k \in Int /\ b \in Nat
    BY <2>k
  <2>3. \A d \in A : Within(k * v[d] - 2 * WeightOf[d], b)
    BY <2>1, <2>k
  <2>4. Within(k * V - 2 * W, b * Cardinality(A))
    BY <1>1, <2>1, <2>2, <2>3, TotalsDrift
  <2> QED
    BY <2>4, <2>k
<1>6. w \in Nat /\ Within(200 * w - 2 * W, 100)
  <2>1. w = HalfEven(W, 100)
    BY WeightedIs DEF InCurrency
  <2>2. 100 \in Nat \ {0}
    OBVIOUS
  <2>3. Rounds(w, W, 100)
    BY <1>4, <2>1, <2>2, HalfEvenRounds
  <2>4. w \in Nat /\ Within((2 * 100) * w - 2 * W, 100)
    BY <2>3 DEF Rounds
  <2>5. (2 * 100) * w = 200 * w
    BY <2>4
  <2> QED
    BY <2>4, <2>5
<1>7. Near(w, V, n + 1)
  BY <1>2, <1>4, <1>5, <1>6 DEF Near, Within
<1>8. SumFunction(v) = V
  BY <1>1, SumFunctionIsTotal
<1>9. Dashboard(scope, "USD").openCount = n
  BY DashStages
<1> QED
  BY <1>7, <1>8, <1>9

------------------------------------------------------------------------------
(* Months and quarters *)

\* A day is in month m or a later one when it is not before the start of m.
LEMMA MonthIff ==
    \A day \in Nat \ {0}, m \in Int :
        Month(day) \in Nat /\ StartOf(m) \in Int /\ (StartOf(m) <= day <=> m <= Month(day))
<1> TAKE day \in Nat \ {0}, m \in Int
<1> PICK L, q : L = MonthLength /\ q = Month(day)
  OBVIOUS
<1>1. L \in Nat \ {0} /\ day - 1 \in Nat
  BY DeskAssumption
<1>2. q \in Nat /\ L * q <= day - 1 /\ day - 1 < L * q + L
  BY <1>1, Division DEF Month
<1>3. StartOf(m) = L * m + 1
  BY <1>1 DEF StartOf
<1> PICK lm, lq : lm = L * m /\ lq = L * q
  OBVIOUS
<1>4. lm \in Int /\ lq \in Int
  BY <1>1, <1>2
<1>5. m <= q => lm <= lq
  BY <1>1, <1>2, Multiplied
<1>6. q + 1 <= m => lq + L <= lm
  <2>1. L * (q + 1) = lq + L
    BY <1>1, <1>2
  <2>2. q + 1 <= m => L * (q + 1) <= lm
    BY <1>1, <1>2, Multiplied
  <2> QED
    BY <2>1, <2>2
<1> QED
  BY <1>1, <1>2, <1>3, <1>4, <1>5, <1>6

\* The quarter of today, and its months so far.
LEMMA QuarterHasToday ==
    ASSUME DeskInv
    PROVE  /\ Month(today) \in Nat /\ QuarterStart(today) \in Nat
           /\ QuarterStart(today) <= Month(today)
           /\ Month(today) < QuarterStart(today) + QuarterMonths
<1> PICK M, Q, q : M = Month(today) /\ Q = QuarterMonths /\ q = M \div Q
  OBVIOUS
<1>1. M \in Nat /\ Q \in Nat \ {0}
  <2>1. today \in Nat \ {0}
    BY DeskAssumption DEF DeskInv
  <2>2. 0 \in Int
    OBVIOUS
  <2> QED
    BY <2>1, <2>2, MonthIff, DeskAssumption
<1>2. q \in Nat /\ Q * q <= M /\ M < Q * q + Q
  BY <1>1, Division
<1>3. QuarterStart(today) = Q * q /\ Q * q \in Nat
  BY <1>1, <1>2 DEF QuarterStart
<1> QED
  BY <1>1, <1>2, <1>3

QuarterDeals(scope) ==
    ClosedIn(StartOf(QuarterStart(today)),
             StartOf(QuarterStart(today) + QuarterMonths) - 1, scope)

WindowDeals(scope) ==
    ClosedIn(StartOf(Month(today) - RollingMonths + 1), StartOf(Month(today) + 1) - 1, scope)

QuarterSoFar == { m \in Months : m >= QuarterStart(today) }

MonthOf == [d \in Deals |-> Month(deals[d].closed)]

LEMMA QuarterSoFarIs ==
    ASSUME DeskInv
    PROVE  /\ QuarterSoFar = QuarterStart(today) .. Month(today)
           /\ IsFiniteSet(QuarterSoFar)
           /\ Cardinality(QuarterSoFar) <= QuarterMonths
<1> PICK M, S, Q, R : /\ M = Month(today) /\ S = QuarterStart(today)
                      /\ Q = QuarterMonths /\ R = RollingMonths
  OBVIOUS
<1>1. /\ M \in Nat /\ S \in Nat /\ S <= M /\ M < S + Q
      /\ Q \in Nat /\ R \in Nat /\ Q <= R
  BY QuarterHasToday, DeskAssumption
<1>2. QuarterSoFar = S .. M
  BY <1>1 DEF QuarterSoFar, Months
<1>3. IsFiniteSet(S .. M) /\ Cardinality(S .. M) = M - S + 1
  BY <1>1, FS_Interval
<1> QED
  BY <1>1, <1>2, <1>3

\* A closed deal is one of the quarter when its month is one of the quarter so
\* far, and then it is in the rolling window too.
LEMMA QuarterByMonth ==
    ASSUME DeskInv, NEW scope, NEW d
    PROVE  /\ d \in QuarterDeals(scope) => d \in Deals /\ MonthOf[d] \in QuarterSoFar
           /\ d \in WindowDeals(scope) /\ MonthOf[d] \in QuarterSoFar => d \in QuarterDeals(scope)
           /\ d \in QuarterDeals(scope) => d \in WindowDeals(scope)
<1> PICK C : C = WithStatus("won", scope) \cup WithStatus("lost", scope)
  OBVIOUS
<1>1. SUFFICES ASSUME d \in C
               PROVE  /\ d \in QuarterDeals(scope) => MonthOf[d] \in QuarterSoFar
                      /\ MonthOf[d] \in QuarterSoFar => d \in QuarterDeals(scope)
                      /\ d \in QuarterDeals(scope) => d \in WindowDeals(scope)
  <2>1. C \in SUBSET Deals
    BY DealSets
  <2> QED
    BY <2>1 DEF QuarterDeals, WindowDeals, ClosedIn
<1>2. d \in Deals /\ deals[d] # Absent /\ deals[d].status \in Closed
  <2>1. WithStatus("won", scope) \in SUBSET Deals /\ WithStatus("lost", scope) \in SUBSET Deals
    BY DealSets
  <2>2. deals[d].status = "won" \/ deals[d].status = "lost"
    BY <1>1, DealSets
  <2>3. deals[d] # Absent
    BY <1>1, DealSets DEF There
  <2> QED
    BY <1>1, <2>1, <2>2, <2>3 DEF Closed
<1> PICK c, m : c = deals[d].closed /\ m = MonthOf[d]
  OBVIOUS
<1>3. today \in Nat \ {0} /\ c \in Nat \ {0} /\ c <= today
  BY <1>2, DealFacts, DeskAssumption DEF DeskInv
<1> PICK M, S, Q, R : /\ M = Month(today) /\ S = QuarterStart(today)
                      /\ Q = QuarterMonths /\ R = RollingMonths
  OBVIOUS
<1>4. /\ M \in Nat /\ S \in Nat /\ S <= M /\ M < S + Q
      /\ Q \in Nat /\ R \in Nat /\ Q <= R
  BY QuarterHasToday, DeskAssumption
<1>5. m = Month(c)
  BY <1>2 DEF MonthOf
<1>6. /\ m \in Nat /\ m <= M
      /\ \A k \in Int : StartOf(k) \in Int /\ (StartOf(k) <= c <=> k <= m)
  <2>1. m \in Nat /\ \A k \in Int : StartOf(k) \in Int /\ (StartOf(k) <= c <=> k <= m)
    BY <1>3, <1>5, MonthIff
  <2>2. m \in Int
    BY <2>1
  <2>3. StartOf(m) \in Int /\ StartOf(m) <= c
    BY <2>1, <2>2
  <2>4. StartOf(m) <= today => m <= M
    BY <1>3, <2>2, MonthIff
  <2> QED
    BY <1>3, <2>1, <2>3, <2>4
<1>7. d \in QuarterDeals(scope) <=> S <= m /\ m < S + Q
  <2>1. d \in QuarterDeals(scope) <=> c \in StartOf(S) .. StartOf(S + Q) - 1
    BY <1>1 DEF QuarterDeals, ClosedIn
  <2>2. S \in Int /\ S + Q \in Int
    BY <1>4
  <2>3. StartOf(S) \in Int /\ StartOf(S + Q) \in Int
    BY <1>6, <2>2
  <2>4. (StartOf(S) <= c <=> S <= m) /\ (StartOf(S + Q) <= c <=> S + Q <= m)
    BY <1>6, <2>2
  <2> QED
    BY <1>3, <1>4, <1>6, <2>1, <2>3, <2>4
<1>8. d \in WindowDeals(scope) <=> M - R + 1 <= m /\ m < M + 1
  <2>1. d \in WindowDeals(scope) <=> c \in StartOf(M - R + 1) .. StartOf(M + 1) - 1
    BY <1>1 DEF WindowDeals, ClosedIn
  <2>2. M - R + 1 \in Int /\ M + 1 \in Int
    BY <1>4
  <2>3. StartOf(M - R + 1) \in Int /\ StartOf(M + 1) \in Int
    BY <1>6, <2>2
  <2>4. (StartOf(M - R + 1) <= c <=> M - R + 1 <= m) /\ (StartOf(M + 1) <= c <=> M + 1 <= m)
    BY <1>6, <2>2
  <2> QED
    BY <1>3, <1>4, <1>6, <2>1, <2>3, <2>4
<1>9. m \in QuarterSoFar <=> S <= m /\ m <= M
  <2>1. QuarterSoFar = S .. M
    BY QuarterSoFarIs
  <2>2. m \in Int /\ S \in Int /\ M \in Int
    BY <1>4, <1>6
  <2> QED
    BY <2>1, <2>2
<1> QED
  BY <1>4, <1>6, <1>7, <1>8, <1>9

ClosedMonth(scope, m) == { d \in WindowDeals(scope) : Month(deals[d].closed) = m }

LEMMA DashQuarter ==
    ASSUME NEW scope, NEW currency
    PROVE  /\ Dashboard(scope, currency).won = Shown(WonIn(QuarterDeals(scope)), currency)
           /\ Dashboard(scope, currency).lost
                = Shown(QuarterDeals(scope) \ WonIn(QuarterDeals(scope)), currency)
BY DEF Dashboard, QuarterDeals, Shown

\* The deals of the quarter exist.
LEMMA QuarterThere ==
    ASSUME NEW scope
    PROVE  QuarterDeals(scope) \in SUBSET Deals /\ There(QuarterDeals(scope))
<1> PICK C : C = WithStatus("won", scope) \cup WithStatus("lost", scope)
  OBVIOUS
<1>1. C \in SUBSET Deals /\ There(C)
  BY DealSets DEF There
<1>2. QuarterDeals(scope) \in SUBSET C
  BY DEF QuarterDeals, ClosedIn
<1> QED
  BY <1>1, <1>2 DEF There

\* The bookings of the months of the quarter add up to what was won in it, and
\* to what was lost.
LEMMA BookingsAddUp ==
    ASSUME DeskInv, NEW scope, NEW currency \in Currencies
    PROVE  /\ Near(Dashboard(scope, currency).won,
                   SumFunction([m \in QuarterSoFar |->
                                   Dashboard(scope, currency).bookings[m].won]),
                   QuarterMonths + 1)
           /\ Near(Dashboard(scope, currency).lost,
                   SumFunction([m \in QuarterSoFar |->
                                   Dashboard(scope, currency).bookings[m].lost]),
                   QuarterMonths + 1)
<1> PICK Q, A, B, n : /\ Q = QuarterDeals(scope) /\ A = WonIn(Q) /\ B = Q \ A
                      /\ n = QuarterMonths
  OBVIOUS
<1>1. A \in SUBSET Deals /\ There(A) /\ B \in SUBSET Deals /\ There(B)
  BY QuarterThere DEF WonIn, There
<1>2. \A d \in Q : MonthOf[d] \in QuarterSoFar
  BY QuarterByMonth
<1>3. IsFiniteSet(QuarterSoFar) /\ Cardinality(QuarterSoFar) <= n /\ n \in Nat
  BY QuarterSoFarIs, DeskAssumption
<1>4. A \in SUBSET Q /\ B \in SUBSET Q
  BY DEF WonIn
<1>5. /\ ShownNear(A, MonthOf, QuarterSoFar, currency, n)
      /\ ShownNear(B, MonthOf, QuarterSoFar, currency, n)
  BY <1>1, <1>2, <1>3, <1>4, ShownByClass
<1>6. ASSUME NEW m \in QuarterSoFar
      PROVE  /\ WonIn(ClosedMonth(scope, m)) = Class(A, MonthOf, m)
             /\ ClosedMonth(scope, m) \ WonIn(ClosedMonth(scope, m)) = Class(B, MonthOf, m)
  <2>1. WindowDeals(scope) \in SUBSET Deals
    BY DealSets DEF WindowDeals, ClosedIn
  <2>2. ClosedMonth(scope, m) = { d \in WindowDeals(scope) : MonthOf[d] = m }
    BY <2>1 DEF ClosedMonth, MonthOf
  <2>3. \A d : d \in WindowDeals(scope) /\ MonthOf[d] = m <=> d \in Q /\ MonthOf[d] = m
    BY QuarterByMonth
  <2>4. ClosedMonth(scope, m) = { d \in Q : MonthOf[d] = m }
    BY <2>2, <2>3
  <2> QED
    BY <2>4 DEF WonIn, Class
<1>7. QuarterSoFar \in SUBSET Months
  BY DEF QuarterSoFar
<1> PICK books : books = Dashboard(scope, currency).bookings
  OBVIOUS
<1>10. ASSUME NEW m \in QuarterSoFar
       PROVE  /\ books[m].won = Shown(Class(A, MonthOf, m), currency)
              /\ books[m].lost = Shown(Class(B, MonthOf, m), currency)
  <2>1. m \in Months
    BY <1>7
  <2>2. books[m].won = Shown(WonIn(ClosedMonth(scope, m)), currency)
    BY <2>1 DEF Dashboard, WindowDeals, ClosedMonth, Shown
  <2>3. books[m].lost = Shown(ClosedMonth(scope, m) \ WonIn(ClosedMonth(scope, m)), currency)
    BY <2>1 DEF Dashboard, WindowDeals, ClosedMonth, Shown
  <2> QED
    BY <1>6, <2>2, <2>3
<1>8. /\ [m \in QuarterSoFar |-> Dashboard(scope, currency).bookings[m].won]
           = [m \in QuarterSoFar |-> Shown(Class(A, MonthOf, m), currency)]
      /\ [m \in QuarterSoFar |-> Dashboard(scope, currency).bookings[m].lost]
           = [m \in QuarterSoFar |-> Shown(Class(B, MonthOf, m), currency)]
  BY <1>10
<1>9. /\ Dashboard(scope, currency).won = Shown(A, currency)
      /\ Dashboard(scope, currency).lost = Shown(B, currency)
  BY DashQuarter
<1> QED
  BY <1>5, <1>8, <1>9 DEF ShownNear

OwnerOf == [d \in Deals |-> deals[d].terms.owner]

LEMMA OwnersFinite ==
    ASSUME NEW scope
    PROVE  /\ IsFiniteSet(DealOwners(scope)) /\ Cardinality(Owners) \in Nat
           /\ Cardinality(DealOwners(scope)) <= Cardinality(Owners)
<1>1. DealOwners(scope) \in SUBSET Owners
  BY DEF DealOwners
<1> QED
  BY <1>1, DeskAssumption, FS_Subset, FS_CardinalityType

\* Whoever owns a deal of the scope is one of its owners.
LEMMA OwnersOwn ==
    ASSUME DeskInv, NEW scope, NEW d \in Deals, In(d, scope)
    PROVE  OwnerOf[d] \in DealOwners(scope)
<1>1. deals[d] # Absent /\ deals[d].terms.owner \in Owners
  BY DealFacts DEF In
<1>2. In(d, deals[d].terms.owner)
  BY <1>1 DEF In
<1> QED
  BY <1>1, <1>2 DEF DealOwners, OwnerOf

\* What the representatives won in the quarter adds up.
LEMMA QuotasAddUp ==
    ASSUME DeskInv, NEW scope, NEW currency \in Currencies
    PROVE  Near(Dashboard(scope, currency).won, SumFunction(Dashboard(scope, currency).quota),
                Cardinality(Owners) + 1)
<1> PICK A, I, n : /\ A = WonIn(QuarterDeals(scope)) /\ I = DealOwners(scope)
                   /\ n = Cardinality(Owners)
  OBVIOUS
<1>1. A \in SUBSET Deals /\ There(A)
  BY QuarterThere DEF WonIn, There
<1>2. \A d \in A : OwnerOf[d] \in I
  <2>1. \A d \in A : d \in Deals /\ In(d, scope)
    BY DEF WonIn, QuarterDeals, ClosedIn, WithStatus
  <2> QED
    BY <2>1, OwnersOwn
<1>3. IsFiniteSet(I) /\ Cardinality(I) <= n /\ n \in Nat
  BY OwnersFinite
<1>4. ShownNear(A, OwnerOf, I, currency, n)
  BY <1>1, <1>2, <1>3, ShownByClass
<1>5. \A o \in I : { d \in A : deals[d].terms.owner = o } = Class(A, OwnerOf, o)
  BY <1>1 DEF Class, OwnerOf
<1>6. Dashboard(scope, currency).quota = [o \in I |-> Shown(Class(A, OwnerOf, o), currency)]
  <2>1. Dashboard(scope, currency).quota
          = [o \in I |-> Shown({ d \in A : deals[d].terms.owner = o }, currency)]
    BY DEF Dashboard, QuarterDeals, Shown
  <2>2. \A o \in I : Shown({ d \in A : deals[d].terms.owner = o }, currency)
                       = Shown(Class(A, OwnerOf, o), currency)
    BY <1>5
  <2> QED
    BY <2>1, <2>2
<1>7. Dashboard(scope, currency).won = Shown(A, currency)
  BY DashQuarter
<1> QED
  BY <1>4, <1>6, <1>7 DEF ShownNear

Cold(A) == Cardinality({ d \in A : IdleDays(d) > StaleAfter })

Hers(o) == { d \in OpenDeals(Everyone) : deals[d].terms.owner = o }

LEMMA PageTeam ==
    ASSUME NEW scope, NEW currency
    PROVE  /\ PipelineOverview(scope, currency).team.count = Cardinality(OpenDeals(Everyone))
           /\ PipelineOverview(scope, currency).team.value
                = Shown(OpenDeals(Everyone), currency)
           /\ PipelineOverview(scope, currency).team.cold = Cold(OpenDeals(Everyone))
           /\ DOMAIN PipelineOverview(scope, currency).reps = DealOwners(Everyone)
           /\ \A o \in DealOwners(Everyone) :
                 /\ PipelineOverview(scope, currency).reps[o].count = Cardinality(Hers(o))
                 /\ PipelineOverview(scope, currency).reps[o].value = Shown(Hers(o), currency)
                 /\ PipelineOverview(scope, currency).reps[o].cold = Cold(Hers(o))
<1>1. /\ PipelineOverview(scope, currency).team.count = Cardinality(OpenDeals(Everyone))
      /\ PipelineOverview(scope, currency).team.value = Shown(OpenDeals(Everyone), currency)
      /\ PipelineOverview(scope, currency).team.cold = Cold(OpenDeals(Everyone))
  BY DEF PipelineOverview, Shown, Cold
<1>2. DOMAIN PipelineOverview(scope, currency).reps = DealOwners(Everyone)
  BY DEF PipelineOverview
<1>3. ASSUME NEW o \in DealOwners(Everyone)
      PROVE  /\ PipelineOverview(scope, currency).reps[o].count = Cardinality(Hers(o))
             /\ PipelineOverview(scope, currency).reps[o].value = Shown(Hers(o), currency)
             /\ PipelineOverview(scope, currency).reps[o].cold = Cold(Hers(o))
  BY DEF PipelineOverview, Shown, Cold, Hers
<1> QED
  BY <1>1, <1>2, <1>3

\* The cards of the representatives add up to the team's.
LEMMA RepsAddUp ==
    ASSUME DeskInv, NEW scope, NEW currency \in Currencies
    PROVE  LET page == PipelineOverview(scope, currency) IN
           /\ Near(page.team.value, SumFunction([o \in DOMAIN page.reps |-> page.reps[o].value]),
                   Cardinality(Owners) + 1)
           /\ SumFunction([o \in DOMAIN page.reps |-> page.reps[o].count]) = page.team.count
           /\ SumFunction([o \in DOMAIN page.reps |-> page.reps[o].cold]) = page.team.cold
<1> PICK A, C, I, n : /\ A = OpenDeals(Everyone) /\ I = DealOwners(Everyone)
                      /\ C = { d \in A : IdleDays(d) > StaleAfter }
                      /\ n = Cardinality(Owners)
  OBVIOUS
<1> PICK page : page = PipelineOverview(scope, currency)
  OBVIOUS
<1>1. A \in SUBSET Deals /\ There(A) /\ IsFiniteSet(A)
  BY DealSets
<1>2. \A d \in A : OwnerOf[d] \in I
  <2>1. \A d \in A : d \in Deals /\ In(d, Everyone)
    BY DEF OpenDeals, WithStatus
  <2> QED
    BY <2>1, OwnersOwn
<1>3. IsFiniteSet(I) /\ Cardinality(I) <= n /\ n \in Nat
  BY OwnersFinite
<1>4. ShownNear(A, OwnerOf, I, currency, n)
  BY <1>1, <1>2, <1>3, ShownByClass
<1>5. CountedNear(A, OwnerOf, I)
  BY <1>1, <1>2, <1>3, DealsByClass
<1>6. CountedNear(C, OwnerOf, I)
  <2>1. IsFiniteSet(C) /\ \A d \in C : OwnerOf[d] \in I
    BY <1>1, <1>2, FS_Subset
  <2> QED
    BY <2>1, <1>3, DealsByClass
<1>7. \A o \in I : /\ Hers(o) = Class(A, OwnerOf, o)
                   /\ { d \in Hers(o) : IdleDays(d) > StaleAfter } = Class(C, OwnerOf, o)
  BY <1>1 DEF Class, OwnerOf, Hers
<1>8. /\ DOMAIN page.reps = I
      /\ \A o \in I : /\ page.reps[o].count = Cardinality(Class(A, OwnerOf, o))
                      /\ page.reps[o].value = Shown(Class(A, OwnerOf, o), currency)
                      /\ page.reps[o].cold = Cardinality(Class(C, OwnerOf, o))
  <2>1. DOMAIN page.reps = I
    BY PageTeam
  <2>2. ASSUME NEW o \in I
        PROVE  /\ page.reps[o].count = Cardinality(Class(A, OwnerOf, o))
               /\ page.reps[o].value = Shown(Class(A, OwnerOf, o), currency)
               /\ page.reps[o].cold = Cardinality(Class(C, OwnerOf, o))
    <3>1. page.reps[o].count = Cardinality(Hers(o))
      BY PageTeam
    <3>2. page.reps[o].value = Shown(Hers(o), currency)
      BY PageTeam
    <3>3. page.reps[o].cold = Cold(Hers(o))
      BY PageTeam
    <3>4. Cold(Hers(o)) = Cardinality(Class(C, OwnerOf, o))
      BY <1>7 DEF Cold
    <3> QED
      BY <1>7, <3>1, <3>2, <3>3, <3>4
  <2> QED
    BY <2>1, <2>2
<1>9. /\ [o \in DOMAIN page.reps |-> page.reps[o].count]
           = [o \in I |-> Cardinality(Class(A, OwnerOf, o))]
      /\ [o \in DOMAIN page.reps |-> page.reps[o].value]
           = [o \in I |-> Shown(Class(A, OwnerOf, o), currency)]
      /\ [o \in DOMAIN page.reps |-> page.reps[o].cold]
           = [o \in I |-> Cardinality(Class(C, OwnerOf, o))]
  BY <1>8
<1>10. /\ page.team.count = Cardinality(A) /\ page.team.value = Shown(A, currency)
       /\ page.team.cold = Cardinality(C)
  BY PageTeam DEF Cold
<1>11. /\ Near(page.team.value, SumFunction([o \in DOMAIN page.reps |-> page.reps[o].value]),
               n + 1)
       /\ SumFunction([o \in DOMAIN page.reps |-> page.reps[o].count]) = page.team.count
       /\ SumFunction([o \in DOMAIN page.reps |-> page.reps[o].cold]) = page.team.cold
  BY <1>4, <1>5, <1>6, <1>9, <1>10 DEF ShownNear, CountedNear
<1> QED
  BY <1>11

\* The lost reasons of the two pages are the same counts.
LEMMA ReasonsAgree ==
    ASSUME NEW scope, NEW currency
    PROVE  /\ Dashboard(scope, currency).reasons = LostReasonCounts(scope)
           /\ PipelineOverview(scope, currency).closed.reasons = LostReasonCounts(scope)
BY DEF Dashboard, PipelineOverview

LEMMA DashboardIsRight ==
    ASSUME DeskInv, NEW scope, NEW currency \in Currencies
    PROVE  DashboardAgrees(scope, currency)
<1> PICK desk, page : /\ desk = Dashboard(scope, currency)
                      /\ page = PipelineOverview(scope, currency)
  OBVIOUS
<1>1. /\ desk.openCount = SumFunction([s \in Stages |-> desk.stages[s].count])
      /\ Near(desk.arr, SumFunction([s \in Stages |-> desk.stages[s].value]), LastStage + 1)
  BY StagesAddUp
<1>2. desk.arr = page.total /\ desk.reasons = page.closed.reasons
  BY DashStages, PageStages, ReasonsAgree
<1>3. \A s \in Stages : /\ desk.stages[s].value = page.stages[s].value
                        /\ desk.stages[s].count = page.stages[s].count
  BY DashStages, PageStages
<1>4. 100 * desk.weighted
        >= SumFunction([s \in Stages |-> desk.stages[s].value * Probability[s]])
             - 50 * (LastStage + 1)
  BY WeightedAtLeast
<1>5. currency = "USD" /\ (\A d \in OpenDeals(scope) : deals[d].terms.currency = "USD") =>
         Near(desk.weighted, SumFunction([d \in OpenDeals(scope) |-> WeightedValue(d)]),
              desk.openCount + 1)
  BY WeightedInDollars
<1>6. /\ Near(desk.won, SumFunction([m \in QuarterSoFar |-> desk.bookings[m].won]),
              QuarterMonths + 1)
      /\ Near(desk.lost, SumFunction([m \in QuarterSoFar |-> desk.bookings[m].lost]),
              QuarterMonths + 1)
  BY BookingsAddUp
<1>7. Near(desk.won, SumFunction(desk.quota), Cardinality(Owners) + 1)
  BY QuotasAddUp
<1>8. Near(page.team.value, SumFunction([o \in DOMAIN page.reps |-> page.reps[o].value]),
           Cardinality(Owners) + 1)
  BY RepsAddUp
<1> QED
  BY <1>1, <1>2, <1>3, <1>4, <1>5, <1>6, <1>7, <1>8 DEF DashboardAgrees, QuarterSoFar

------------------------------------------------------------------------------
(* The counts of the page, the tabs, the chips and the list *)

Matching(f) == { d \in Deals : Matches(d, f) }

LEMMA ListedLen ==
    ASSUME NEW f
    PROVE  Len(Pipeline(f)) = Cardinality(Matching(f))
<1> PICK key : key = [d \in Matching(f) |->
                         <<StatusRank(d), deals[d].stage, -deals[d].terms.value,
                           -deals[d].first, Instant(d, Deals)>>]
  OBVIOUS
<1>1. DOMAIN key = Matching(f) /\ IsFiniteSet(Matching(f))
  BY DeskAssumption, FS_Subset DEF Matching
<1>2. Pipeline(f) = InOrder(key)
  BY DEF Pipeline, Matching
<1> QED
  BY <1>1, <1>2, InOrderLen

\* How many deals a filter lets through.
Listing(scope, tab, bucket) == Cardinality(Matching(ListFilter(scope, tab, bucket)))

LEMMA ListedIs ==
    ASSUME NEW scope, NEW tab, NEW bucket
    PROVE  Len(Pipeline(ListFilter(scope, tab, bucket))) = Listing(scope, tab, bucket)
BY ListedLen DEF Listing

InBucket(scope, bucket) ==
    { d \in OpenDeals(scope) : IF bucket = "open_45" THEN AgeDays(d) > OldAfter
                               ELSE Hygiene(d) = bucket }

LEMMA HygieneIs ==
    ASSUME NEW scope, NEW currency
    PROVE  /\ DOMAIN PipelineOverview(scope, currency).hygiene = Buckets
           /\ \A bucket \in Buckets : PipelineOverview(scope, currency).hygiene[bucket]
                                        = Cardinality(InBucket(scope, bucket))
BY DEF PipelineOverview, InBucket

\* Counted in days or compared as dates, an open deal is in the same bucket.
LEMMA SameBucket ==
    ASSUME DeskInv, NEW d \in Deals, deals[d] # Absent, NEW bucket \in Buckets,
           deals[d].status = "open"
    PROVE  HasHygiene(d, bucket)
             <=> IF bucket = "open_45" THEN AgeDays(d) > OldAfter ELSE Hygiene(d) = bucket
<1> PICK last, first, t, w, s, o :
      /\ last = deals[d].last /\ first = deals[d].first /\ t = today
      /\ w = Week /\ s = StaleAfter /\ o = OldAfter
  OBVIOUS
<1>1. /\ last \in Nat /\ first \in Nat /\ t \in Nat
      /\ w \in Nat /\ s \in Nat /\ o \in Nat /\ w <= s
  BY DealFacts, DeskAssumption DEF DeskInv
<1>2. Hygiene(d) = CASE t - last <= w -> "active_week"
                     [] t - last \in w + 1 .. s -> "quiet_8_30"
                     [] OTHER -> "no_activity_30"
  BY DEF Hygiene, IdleDays
<1>3. CASE bucket = "active_week"
  <2>1. HasHygiene(d, bucket) <=> last >= t - w
    BY <1>3 DEF HasHygiene
  <2>2. Hygiene(d) = bucket <=> t - last <= w
    BY <1>1, <1>2, <1>3
  <2> QED
    BY <1>1, <1>3, <2>1, <2>2
<1>4. CASE bucket = "quiet_8_30"
  <2>1. HasHygiene(d, bucket) <=> last < t - w /\ last >= t - s
    BY <1>4 DEF HasHygiene
  <2>2. Hygiene(d) = bucket <=> t - last \in w + 1 .. s
    BY <1>1, <1>2, <1>4
  <2> QED
    BY <1>1, <1>4, <2>1, <2>2
<1>5. CASE bucket = "no_activity_30"
  <2>1. HasHygiene(d, bucket) <=> last < t - s
    BY <1>5 DEF HasHygiene
  <2>2. Hygiene(d) = bucket <=> ~ (t - last <= w) /\ ~ (t - last \in w + 1 .. s)
    BY <1>1, <1>2, <1>5
  <2> QED
    BY <1>1, <1>5, <2>1, <2>2
<1>6. CASE bucket = "open_45"
  <2>1. HasHygiene(d, bucket) <=> first < t - o
    BY <1>6 DEF HasHygiene
  <2>2. AgeDays(d) > OldAfter <=> t - first > o
    BY DEF AgeDays
  <2> QED
    BY <1>1, <1>6, <2>1, <2>2
<1> QED
  BY <1>3, <1>4, <1>5, <1>6 DEF Buckets

LEMMA BucketsListed ==
    ASSUME DeskInv, NEW scope, NEW bucket \in Buckets
    PROVE  InBucket(scope, bucket) = Matching(ListFilter(scope, "all", bucket))
<1> PICK f : f = ListFilter(scope, "all", bucket)
  OBVIOUS
<1>1. f.scope = scope /\ f.tab = "all" /\ f.showClosed /\ f.hygiene = bucket /\ bucket # "none"
  BY DEF ListFilter, Buckets
<1>2. \A d : d \in Matching(f) <=> d \in Deals /\ In(d, scope) /\ HasHygiene(d, bucket)
  BY <1>1 DEF Matching, Matches
<1>3. \A d : HasHygiene(d, bucket) => deals[d].status = "open"
  BY DEF HasHygiene
<1>4. \A d : d \in Matching(f) <=> d \in OpenDeals(scope) /\ HasHygiene(d, bucket)
  BY <1>2, <1>3 DEF OpenDeals, WithStatus
<1>5. \A d \in OpenDeals(scope) : d \in Deals /\ deals[d] # Absent /\ deals[d].status = "open"
  BY DEF OpenDeals, WithStatus, In
<1>6. \A d \in OpenDeals(scope) : d \in InBucket(scope, bucket) <=> HasHygiene(d, bucket)
  BY <1>5, SameBucket DEF InBucket
<1>7. \A d : d \in InBucket(scope, bucket) <=> d \in Matching(f)
  BY <1>4, <1>6 DEF InBucket
<1> QED
  BY <1>7 DEF InBucket, Matching

\* The list with no filter of hygiene.
LEMMA TabsListed ==
    ASSUME DeskInv, NEW scope
    PROVE  /\ Matching(ListFilter(scope, "all", "none")) = { d \in Deals : In(d, scope) }
           /\ \A tab \in {"open", "won", "lost"} :
                 Matching(ListFilter(scope, tab, "none")) = WithStatus(tab, scope)
BY DEF Matching, Matches, ListFilter, WithStatus

\* Two parts of a finite set.
LEMMA TwoParts ==
    ASSUME NEW S, IsFiniteSet(S), NEW A \in SUBSET S
    PROVE  /\ Cardinality(S) = Cardinality(A) + Cardinality(S \ A)
           /\ Cardinality(A) \in Nat /\ Cardinality(S \ A) \in Nat /\ IsFiniteSet(S \ A)
<1>1. IsFiniteSet(A) /\ IsFiniteSet(S \ A) /\ S = A \cup (S \ A) /\ A \cap (S \ A) = {}
  BY FS_Subset
<1>2. Cardinality(A) \in Nat /\ Cardinality(S \ A) \in Nat /\ Cardinality({}) = 0
  BY <1>1, FS_CardinalityType, FS_EmptySet
<1>3. Cardinality(A \cup (S \ A))
        = Cardinality(A) + Cardinality(S \ A) - Cardinality(A \cap (S \ A))
  BY <1>1, FS_Union
<1> PICK B : B = S \ A
  OBVIOUS
<1>4. A \cap B = {} /\ A \cup B = S
  BY <1>1
<1>5. Cardinality(A \cup B) = Cardinality(A) + Cardinality(B) - Cardinality(A \cap B)
  BY <1>3
<1>6. Cardinality(S) = Cardinality(A) + Cardinality(B) - 0
  BY <1>2, <1>4, <1>5
<1> QED
  BY <1>1, <1>2, <1>6

\* The deals of the scope are open, won, lost or parked.
LEMMA FourStatuses ==
    ASSUME DeskInv, NEW scope
    PROVE  Cardinality({ d \in Deals : In(d, scope) })
             = Cardinality(WithStatus("open", scope)) + Cardinality(WithStatus("won", scope))
                 + Cardinality(WithStatus("lost", scope))
                 + Cardinality(WithStatus("parked", scope))
<1> PICK S, A, B, C, D :
      /\ S = { d \in Deals : In(d, scope) }
      /\ A = WithStatus("open", scope) /\ B = WithStatus("won", scope)
      /\ C = WithStatus("lost", scope) /\ D = WithStatus("parked", scope)
  OBVIOUS
<1>1. IsFiniteSet(S)
  BY DeskAssumption, FS_Subset
<1>2. \A d \in S : deals[d].status \in {"open", "parked", "won", "lost"}
  BY DealFacts DEF In
<1>3. /\ \A d : d \in A <=> d \in S /\ deals[d].status = "open"
      /\ \A d : d \in B <=> d \in S /\ deals[d].status = "won"
      /\ \A d : d \in C <=> d \in S /\ deals[d].status = "lost"
      /\ \A d : d \in D <=> d \in S /\ deals[d].status = "parked"
  BY DEF WithStatus
<1>4. A \in SUBSET S /\ B \in SUBSET (S \ A) /\ C \in SUBSET ((S \ A) \ B)
  BY <1>3
<1>5. D = ((S \ A) \ B) \ C
  BY <1>2, <1>3
<1>6. /\ Cardinality(S) = Cardinality(A) + Cardinality(S \ A) /\ IsFiniteSet(S \ A)
      /\ Cardinality(A) \in Nat
  BY <1>1, <1>4, TwoParts
<1>7. /\ Cardinality(S \ A) = Cardinality(B) + Cardinality((S \ A) \ B)
      /\ IsFiniteSet((S \ A) \ B) /\ Cardinality(B) \in Nat
  BY <1>4, <1>6, TwoParts
<1>8. /\ Cardinality((S \ A) \ B) = Cardinality(C) + Cardinality(D)
      /\ Cardinality(C) \in Nat /\ Cardinality(D) \in Nat
  BY <1>4, <1>5, <1>7, TwoParts
<1> QED
  BY <1>6, <1>7, <1>8

\* An open deal is in one of the three buckets of idle days.
LEMMA ThreeBuckets ==
    ASSUME DeskInv, NEW scope
    PROVE  Cardinality(OpenDeals(scope))
             = Cardinality(InBucket(scope, "active_week"))
                 + Cardinality(InBucket(scope, "quiet_8_30"))
                 + Cardinality(InBucket(scope, "no_activity_30"))
<1> PICK S, A, B, C :
      /\ S = OpenDeals(scope) /\ A = InBucket(scope, "active_week")
      /\ B = InBucket(scope, "quiet_8_30") /\ C = InBucket(scope, "no_activity_30")
  OBVIOUS
<1>1. IsFiniteSet(S)
  BY DealSets
<1>2. \A d \in S : Hygiene(d) \in {"active_week", "quiet_8_30", "no_activity_30"}
  BY DEF Hygiene
<1>3. /\ \A d : d \in A <=> d \in S /\ Hygiene(d) = "active_week"
      /\ \A d : d \in B <=> d \in S /\ Hygiene(d) = "quiet_8_30"
      /\ \A d : d \in C <=> d \in S /\ Hygiene(d) = "no_activity_30"
  BY DEF InBucket
<1>4. A \in SUBSET S /\ B \in SUBSET (S \ A)
  BY <1>3
<1>5. C = (S \ A) \ B
  BY <1>2, <1>3
<1>6. /\ Cardinality(S) = Cardinality(A) + Cardinality(S \ A) /\ IsFiniteSet(S \ A)
      /\ Cardinality(A) \in Nat
  BY <1>1, <1>4, TwoParts
<1>7. /\ Cardinality(S \ A) = Cardinality(B) + Cardinality(C)
      /\ Cardinality(B) \in Nat /\ Cardinality(C) \in Nat
  BY <1>4, <1>5, <1>6, TwoParts
<1> QED
  BY <1>6, <1>7

\* The deals nothing was done about for long: counted, ringing and in their bucket.
LEMMA StaleDeals ==
    ASSUME DeskInv, NEW scope
    PROVE  /\ Cold(OpenDeals(scope)) = StaleOpenDealsCount(scope)
           /\ Cardinality(InBucket(scope, "no_activity_30")) = StaleOpenDealsCount(scope)
<1>1. ASSUME NEW d \in OpenDeals(scope)
      PROVE  /\ IdleDays(d) > StaleAfter <=> deals[d].last < today - StaleAfter
             /\ Hygiene(d) = "no_activity_30" <=> deals[d].last < today - StaleAfter
  <2>1. d \in Deals /\ deals[d] # Absent /\ deals[d].status = "open"
    BY DEF OpenDeals, WithStatus, In
  <2>2. deals[d].last \in Nat /\ today \in Nat /\ StaleAfter \in Nat
    BY <2>1, DealFacts, DeskAssumption DEF DeskInv
  <2>3. HasHygiene(d, "no_activity_30") <=> Hygiene(d) = "no_activity_30"
    <3>1. "no_activity_30" \in Buckets
      BY DEF Buckets
    <3> QED
      BY <2>1, <3>1, SameBucket
  <2>4. HasHygiene(d, "no_activity_30") <=> deals[d].last < today - StaleAfter
    BY <2>1 DEF HasHygiene
  <2> QED
    BY <2>2, <2>3, <2>4 DEF IdleDays
<1>2. /\ { d \in OpenDeals(scope) : IdleDays(d) > StaleAfter }
           = { d \in OpenDeals(scope) : deals[d].last < today - StaleAfter }
      /\ InBucket(scope, "no_activity_30")
           = { d \in OpenDeals(scope) : deals[d].last < today - StaleAfter }
  BY <1>1 DEF InBucket
<1> QED
  BY <1>2 DEF Cold, StaleOpenDealsCount

ClosedOf(o, scope) == ClosedIn(1, LastDay, o) \cap ClosedIn(1, LastDay, scope)

Closers(scope) == { o \in Owners : ClosedOf(o, scope) # {} }

LEMMA ClosedCountsIs ==
    ASSUME NEW scope
    PROVE  /\ DOMAIN ClosedCounts(scope) = Closers(scope)
           /\ \A o \in Closers(scope) :
                 /\ ClosedCounts(scope)[o].won = Cardinality(WonIn(ClosedOf(o, scope)))
                 /\ ClosedCounts(scope)[o].lost
                      = Cardinality(ClosedOf(o, scope) \ WonIn(ClosedOf(o, scope)))
BY DEF ClosedCounts, ClosedOf, Closers

\* A closed deal was closed by one of those who closed any.
LEMMA ClosedByOwner ==
    ASSUME DeskInv, NEW scope, NEW d, NEW o \in Owners, NEW status \in Closed
    PROVE  d \in ClosedOf(o, scope) /\ deals[d].status = status
             <=> d \in WithStatus(status, scope) /\ OwnerOf[d] = o
<1>1. LastDay \in Nat /\ today \in 1 .. LastDay /\ o # Everyone
  BY DeskAssumption DEF DeskInv
<1>2. CASE d \in Deals /\ deals[d] # Absent /\ deals[d].status = status
  <2>1. deals[d].closed \in 1 .. today
    BY <1>2, DealFacts
  <2>2. deals[d].closed \in 1 .. LastDay
    BY <1>1, <2>1
  <2>3. \A u : d \in ClosedIn(1, LastDay, u) <=> d \in WithStatus(status, u)
    BY <1>2, <2>2 DEF ClosedIn, WithStatus, Closed
  <2>4. d \in WithStatus(status, o) <=> deals[d].terms.owner = o
    BY <1>1, <1>2 DEF WithStatus, In
  <2> QED
    BY <1>2, <2>3, <2>4 DEF ClosedOf, OwnerOf
<1>3. CASE ~ (d \in Deals /\ deals[d] # Absent /\ deals[d].status = status)
  <2>1. d \notin WithStatus(status, scope)
    BY <1>3 DEF WithStatus, In
  <2>2. d \in ClosedOf(o, scope) => d \in Deals /\ deals[d] # Absent
    BY DEF ClosedOf, ClosedIn, WithStatus, In
  <2> QED
    BY <1>3, <2>1, <2>2
<1> QED
  BY <1>2, <1>3

\* What each closed adds up to what was closed.
LEMMA ClosedAddUp ==
    ASSUME DeskInv, NEW scope
    PROVE  /\ SumFunction([o \in Closers(scope) |-> ClosedCounts(scope)[o].won])
                = Cardinality(WithStatus("won", scope))
           /\ SumFunction([o \in Closers(scope) |-> ClosedCounts(scope)[o].lost])
                = Cardinality(WithStatus("lost", scope))
<1> PICK A, B, I : /\ A = WithStatus("won", scope) /\ B = WithStatus("lost", scope)
                   /\ I = Closers(scope)
  OBVIOUS
<1>1. IsFiniteSet(A) /\ IsFiniteSet(B)
  BY DealSets
<1>2. IsFiniteSet(I) /\ I \in SUBSET Owners
  <2>1. I \in SUBSET Owners
    BY DEF Closers
  <2> QED
    BY <2>1, DeskAssumption, FS_Subset
<1>c. "won" \in Closed /\ "lost" \in Closed
  BY DEF Closed
<1>3. ASSUME NEW o \in Owners
      PROVE  /\ WonIn(ClosedOf(o, scope)) = Class(A, OwnerOf, o)
             /\ ClosedOf(o, scope) \ WonIn(ClosedOf(o, scope)) = Class(B, OwnerOf, o)
  <2>1. \A d : d \in ClosedOf(o, scope) /\ deals[d].status = "won" <=> d \in A /\ OwnerOf[d] = o
    BY <1>c, ClosedByOwner
  <2>2. \A d : d \in ClosedOf(o, scope) /\ deals[d].status = "lost" <=> d \in B /\ OwnerOf[d] = o
    BY <1>c, ClosedByOwner
  <2>3. \A d \in ClosedOf(o, scope) : deals[d].status \in {"won", "lost"}
    BY DEF ClosedOf, ClosedIn, WithStatus
  <2>4. \A d : d \in WonIn(ClosedOf(o, scope)) <=> d \in ClosedOf(o, scope) /\ deals[d].status = "won"
    BY DEF WonIn
  <2>5. \A d : d \in ClosedOf(o, scope) \ WonIn(ClosedOf(o, scope))
                 <=> d \in ClosedOf(o, scope) /\ deals[d].status = "lost"
    BY <2>3, <2>4
  <2>6. \A d : /\ d \in Class(A, OwnerOf, o) <=> d \in A /\ OwnerOf[d] = o
               /\ d \in Class(B, OwnerOf, o) <=> d \in B /\ OwnerOf[d] = o
    BY DEF Class
  <2> QED
    BY <2>1, <2>2, <2>4, <2>5, <2>6
<1>4. \A d \in A \cup B : OwnerOf[d] \in I
  <2> SUFFICES ASSUME NEW d \in A \cup B PROVE OwnerOf[d] \in I
    OBVIOUS
  <2>1. d \in Deals /\ deals[d] # Absent
    BY DEF WithStatus, In
  <2>2. OwnerOf[d] \in Owners
    BY <2>1, DealFacts DEF OwnerOf
  <2>3. d \in ClosedOf(OwnerOf[d], scope)
    BY <1>c, <2>2, ClosedByOwner
  <2> QED
    BY <2>2, <2>3 DEF Closers
<1>5. CountedNear(A, OwnerOf, I) /\ CountedNear(B, OwnerOf, I)
  BY <1>1, <1>2, <1>4, DealsByClass
<1>6. ASSUME NEW o \in I
      PROVE  /\ ClosedCounts(scope)[o].won = Cardinality(Class(A, OwnerOf, o))
             /\ ClosedCounts(scope)[o].lost = Cardinality(Class(B, OwnerOf, o))
  <2>1. o \in Closers(scope) /\ o \in Owners
    BY <1>2
  <2>2. ClosedCounts(scope)[o].won = Cardinality(WonIn(ClosedOf(o, scope)))
    BY <2>1, ClosedCountsIs
  <2>3. ClosedCounts(scope)[o].lost
          = Cardinality(ClosedOf(o, scope) \ WonIn(ClosedOf(o, scope)))
    BY <2>1, ClosedCountsIs
  <2> QED
    BY <1>3, <2>1, <2>2, <2>3
<1>7. /\ [o \in I |-> ClosedCounts(scope)[o].won]
           = [o \in I |-> Cardinality(Class(A, OwnerOf, o))]
      /\ [o \in I |-> ClosedCounts(scope)[o].lost]
           = [o \in I |-> Cardinality(Class(B, OwnerOf, o))]
  BY <1>6
<1> QED
  BY <1>5, <1>7 DEF CountedNear

\* Every lost deal has one of the reasons.
LEMMA ReasonsAddUp ==
    ASSUME DeskInv, NEW scope
    PROVE  SumFunction(LostReasonCounts(scope)) = Cardinality(WithStatus("lost", scope))
<1> PICK B, why : /\ B = WithStatus("lost", scope)
                  /\ why = [d \in Deals |-> deals[d].reason]
  OBVIOUS
<1>1. IsFiniteSet(B) /\ IsFiniteSet(LostReasons)
  BY DealSets, DeskAssumption
<1>2. \A d \in B : d \in Deals /\ deals[d] # Absent /\ deals[d].status = "lost"
  BY DEF WithStatus, In
<1>3. \A d \in B : why[d] \in LostReasons
  BY <1>2, DealFacts
<1>4. CountedNear(B, why, LostReasons)
  BY <1>1, <1>3, DealsByClass
<1>5. \A r \in LostReasons : { d \in B : deals[d].reason = r } = Class(B, why, r)
  BY <1>2 DEF Class
<1>6. LostReasonCounts(scope) = [r \in LostReasons |-> Cardinality({ d \in B : deals[d].reason = r })]
  BY DEF LostReasonCounts
<1>7. LostReasonCounts(scope) = [r \in LostReasons |-> Cardinality(Class(B, why, r))]
  BY <1>5, <1>6
<1> QED
  BY <1>4, <1>7 DEF CountedNear

LEMMA ClosedPage ==
    ASSUME DeskInv, NEW scope, NEW currency
    PROVE  LET closed == PipelineOverview(scope, currency).closed IN
           /\ closed.won = Cardinality(WithStatus("won", scope))
           /\ closed.lost = Cardinality(WithStatus("lost", scope))
           /\ SumFunction(closed.reasons) = Cardinality(WithStatus("lost", scope))
<1>1. /\ PipelineOverview(scope, currency).closed.won
           = SumFunction([o \in DOMAIN ClosedCounts(scope) |-> ClosedCounts(scope)[o].won])
      /\ PipelineOverview(scope, currency).closed.lost
           = SumFunction([o \in DOMAIN ClosedCounts(scope) |-> ClosedCounts(scope)[o].lost])
  BY DEF PipelineOverview
<1>2. DOMAIN ClosedCounts(scope) = Closers(scope)
  BY ClosedCountsIs
<1>3. SumFunction(PipelineOverview(scope, currency).closed.reasons)
        = Cardinality(WithStatus("lost", scope))
  BY ReasonsAgree, ReasonsAddUp
<1> QED
  BY <1>1, <1>2, <1>3, ClosedAddUp

LEMMA CountsAreRight ==
    ASSUME DeskInv, NEW scope
    PROVE  CountsAgree(scope)
<1> PICK page, tabs, usd : /\ page = PipelineOverview(scope, usd) /\ usd = "USD"
                           /\ tabs = StatusCounts(scope)
  OBVIOUS
<1>1. /\ tabs.open = Cardinality(WithStatus("open", scope))
      /\ tabs.won = Cardinality(WithStatus("won", scope))
      /\ tabs.lost = Cardinality(WithStatus("lost", scope))
      /\ tabs.all = Cardinality({ d \in Deals : In(d, scope) })
  BY FourStatuses DEF StatusCounts
<1>2. DOMAIN page.hygiene = Buckets
      /\ \A bucket \in Buckets : page.hygiene[bucket] = Cardinality(InBucket(scope, bucket))
  BY HygieneIs
<1>3. \A bucket \in Buckets :
         page.hygiene[bucket] = Len(Pipeline(ListFilter(scope, "all", bucket)))
  BY <1>2, BucketsListed, ListedIs DEF Listing
<1>4. page.hygiene["active_week"] + page.hygiene["quiet_8_30"] + page.hygiene["no_activity_30"]
        = tabs.open
  BY <1>1, <1>2, ThreeBuckets, DealSets DEF Buckets
<1>5. Notifications(scope).stale = page.hygiene["no_activity_30"]
  BY <1>2, StaleDeals DEF Buckets, Notifications
<1>6. \A tab \in {"all", "open", "won", "lost"} :
         tabs[tab] = Len(Pipeline(ListFilter(scope, tab, "none")))
  <2>1. \A tab \in {"open", "won", "lost"} :
           Len(Pipeline(ListFilter(scope, tab, "none"))) = Cardinality(WithStatus(tab, scope))
    BY TabsListed, ListedIs DEF Listing
  <2>2. Len(Pipeline(ListFilter(scope, "all", "none")))
          = Cardinality({ d \in Deals : In(d, scope) })
    BY TabsListed, ListedIs DEF Listing
  <2> QED
    BY <1>1, <2>1, <2>2
<1>7. page.all = tabs.all
  BY <1>1 DEF PipelineOverview
<1>8. /\ page.closed.won = tabs.won /\ page.closed.lost = tabs.lost
      /\ SumFunction(page.closed.reasons) = tabs.lost
  BY <1>1, ClosedPage
<1>9. /\ SumFunction([o \in DOMAIN page.reps |-> page.reps[o].count]) = page.team.count
      /\ SumFunction([o \in DOMAIN page.reps |-> page.reps[o].cold]) = page.team.cold
  BY RepsAddUp, DeskAssumption
<1>10. scope = Everyone => page.team.cold = Notifications(scope).stale
  BY PageTeam, StaleDeals DEF Notifications
<1> QED
  BY <1>2, <1>3, <1>4, <1>5, <1>6, <1>7, <1>8, <1>9, <1>10 DEF CountsAgree

------------------------------------------------------------------------------
(* The bells *)

LEMMA PlannedFacts ==
    ASSUME DeskInv, NEW scope
    PROVE  /\ IsFiniteSet(Planned(scope))
           /\ \A p \in Planned(scope) : prospects[p].on \in Nat
<1>1. \A p \in Planned(scope) : p \in Prospects /\ prospects[p] # Absent
  BY DEF Planned
<1>2. \A p \in Planned(scope) : prospects[p] \in Plans
  BY <1>1 DEF DeskInv
<1> QED
  BY <1>1, <1>2, DeskAssumption, FS_Subset

\* Due by a day: now, or after today.
DueBy(S, on, t) == { x \in S : on[x] <= t }

DueWithin(S, on, t, u) == { x \in S : on[x] \in t + 1 .. t + u }

DueAddsUp(S, on, t, u) ==
    /\ Cardinality(DueBy(S, on, t + u))
         = Cardinality(DueBy(S, on, t)) + Cardinality(DueWithin(S, on, t, u))
    /\ Cardinality(DueBy(S, on, t)) \in Nat /\ Cardinality(DueWithin(S, on, t, u)) \in Nat

LEMMA DueInTwoParts ==
    ASSUME NEW S, IsFiniteSet(S), NEW on, \A x \in S : on[x] \in Nat,
           NEW t \in Nat, NEW u \in Nat
    PROVE  DueAddsUp(S, on, t, u)
<1> PICK A, B, C : /\ A = DueBy(S, on, t + u) /\ B = DueBy(S, on, t)
                   /\ C = DueWithin(S, on, t, u)
  OBVIOUS
<1>1. IsFiniteSet(A)
  BY FS_Subset DEF DueBy
<1>2. B \in SUBSET A /\ C = A \ B
  BY DEF DueBy, DueWithin
<1>3. Cardinality(A) = Cardinality(B) + Cardinality(A \ B)
      /\ Cardinality(B) \in Nat /\ Cardinality(A \ B) \in Nat
  BY <1>1, <1>2, TwoParts
<1> QED
  BY <1>2, <1>3 DEF DueAddsUp

LEMMA BellsAreRight ==
    ASSUME DeskInv, NEW scope
    PROVE  BellsAgree(scope)
<1> PICK P, D, on, until, t, u :
      /\ P = Planned(scope) /\ D = WithStatus("parked", scope)
      /\ on = [p \in P |-> prospects[p].on] /\ until = [d \in D |-> deals[d].until]
      /\ t = today /\ u = UpcomingWindow
  OBVIOUS
<1>1. IsFiniteSet(P) /\ \A p \in P : on[p] \in Nat
  BY PlannedFacts
<1>2. IsFiniteSet(D) /\ \A d \in D : until[d] \in Nat
  <2>1. \A d \in D : d \in Deals /\ deals[d] # Absent
    BY DealSets DEF There
  <2> QED
    BY <2>1, DealSets, DealFacts
<1>3. t \in Nat /\ u \in Nat
  BY DeskAssumption DEF DeskInv
<1>4. /\ { p \in P : prospects[p].on <= t } = DueBy(P, on, t)
      /\ { p \in P : prospects[p].on <= t + u } = DueBy(P, on, t + u)
      /\ { p \in P : prospects[p].on \in t + 1 .. t + u } = DueWithin(P, on, t, u)
  BY DEF DueBy, DueWithin
<1>5. /\ { d \in D : deals[d].until <= t } = DueBy(D, until, t)
      /\ { d \in D : deals[d].until <= t + u } = DueBy(D, until, t + u)
      /\ { d \in D : deals[d].until \in t + 1 .. t + u }
           = DueWithin(D, until, t, u)
  BY DEF DueBy, DueWithin
<1>6. /\ Cardinality({ p \in P : prospects[p].on <= t + u })
           = Cardinality({ p \in P : prospects[p].on <= t })
               + Cardinality({ p \in P : prospects[p].on \in t + 1 .. t + u })
      /\ Cardinality({ p \in P : prospects[p].on <= t }) \in Nat
      /\ Cardinality({ p \in P : prospects[p].on \in t + 1 .. t + u }) \in Nat
  <2>1. DueAddsUp(P, on, t, u)
    BY <1>1, <1>3, DueInTwoParts
  <2> QED
    BY <1>4, <2>1 DEF DueAddsUp
<1>7. /\ Cardinality({ d \in D : deals[d].until <= t + u })
           = Cardinality({ d \in D : deals[d].until <= t })
               + Cardinality({ d \in D : deals[d].until \in t + 1 .. t + u })
      /\ Cardinality({ d \in D : deals[d].until <= t }) \in Nat
      /\ Cardinality({ d \in D : deals[d].until \in t + 1 .. t + u }) \in Nat
  <2>1. DueAddsUp(D, until, t, u)
    BY <1>2, <1>3, DueInTwoParts
  <2> QED
    BY <1>5, <2>1 DEF DueAddsUp
<1>8. /\ NurtureDueCounts(scope).due = Cardinality({ p \in P : prospects[p].on <= t })
      /\ NurtureDueCounts(scope).upcoming
           = Cardinality({ p \in P : prospects[p].on \in t + 1 .. t + u })
      /\ ParkedDueCounts(scope).due = Cardinality({ d \in D : deals[d].until <= t })
      /\ ParkedDueCounts(scope).upcoming
           = Cardinality({ d \in D : deals[d].until \in t + 1 .. t + u })
  BY DEF NurtureDueCounts, ParkedDueCounts
<1>9. /\ Notifications(scope).due = NurtureDueCounts(scope).due + ParkedDueCounts(scope).due
      /\ Notifications(scope).upcoming
           = NurtureDueCounts(scope).upcoming + ParkedDueCounts(scope).upcoming
  BY DEF Notifications
<1>10. NurtureSummary(scope).dueNow = Cardinality({ p \in P : prospects[p].on <= t })
  BY DEF NurtureSummary
<1>11. { p \in P : DueState(p) \in {"overdue", "today"} } = { p \in P : prospects[p].on <= t }
  <2>1. ASSUME NEW p \in P
        PROVE  DueState(p) \in {"overdue", "today"} <=> prospects[p].on <= t
    <3>1. prospects[p].on \in Nat
      BY <1>1
    <3>2. DueState(p) = CASE prospects[p].on < t -> "overdue" [] prospects[p].on = t -> "today"
                          [] OTHER -> "in_days"
      BY DEF DueState
    <3> QED
      BY <1>3, <3>1, <3>2
  <2> QED
    BY <2>1
<1>12. Notifications(scope).due + Notifications(scope).upcoming
         = Cardinality({ p \in P : prospects[p].on <= t + u })
             + Cardinality({ d \in D : deals[d].until <= t + u })
  BY <1>6, <1>7, <1>8, <1>9
<1> QED
  BY <1>8, <1>9, <1>10, <1>11, <1>12 DEF BellsAgree

LEMMA SidebarIsRight ==
    ASSUME DeskInv
    PROVE  /\ NurtureDueCounts(Everyone) = [due |-> NotificationCounts.dueNurture,
                                            upcoming |-> NotificationCounts.upcomingNurture]
           /\ Notifications(Everyone).due
                = NotificationCounts.dueNurture + NotificationCounts.dueParked
<1>1. { p \in Planned(Everyone) : prospects[p].on \in today + 1 .. today + UpcomingWindow }
        = { p \in Planned(Everyone) : /\ today < prospects[p].on
                                      /\ prospects[p].on <= today + UpcomingWindow }
  <2>1. today \in Nat /\ UpcomingWindow \in Nat
    BY DeskAssumption DEF DeskInv
  <2>2. \A p \in Planned(Everyone) : prospects[p].on \in Nat
    BY PlannedFacts
  <2>3. \A p \in Planned(Everyone) :
           prospects[p].on \in today + 1 .. today + UpcomingWindow
             <=> today < prospects[p].on /\ prospects[p].on <= today + UpcomingWindow
    BY <2>1, <2>2
  <2> QED
    BY <2>3
<1>2. \A d \in Deals : deals[d].status = "parked" => In(d, Everyone)
  BY StatusTells DEF DeskInv, In
<1>3. { d \in WithStatus("parked", Everyone) : deals[d].until <= today }
        = { d \in Deals : deals[d].status = "parked" /\ deals[d].until <= today }
  BY <1>2 DEF WithStatus
<1>4. /\ NurtureDueCounts(Everyone).due = NotificationCounts.dueNurture
      /\ NurtureDueCounts(Everyone).upcoming = NotificationCounts.upcomingNurture
  BY <1>1 DEF NurtureDueCounts, NotificationCounts
<1>5. ParkedDueCounts(Everyone).due = NotificationCounts.dueParked
  BY <1>3 DEF ParkedDueCounts, NotificationCounts
<1>6. NurtureDueCounts(Everyone) = [due |-> NurtureDueCounts(Everyone).due,
                                    upcoming |-> NurtureDueCounts(Everyone).upcoming]
  BY DEF NurtureDueCounts
<1> QED
  BY <1>4, <1>5, <1>6 DEF Notifications

------------------------------------------------------------------------------
(* The companies *)

\* A finite set in a sequence: each member once.
LEMMA SetInSeq ==
    ASSUME NEW S, IsFiniteSet(S)
    PROVE  /\ Cardinality(S) \in Nat
           /\ SetToSeq(S) \in [1 .. Cardinality(S) -> S] /\ Len(SetToSeq(S)) = Cardinality(S)
           /\ \A j, k \in 1 .. Cardinality(S) : SetToSeq(S)[j] = SetToSeq(S)[k] => j = k
           /\ \A x \in S : \E k \in 1 .. Cardinality(S) : SetToSeq(S)[k] = x
<1> PICK n, q : n = Cardinality(S) /\ q = SetToSeq(S)
  OBVIOUS
<1>1. n \in Nat /\ ExistsBijection(1 .. n, S)
  BY FS_CardinalityType
<1>2. PICK b : b \in Bijection(1 .. n, S)
  BY <1>1 DEF ExistsBijection
<1>3. b \in [1 .. n -> S] /\ IsInjective(b)
  BY <1>2 DEF Bijection, Injection
<1>4. q \in [1 .. n -> S] /\ IsInjective(q)
  BY <1>3 DEF SetToSeq
<1>5. \A j, k \in 1 .. n : q[j] = q[k] => j = k
  BY <1>4 DEF IsInjective
<1>6. IsFiniteSet(1 .. n) /\ Cardinality(1 .. n) = n
  BY <1>1, FS_Interval
<1>7. q \in Injection(1 .. n, S)
  BY <1>4 DEF Injection
<1>8. q \in Surjection(1 .. n, S)
  BY <1>6, <1>7, FS_Injection
<1>9. \A x \in S : \E k \in 1 .. n : q[k] = x
  BY <1>8 DEF Surjection
<1>10. Len(q) = n
  BY <1>1, <1>4
<1> QED
  BY <1>1, <1>4, <1>5, <1>9, <1>10

\* The deals in some statuses, counted together and company by company.
OfStatus(statuses) == { d \in Deals : deals[d].status \in statuses }

OfCompany(statuses, c) == { d \in Deals : deals[d].status \in statuses /\ CustomerOf[d] = c }

AddUpByCompany(statuses) ==
    Cardinality(OfStatus(statuses))
      = SumFunction([k \in 1 .. Cardinality(Customers) |->
                        Cardinality(OfCompany(statuses, SetToSeq(Customers)[k]))])

LEMMA CompaniesAddUp ==
    ASSUME DeskInv, NEW statuses
    PROVE  AddUpByCompany(statuses)
<1> PICK A, n, q, place :
      /\ A = OfStatus(statuses)
      /\ n = Cardinality(Customers) /\ q = SetToSeq(Customers)
      /\ place = [d \in Deals |-> CHOOSE k \in 1 .. n : q[k] = CustomerOf[d]]
  OBVIOUS
<1>1. /\ n \in Nat /\ \A j, k \in 1 .. n : q[j] = q[k] => j = k
      /\ \A c \in Customers : \E k \in 1 .. n : q[k] = c
  BY DeskAssumption, SetInSeq
<1>2. \A d \in Deals : place[d] \in 1 .. n /\ q[place[d]] = CustomerOf[d]
  <2>1. \A d \in Deals : \E k \in 1 .. n : q[k] = CustomerOf[d]
    BY <1>1, DeskAssumption
  <2> QED
    BY <2>1
<1>3. IsFiniteSet(A) /\ IsFiniteSet(1 .. n) /\ \A d \in A : place[d] \in 1 .. n
  <2>1. A \in SUBSET Deals
    BY DEF OfStatus
  <2>2. IsFiniteSet(A)
    BY <2>1, DeskAssumption, FS_Subset
  <2>3. IsFiniteSet(1 .. n)
    BY <1>1, FS_Interval
  <2> QED
    BY <1>2, <2>1, <2>2, <2>3
<1>4. CountedNear(A, place, 1 .. n)
  BY <1>3, DealsByClass
<1>5. \A k \in 1 .. n : \A d \in Deals : place[d] = k <=> CustomerOf[d] = q[k]
  BY <1>1, <1>2
<1>6. \A k \in 1 .. n : Class(A, place, k) = OfCompany(statuses, q[k])
  BY <1>5 DEF Class, OfStatus, OfCompany
<1>7. [k \in 1 .. n |-> Cardinality(Class(A, place, k))]
        = [k \in 1 .. n |->
             Cardinality(OfCompany(statuses, q[k]))]
  BY <1>6
<1> QED
  BY <1>4, <1>7 DEF CountedNear, AddUpByCompany

\* The directory that shows them all.
LEMMA AllCompanies ==
    LET count == Cardinality(Customers) IN
    /\ Companies(Customers, count).total = count
    /\ Companies(Customers, count - 1).total = count
    /\ \A k \in 1 .. count :
          Companies(Customers, count).items[k] = CompanyRow(SetToSeq(Customers)[k])
<1> PICK n, q : n = Cardinality(Customers) /\ q = SetToSeq(Customers)
  OBVIOUS
<1>1. n \in Nat /\ q \in [1 .. n -> Customers] /\ Len(q) = n
  BY DeskAssumption, SetInSeq
<1>2. FirstRows(q, n) = q
  <2>1. FirstRows(q, n) = SubSeq(q, 1, n)
    BY <1>1 DEF FirstRows, Min2
  <2>2. q \in Seq(Customers)
    BY <1>1
  <2> QED
    BY <1>1, <2>1, <2>2
<1>3. \A limit : DeskCompanies(Customers, limit).total = n
  BY DEF DeskCompanies
<1>4. DeskCompanies(Customers, n).rows = q
  BY <1>2 DEF DeskCompanies
<1>5. \A limit : Companies(Customers, limit).total = n
  BY <1>3 DEF Companies
<1>6. \A k \in 1 .. n : Companies(Customers, n).items[k] = CompanyRow(q[k])
  BY <1>1, <1>4 DEF Companies
<1> QED
  BY <1>5, <1>6

LEMMA CompanyRowIs ==
    ASSUME NEW c
    PROVE  /\ CompanyRow(c).open = Cardinality(OfCompany({"open"}, c))
           /\ CompanyRow(c).closed = Cardinality(OfCompany(Closed, c))
           /\ CompanyRow(c).total = Cardinality(OfCompany({"open", "parked"} \cup Closed, c))
BY DEF CompanyRow, OfCompany

LEMMA CompaniesAreRight ==
    ASSUME DeskInv
    PROVE  LET count == Cardinality(Customers)
               page == Companies(Customers, count)
               Over(field) == SumFunction([k \in 1 .. count |-> page.items[k][field]])
               tabs == StatusCounts(Everyone) IN
           /\ page.total = count /\ Companies(Customers, count - 1).total = count
           /\ Over("open") = tabs.open /\ Over("closed") = tabs.won + tabs.lost
           /\ Over("total") = tabs.all
<1> PICK n, q, items : /\ n = Cardinality(Customers) /\ q = SetToSeq(Customers)
                       /\ items = Companies(Customers, n).items
  OBVIOUS
<1>1. \A k \in 1 .. n : items[k] = CompanyRow(q[k])
  BY AllCompanies
<1>2. ASSUME NEW field, NEW statuses,
             \A k \in 1 .. n : items[k][field] = Cardinality(OfCompany(statuses, q[k]))
      PROVE  SumFunction([k \in 1 .. n |-> items[k][field]]) = Cardinality(OfStatus(statuses))
  <2>1. [k \in 1 .. n |-> items[k][field]]
          = [k \in 1 .. n |-> Cardinality(OfCompany(statuses, q[k]))]
    BY <1>2
  <2> QED
    BY <2>1, CompaniesAddUp DEF AddUpByCompany
<1>10. ASSUME NEW k \in 1 .. n
       PROVE  /\ items[k].open = Cardinality(OfCompany({"open"}, q[k]))
              /\ items[k].closed = Cardinality(OfCompany(Closed, q[k]))
              /\ items[k].total = Cardinality(OfCompany({"open", "parked"} \cup Closed, q[k]))
  BY <1>1, CompanyRowIs
<1>3. SumFunction([k \in 1 .. n |-> items[k].open]) = Cardinality(OfStatus({"open"}))
  BY <1>2, <1>10
<1>4. SumFunction([k \in 1 .. n |-> items[k].closed]) = Cardinality(OfStatus(Closed))
  BY <1>2, <1>10
<1>5. SumFunction([k \in 1 .. n |-> items[k].total])
        = Cardinality(OfStatus({"open", "parked"} \cup Closed))
  <2>1. PICK any : any = {"open", "parked"} \cup Closed
    OBVIOUS
  <2>2. \A k \in 1 .. n : items[k].total = Cardinality(OfCompany(any, q[k]))
    BY <1>10, <2>1
  <2>3. SumFunction([k \in 1 .. n |-> items[k].total]) = Cardinality(OfStatus(any))
    BY <1>2, <2>2
  <2> QED
    BY <2>1, <2>3
<1>6. \A d \in Deals : /\ deals[d] = Absent <=> deals[d].status = "absent"
                       /\ deals[d] # Absent
                            => deals[d].status \in {"open", "parked", "won", "lost"}
  BY StatusTells, DealFacts DEF DeskInv
<1>7. /\ OfStatus({"open"}) = WithStatus("open", Everyone)
      /\ OfStatus(Closed) = WithStatus("won", Everyone) \cup WithStatus("lost", Everyone)
      /\ OfStatus({"open", "parked"} \cup Closed) = { d \in Deals : In(d, Everyone) }
  BY <1>6 DEF OfStatus, WithStatus, In, Closed
<1>8. Cardinality(WithStatus("won", Everyone) \cup WithStatus("lost", Everyone))
        = Cardinality(WithStatus("won", Everyone)) + Cardinality(WithStatus("lost", Everyone))
  <2> PICK A, B : A = WithStatus("won", Everyone) /\ B = WithStatus("lost", Everyone)
    OBVIOUS
  <2>1. IsFiniteSet(A) /\ IsFiniteSet(B)
    BY DealSets
  <2>2. A \cap B = {}
    BY DEF WithStatus
  <2>3. Cardinality(A \cup B) = Cardinality(A) + Cardinality(B) - 0
    BY <2>1, <2>2, FS_Union, FS_EmptySet
  <2>4. Cardinality(A) \in Nat /\ Cardinality(B) \in Nat
    BY <2>1, FS_CardinalityType
  <2> QED
    BY <2>3, <2>4
<1>9. /\ StatusCounts(Everyone).open = Cardinality(WithStatus("open", Everyone))
      /\ StatusCounts(Everyone).won = Cardinality(WithStatus("won", Everyone))
      /\ StatusCounts(Everyone).lost = Cardinality(WithStatus("lost", Everyone))
      /\ StatusCounts(Everyone).all = Cardinality({ d \in Deals : In(d, Everyone) })
  BY FourStatuses DEF StatusCounts
<1> QED
  BY <1>3, <1>4, <1>5, <1>7, <1>8, <1>9, AllCompanies

------------------------------------------------------------------------------
(* Lists in order *)

\* No two were created at the same instant.
LEMMA Instants ==
    ASSUME NEW S, IsFiniteSet(S), NEW x \in S
    PROVE  Instant(x, S) \in Int /\ SetToSeq(S)[Instant(x, S)] = x
<1> PICK q, n : q = SetToSeq(S) /\ n = Cardinality(S)
  OBVIOUS
<1>1. n \in Nat /\ q \in [1 .. n -> S] /\ \E k \in 1 .. n : q[k] = x
  BY SetInSeq
<1>2. DOMAIN q = 1 .. n
  BY <1>1
<1>3. Instant(x, S) \in 1 .. n /\ q[Instant(x, S)] = x
  BY <1>1, <1>2 DEF Instant
<1> QED
  BY <1>3

DealKey(d) ==
    <<StatusRank(d), deals[d].stage, -deals[d].terms.value, -deals[d].first,
      Instant(d, Deals)>>

LEMMA PipelineEnumerates ==
    ASSUME DeskInv, NEW f
    PROVE  Enumerates(Pipeline(f), Matching(f))
<1> PICK S, key : S = Matching(f) /\ key = [d \in S |-> DealKey(d)]
  OBVIOUS
<1>1. S \in SUBSET Deals /\ \A d \in S : deals[d] # Absent
  BY DEF Matching, Matches, In
<1>2. IsFiniteSet(S)
  BY <1>1, DeskAssumption, FS_Subset
<1>3. ASSUME NEW d \in S PROVE DealKey(d) \in [1 .. 5 -> Int]
  <2>1. deals[d].stage \in Int
    BY <1>1, DealFacts, DeskAssumption DEF Stages
  <2>2. -deals[d].terms.value \in Int /\ -deals[d].first \in Int
    BY <1>1, DealFacts
  <2>3. StatusRank(d) \in Int
    BY DEF StatusRank
  <2>4. Instant(d, Deals) \in Int
    BY <1>1, DeskAssumption, Instants
  <2> QED
    BY <2>1, <2>2, <2>3, <2>4, TupleOfFive DEF DealKey
<1>4. ASSUME NEW d \in S, NEW e \in S, DealKey(d) = DealKey(e) PROVE d = e
  <2>1. Instant(d, Deals) = Instant(e, Deals)
    BY <1>4 DEF DealKey
  <2> QED
    BY <1>1, <2>1, DeskAssumption, Instants
<1>5. Keyed(key, 5)
  BY <1>3, <1>4 DEF Keyed
<1>6. Enumerates(InOrder(key), S)
  BY <1>2, <1>5, InOrderEnumerates
<1>7. Pipeline(f) = InOrder(key)
  BY DEF Pipeline, Matching, DealKey
<1> QED
  BY <1>6, <1>7

------------------------------------------------------------------------------
(* Lists read page by page *)

\* Sequences put one after another, when g holds the first ones of them.
Joins(g, seqs, n) ==
    g = [i \in 1 .. n |-> IF i = 1 THEN seqs[i] ELSE g[i - 1] \o seqs[i]]

LEMMA JoinsFlatten ==
    ASSUME NEW n \in Nat \ {0}, NEW seqs, Len(seqs) = n, NEW g, Joins(g, seqs, n)
    PROVE  FlattenSeq(seqs) = g[n]
<1> DEFINE D(h) == [i \in 1 .. Len(seqs) |-> IF i = 1 THEN seqs[i] ELSE h[i - 1] \o seqs[i]]
           it == CHOOSE h : h = D(h)
<1>1. FlattenSeq(seqs) = it[Len(seqs)]
  BY DEF FlattenSeq
<1>2. g = D(g)
  BY DEF Joins
<1>3. ASSUME NEW h, h = D(h)
      PROVE  /\ h[1] = seqs[1]
             /\ \A i \in 1 .. n : i # 1 => h[i] = h[i - 1] \o seqs[i]
  <2>1. PICK k : k = D(h)
    OBVIOUS
  <2>2. \A i \in 1 .. n : k[i] = IF i = 1 THEN seqs[i] ELSE h[i - 1] \o seqs[i]
    BY <2>1
  <2>3. 1 \in 1 .. n
    OBVIOUS
  <2>4. k = h
    BY <1>3, <2>1
  <2> HIDE DEF D
  <2> QED
    BY <2>2, <2>3, <2>4
<1> HIDE DEF D
<1>4. it = D(it)
  BY <1>2, Zenon
<1> HIDE DEF it
<1> PICK B : B = { i \in 1 .. n : it[i] # g[i] }
  OBVIOUS
<1>5. B = {}
  <2> SUFFICES ASSUME B # {} PROVE FALSE
    OBVIOUS
  <2>1. PICK i \in B : \A j \in B : i <= j
    <3>1. B \in SUBSET (1 .. n) /\ n \in Nat
      OBVIOUS
    <3> QED
      BY <3>1, LeastNumber
  <2>2. i \in 1 .. n /\ it[i] # g[i]
    OBVIOUS
  <2>3. CASE i = 1
    BY <1>2, <1>3, <1>4, <2>2, <2>3
  <2>4. CASE i # 1
    <3>1. i - 1 \in 1 .. n /\ ~ (i <= i - 1)
      BY <2>2, <2>4
    <3>2. it[i - 1] = g[i - 1]
      BY <2>1, <3>1
    <3>3. it[i] = it[i - 1] \o seqs[i] /\ g[i] = g[i - 1] \o seqs[i]
      BY <1>2, <1>3, <1>4, <2>2, <2>4
    <3> QED
      BY <2>2, <3>2, <3>3
  <2> QED
    BY <2>3, <2>4
<1>6. it[n] = g[n]
  <2>1. n \in 1 .. n
    OBVIOUS
  <2> QED
    BY <1>5, <2>1
<1> QED
  BY <1>1, <1>6

LEMMA SubSeqTwice ==
    ASSUME NEW S, NEW s \in Seq(S), NEW i \in 1 .. Len(s), NEW j \in 1 .. Len(s),
           NEW n \in 1 .. j - i + 1
    PROVE  SubSeq(SubSeq(s, i, j), 1, n) = SubSeq(s, i, i + n - 1)
<1>1. i \in Int /\ j \in Int /\ n \in Int /\ 1 \in 1 .. j - i + 1 /\ i + 1 - 1 = i
  BY LenProperties
<1>2. \A t \in Seq(S), m \in 1 .. j - i + 1 :
         SubSeq(SubSeq(s, i, j), m, n) = SubSeq(s, i + m - 1, i + n - 1)
  BY SubSeqOfSubSeq
<1>3. SubSeq(SubSeq(s, i, j), 1, n) = SubSeq(s, i + 1 - 1, i + n - 1)
  BY <1>1, <1>2
<1> QED
  BY <1>1, <1>3

LEMMA PageEnds ==
    \A a, L \in Nat, size \in Nat \ {0} : a < L =>
        LET e == Min2(a + size + 1, L) IN
        /\ Min2(size, e - a) \in 1 .. e - a
        /\ a + Min2(size, e - a) = Min2(a + size, L)
<1> TAKE a, L \in Nat, size \in Nat \ {0}
<1> HAVE a < L
<1>1. CASE a + size < L
  <2>1. Min2(a + size + 1, L) = a + size + 1 /\ Min2(a + size, L) = a + size
    BY <1>1 DEF Min2
  <2>2. (a + size + 1) - a = size + 1 /\ Min2(size, size + 1) = size
    BY DEF Min2
  <2> QED
    BY <2>1, <2>2
<1>2. CASE L <= a + size
  <2>1. Min2(a + size + 1, L) = L /\ Min2(a + size, L) = L
    BY <1>2 DEF Min2
  <2>2. Min2(size, L - a) = L - a
    BY <1>2 DEF Min2
  <2> QED
    BY <2>1, <2>2
<1> QED
  BY <1>1, <1>2

\* What a page shows: the rows from a + 1 on, as many as it holds.
Before(p, size, a) == a = (p - 1) * size

LEMMA PageItems ==
    ASSUME NEW S, NEW rows \in Seq(S), NEW L, L = Len(rows),
           NEW p \in Nat \ {0}, NEW size \in Nat \ {0}, NEW a \in Nat, Before(p, size, a)
    PROVE  /\ FromWindow(rows, p, size).items = SubSeq(rows, a + 1, Min2(a + size, L))
           /\ FromWindow(rows, p, size).more <=> a + size < L
<1>1. L \in Nat
  BY LenProperties
<1>2. p * size = a + size
  <2>1. (p - 1) * size = p * size - size
    OBVIOUS
  <2>2. p * size \in Int
    OBVIOUS
  <2> QED
    BY <2>1, <2>2 DEF Before
<1>e. PICK e, fetched : e = Min2(a + size + 1, L) /\ fetched = SubSeq(rows, a + 1, e)
  OBVIOUS
<1>3. /\ FromWindow(rows, p, size).items = FirstRows(fetched, size)
      /\ FromWindow(rows, p, size).more <=> Len(fetched) > size
  BY <1>2, <1>e DEF FromWindow, Before
<1>4. e \in Nat /\ e <= L /\ (e = L \/ e = a + size + 1) /\ e <= a + size + 1
  BY <1>1, <1>e DEF Min2
<1>5. Len(fetched) = IF a + 1 <= e THEN e - a ELSE 0
  <2>1. \A i \in a + 1 .. e : rows[i] \in S
    <3>1. \A i \in a + 1 .. e : i \in 1 .. L
      BY <1>1, <1>4
    <3> QED
      BY <3>1, ElementOfSeq
  <2>2. a + 1 \in Int /\ e \in Int
    BY <1>4
  <2>3. Len(SubSeq(rows, a + 1, e)) = IF a + 1 <= e THEN e - (a + 1) + 1 ELSE 0
    BY <2>1, <2>2, SubSeqProperties
  <2> QED
    BY <1>4, <1>e, <2>3
<1>6. FirstRows(fetched, size) = SubSeq(fetched, 1, Min2(size, Len(fetched)))
  BY DEF FirstRows
<1>7. CASE a >= L
  <2>1. e < a + 1 /\ Min2(a + size, L) = L /\ L < a + 1 /\ a + 1 \in Int /\ e \in Int /\ L \in Int
    BY <1>1, <1>4, <1>7 DEF Min2
  <2>2. fetched = <<>> /\ SubSeq(rows, a + 1, L) = <<>>
    BY <1>e, <2>1, SubSeqEmpty
  <2>3. Len(fetched) = 0 /\ Min2(size, 0) = 0
    BY <1>5, <2>1 DEF Min2
  <2>4. SubSeq(fetched, 1, 0) = <<>>
    BY SubSeqEmpty
  <2>5. ~ (a + size < L)
    BY <1>1, <1>7
  <2> QED
    BY <1>3, <1>6, <2>1, <2>2, <2>3, <2>4, <2>5
<1>8. CASE a < L
  <2>1. a + 1 <= e /\ Len(fetched) = e - a
    BY <1>1, <1>4, <1>5, <1>8
  <2>n. PICK n : n = Min2(size, e - a)
    OBVIOUS
  <2>2. n \in 1 .. e - a /\ a + n = Min2(a + size, L)
    BY <1>1, <1>8, <1>e, <2>n, PageEnds
  <2>3. a + 1 \in 1 .. Len(rows) /\ e \in 1 .. Len(rows) /\ n \in 1 .. e - (a + 1) + 1
    <3>1. e - (a + 1) + 1 = e - a
      BY <1>4
    <3> QED
      BY <1>1, <1>4, <1>8, <2>1, <2>2, <3>1
  <2>4. SubSeq(SubSeq(rows, a + 1, e), 1, n) = SubSeq(rows, a + 1, (a + 1) + n - 1)
    BY <2>3, SubSeqTwice
  <2>5. (a + 1) + n - 1 = a + n
    BY <2>2
  <2>6. Len(fetched) > size <=> a + size < L
    BY <1>1, <1>4, <2>1
  <2> QED
    BY <1>3, <1>6, <1>e, <2>1, <2>2, <2>4, <2>5, <2>6, <2>n
<1>9. a >= L \/ a < L
  BY <1>1
<1> QED
  BY <1>7, <1>8, <1>9

\* How many pages: enough for the rows, and none too many.
LEMMA PagesAreEnough ==
    ASSUME NEW L \in Nat, NEW size \in Nat \ {0}, NEW n, n = TotalPages(L, size)
    PROVE  /\ n \in Nat \ {0} /\ L <= size * n
           /\ \A p \in 1 .. n : size * p < L <=> p < n
<1> PICK m, q : m = L + size - 1 /\ q = m \div size
  OBVIOUS
<1>1. m \in Nat /\ q \in Nat /\ size * q <= m /\ m < size * q + size
  BY Division
<1> PICK t : t = size * q
  OBVIOUS
<1>2. t \in Nat
  BY <1>1
<1>3. L <= t /\ t <= L + size - 1
  BY <1>1, <1>2
<1>4. n = Max2(1, q)
  BY DEF TotalPages
<1>5. n \in Nat \ {0} /\ q <= n /\ (n # 1 => n = q)
  BY <1>1, <1>4 DEF Max2
<1>6. t <= size * n /\ size * n \in Int
  BY <1>1, <1>5, Multiplied
<1>7. L <= size * n
  BY <1>2, <1>3, <1>6
<1>8. ASSUME NEW p \in 1 .. n PROVE size * p < L <=> p < n
  <2>1. p \in Nat /\ size * p \in Int /\ L \in Int
    BY <1>5
  <2>2. CASE p < n
    <3>1. n = q /\ p <= q - 1 /\ q - 1 \in Int
      BY <1>1, <1>5, <2>1, <2>2
    <3>2. size * p <= size * (q - 1)
      BY <2>1, <3>1, Multiplied
    <3>3. size * (q - 1) = t - size
      BY <1>1
    <3>4. t - size < L
      BY <1>2, <1>3
    <3>5. t - size \in Int
      BY <1>2
    <3> QED
      BY <2>1, <2>2, <3>2, <3>3, <3>4, <3>5
  <2>3. CASE p = n
    BY <1>7, <2>1, <2>3
  <2>4. p < n \/ p = n
    BY <1>5
  <2> QED
    BY <2>2, <2>3, <2>4, <1>5
<1> QED
  BY <1>5, <1>7, <1>8

\* The first k rows.
Upto(rows, k) == SubSeq(rows, 1, k)

\* Turning the pages shows every row once, and there is more but on the last.
PagesWhole(rows, count, size) ==
    /\ FlattenSeq([p \in 1 .. TotalPages(count, size) |-> FromWindow(rows, p, size).items])
         = rows
    /\ \A p \in 1 .. TotalPages(count, size) :
          FromWindow(rows, p, size).more <=> p < TotalPages(count, size)

LEMMA PagesAreWhole ==
    ASSUME NEW S, NEW rows \in Seq(S), NEW L, L = Len(rows), NEW size \in Nat \ {0}
    PROVE  PagesWhole(rows, L, size)
<1>s. PICK n, seqs : /\ n = TotalPages(L, size)
                     /\ seqs = [p \in 1 .. n |-> FromWindow(rows, p, size).items]
  OBVIOUS
<1>g. PICK ends, g : /\ ends = [p \in 0 .. n |-> Min2(size * p, L)]
                     /\ g = [p \in 1 .. n |-> Upto(rows, ends[p])]
  OBVIOUS
<1>1. L \in Nat
  BY LenProperties
<1>2. n \in Nat \ {0} /\ L <= size * n /\ \A p \in 1 .. n : size * p < L <=> p < n
  BY <1>1, <1>s, PagesAreEnough
<1>3. \A p \in 0 .. n : ends[p] \in 0 .. L /\ ends[p] = Min2(size * p, L)
  <2> SUFFICES ASSUME NEW p \in 0 .. n PROVE ends[p] \in 0 .. L /\ ends[p] = Min2(size * p, L)
    OBVIOUS
  <2>1. size * p \in Nat
    BY <1>2
  <2> QED
    BY <1>1, <1>g, <2>1 DEF Min2
<1>4. ends[0] = 0 /\ ends[n] = L
  <2>1. 0 \in 0 .. n /\ n \in 0 .. n /\ size * 0 = 0 /\ size * n \in Int
    BY <1>2
  <2> QED
    BY <1>1, <1>2, <1>3, <2>1 DEF Min2
<1>5. ASSUME NEW p \in 1 .. n
      PROVE  /\ seqs[p] = SubSeq(rows, ends[p - 1] + 1, ends[p])
             /\ FromWindow(rows, p, size).more <=> size * p < L
             /\ ends[p - 1] <= ends[p]
  <2> PICK a : Before(p, size, a)
    BY DEF Before
  <2>1. a \in Nat /\ p \in Nat \ {0} /\ p - 1 \in 0 .. n /\ p \in 0 .. n
    BY <1>2 DEF Before
  <2>2. a = size * (p - 1) /\ a + size = size * p
    BY <2>1 DEF Before
  <2>3. /\ FromWindow(rows, p, size).items = SubSeq(rows, a + 1, Min2(a + size, L))
        /\ FromWindow(rows, p, size).more <=> a + size < L
    BY <2>1, PageItems
  <2>4. ends[p - 1] = Min2(a, L) /\ ends[p] = Min2(a + size, L)
    BY <1>3, <2>1, <2>2
  <2>5. ends[p - 1] <= ends[p]
    BY <1>1, <2>1, <2>4 DEF Min2
  <2>6. SubSeq(rows, a + 1, ends[p]) = SubSeq(rows, ends[p - 1] + 1, ends[p])
    <3>1. CASE a <= L
      <4>1. ends[p - 1] = a
        BY <1>1, <2>1, <2>4, <3>1 DEF Min2
      <4> QED
        BY <4>1
    <3>2. CASE L < a
      <4>1. ends[p - 1] = L /\ ends[p] = L
        BY <1>1, <2>1, <2>4, <3>2 DEF Min2
      <4>2. L < a + 1 /\ L < L + 1 /\ a + 1 \in Int /\ L + 1 \in Int /\ L \in Int
        BY <1>1, <2>1, <3>2
      <4>3. SubSeq(rows, a + 1, L) = <<>> /\ SubSeq(rows, L + 1, L) = <<>>
        BY <4>2, SubSeqEmpty
      <4> QED
        BY <4>1, <4>3
    <3>3. a <= L \/ L < a
      BY <1>1, <2>1
    <3> QED
      BY <3>1, <3>2, <3>3
  <2> QED
    BY <1>s, <2>2, <2>3, <2>4, <2>5, <2>6
<1>6. ASSUME NEW p \in 1 .. n
      PROVE  g[p] = IF p = 1 THEN seqs[p] ELSE g[p - 1] \o seqs[p]
  <2>1. p \in 0 .. n /\ p - 1 \in 0 .. n
    BY <1>2
  <2>2. CASE p = 1
    <3>1. ends[p - 1] + 1 = 1
      BY <1>4, <2>2
    <3>2. seqs[p] = SubSeq(rows, 1, ends[p])
      BY <1>5, <3>1
    <3>3. g[p] = SubSeq(rows, 1, ends[p])
      BY <1>g DEF Upto
    <3> QED
      BY <2>2, <3>2, <3>3
  <2>3. CASE p # 1
    <3>1. p - 1 \in 1 .. n
      BY <1>2, <2>3
    <3> PICK k, l : k = ends[p - 1] /\ l = ends[p]
      OBVIOUS
    <3>2. k \in 0 .. L /\ l \in 0 .. L /\ k <= l
      BY <1>3, <1>5, <2>1
    <3>3. 1 \in 1 .. Len(rows) + 1 /\ k \in 1 - 1 .. Len(rows) /\ l \in k .. Len(rows)
      BY <1>1, <3>2
    <3>4. SubSeq(rows, 1, k) \o SubSeq(rows, k + 1, l) = SubSeq(rows, 1, l)
      BY <3>3, ConcatAdjacentSubSeq
    <3>5. g[p - 1] = SubSeq(rows, 1, k) /\ g[p] = SubSeq(rows, 1, l)
      BY <1>g, <3>1 DEF Upto
    <3> QED
      BY <1>5, <2>3, <3>4, <3>5
  <2> QED
    BY <2>2, <2>3
<1>7. Joins(g, seqs, n)
  <2>1. g = [p \in 1 .. n |-> g[p]]
    BY <1>g
  <2> QED
    BY <1>6, <2>1 DEF Joins
<1>8. Len(seqs) = n
  BY <1>2, <1>s
<1>9. FlattenSeq(seqs) = g[n]
  BY <1>2, <1>7, <1>8, JoinsFlatten
<1>10. g[n] = rows
  <2>1. n \in 1 .. n
    BY <1>2
  <2>2. g[n] = SubSeq(rows, 1, L)
    BY <1>4, <1>g, <2>1 DEF Upto
  <2> QED
    BY <2>2, SubSeqFull
<1>11. \A p \in 1 .. n : FromWindow(rows, p, size).more <=> p < n
  BY <1>2, <1>5
<1> QED
  BY <1>9, <1>10, <1>11, <1>s DEF PagesWhole

------------------------------------------------------------------------------
(* The export of the pipeline *)

Chunk(all, o, e) == SubSeq(all, o + 1, e)

\* What is read from row o + 1 on, in batches of b, when h holds what is read later.
ChunkStep(h, all, L, b, o) ==
    IF o + b > L THEN Chunk(all, o, L) ELSE Chunk(all, o, o + b) \o h[o + b]

Chunks(h, all, L, b) == h = [o \in 0 .. L + b |-> ChunkStep(h, all, L, b, o)]

FromRowOn(all, L, b) == [o \in 0 .. L + b |-> Chunk(all, o, L)]

LEMMA ChunksExist ==
    ASSUME NEW S, NEW all \in Seq(S), NEW L, L = Len(all), NEW b \in Nat \ {0}
    PROVE  Chunks(FromRowOn(all, L, b), all, L, b)
<1>g. PICK g : g = FromRowOn(all, L, b)
  OBVIOUS
<1>1. L \in Nat
  BY LenProperties
<1>2. ASSUME NEW o \in 0 .. L + b PROVE Chunk(all, o, L) = ChunkStep(g, all, L, b, o)
  <2>1. CASE o + b > L
    BY <2>1 DEF ChunkStep
  <2>2. CASE ~ (o + b > L)
    <3> PICK m, k : m = o + 1 /\ k = o + b
      OBVIOUS
    <3>1. /\ m \in 1 .. Len(all) + 1 /\ k \in m - 1 .. Len(all) /\ L \in k .. Len(all)
          /\ k \in 0 .. L + b
      BY <1>1, <2>2
    <3>2. SubSeq(all, m, k) \o SubSeq(all, k + 1, L) = SubSeq(all, m, L)
      BY <3>1, ConcatAdjacentSubSeq
    <3>3. g[k] = Chunk(all, k, L)
      BY <1>g, <3>1 DEF FromRowOn
    <3> QED
      BY <2>2, <3>2, <3>3 DEF ChunkStep, Chunk
  <2> QED
    BY <2>1, <2>2
<1>3. g = [o \in 0 .. L + b |-> Chunk(all, o, L)]
  BY <1>g DEF FromRowOn
<1>4. g = [o \in 0 .. L + b |-> ChunkStep(g, all, L, b, o)]
  BY <1>2, <1>3
<1> QED
  BY <1>4, <1>g DEF Chunks

LEMMA ChunksJoin ==
    ASSUME NEW S, NEW all \in Seq(S), NEW L, L = Len(all), NEW b \in Nat \ {0},
           NEW h, Chunks(h, all, L, b)
    PROVE  h[0] = all
<1>g. PICK g : g = FromRowOn(all, L, b)
  OBVIOUS
<1>1. L \in Nat
  BY LenProperties
<1>2. Chunks(g, all, L, b)
  BY <1>g, ChunksExist
<1>3. \A o \in 0 .. L + b : /\ h[o] = ChunkStep(h, all, L, b, o)
                            /\ g[o] = ChunkStep(g, all, L, b, o)
  BY <1>2 DEF Chunks
<1> PICK c : c = L + b + 1
  OBVIOUS
<1>b. PICK B : B = { i \in 1 .. c : h[c - i] # g[c - i] }
  OBVIOUS
<1>4. B = {}
  <2> SUFFICES ASSUME B # {} PROVE FALSE
    OBVIOUS
  <2>1. PICK i \in B : \A j \in B : i <= j
    <3>1. B \in SUBSET (1 .. c) /\ c \in Nat
      BY <1>1, <1>b
    <3> QED
      BY <3>1, LeastNumber
  <2> PICK o : o = c - i
    OBVIOUS
  <2>2. i \in 1 .. c /\ o \in 0 .. L + b /\ h[o] # g[o]
    BY <1>1, <1>b
  <2>3. CASE o + b > L
    BY <1>3, <2>2, <2>3 DEF ChunkStep
  <2>4. CASE ~ (o + b > L)
    <3>1. i - b \in 1 .. c /\ c - (i - b) = o + b /\ ~ (i <= i - b)
      BY <1>1, <2>2, <2>4
    <3>2. i - b \notin B
      BY <2>1, <3>1
    <3>3. h[o + b] = g[o + b]
      BY <1>b, <3>1, <3>2
    <3> QED
      BY <1>3, <2>2, <2>4, <3>3 DEF ChunkStep
  <2> QED
    BY <2>3, <2>4
<1>5. h[0] = g[0]
  <2>1. c \in 1 .. c /\ c - c = 0
    BY <1>1
  <2>2. c \notin B
    BY <1>4
  <2> QED
    BY <1>b, <2>1, <2>2
<1>6. g[0] = SubSeq(all, 1, L)
  <2>1. 0 \in 0 .. L + b /\ 0 + 1 = 1
    BY <1>1
  <2> QED
    BY <1>g, <2>1 DEF FromRowOn, Chunk
<1> QED
  BY <1>5, <1>6, SubSeqFull

\* The rows of a list, as they are exported.
Rows(list) == [k \in 1 .. Len(list) |-> ExportRow(list[k])]

LEMMA RowsType ==
    ASSUME NEW S, NEW list \in Seq(S)
    PROVE  /\ Len(list) \in Nat /\ DOMAIN list = 1 .. Len(list)
           /\ Rows(list) \in Seq({ ExportRow(d) : d \in S }) /\ Len(Rows(list)) = Len(list)
           /\ \A k \in 1 .. Len(list) : list[k] \in S /\ Rows(list)[k] = ExportRow(list[k])
<1> PICK L, R : L = Len(list) /\ R = { ExportRow(d) : d \in S }
  OBVIOUS
<1>1. L \in Nat /\ DOMAIN list = 1 .. L /\ \A k \in 1 .. L : list[k] \in S
  BY LenProperties, ElementOfSeq
<1>2. Rows(list) \in [1 .. L -> R]
  BY <1>1 DEF Rows
<1>3. Rows(list) \in Seq(R) /\ Len(Rows(list)) = L
  BY <1>1, <1>2
<1>4. \A k \in 1 .. L : Rows(list)[k] = ExportRow(list[k])
  BY DEF Rows
<1> QED
  BY <1>1, <1>3, <1>4

\* Exporting a part of a list gives that part of the export.
LEMMA RowsOfPart ==
    ASSUME NEW S, NEW list \in Seq(S), NEW a \in Nat, NEW e \in Nat, e <= Len(list)
    PROVE  /\ Rows(SubSeq(list, a + 1, e)) = SubSeq(Rows(list), a + 1, e)
           /\ Len(SubSeq(list, a + 1, e)) = IF a < e THEN e - a ELSE 0
<1> PICK L, all, R, n : /\ L = Len(list) /\ all = Rows(list) /\ R = { ExportRow(d) : d \in S }
                        /\ n = IF a < e THEN e - a ELSE 0
  OBVIOUS
<1>1. /\ L \in Nat /\ all \in Seq(R) /\ Len(all) = L
      /\ \A k \in 1 .. L : list[k] \in S /\ all[k] = ExportRow(list[k])
  BY RowsType
<1>2. \A i \in a + 1 .. e : i \in 1 .. L
  BY <1>1
<1>3. (\A i \in a + 1 .. e : list[i] \in S) /\ (\A i \in a + 1 .. e : all[i] \in R)
  BY <1>1, <1>2, ElementOfSeq
<1> PICK m : m = a + 1
  OBVIOUS
<1>4. m \in Int /\ e \in Int /\ (IF m <= e THEN e - m + 1 ELSE 0) = n /\ n \in Nat
      /\ \A i \in 1 .. n : i \in 1 .. e - m + 1 /\ m + i - 1 \in m .. e
  OBVIOUS
<1>5. /\ SubSeq(list, m, e) \in Seq(S) /\ Len(SubSeq(list, m, e)) = n
      /\ \A i \in 1 .. n : SubSeq(list, m, e)[i] = list[m + i - 1]
  BY <1>3, <1>4, SubSeqProperties
<1>6. /\ SubSeq(all, m, e) \in Seq(R) /\ Len(SubSeq(all, m, e)) = n
      /\ \A i \in 1 .. n : SubSeq(all, m, e)[i] = all[m + i - 1]
  BY <1>3, <1>4, SubSeqProperties
<1>7. /\ Rows(SubSeq(list, m, e)) \in Seq(R) /\ Len(Rows(SubSeq(list, m, e))) = n
      /\ \A i \in 1 .. n : Rows(SubSeq(list, m, e))[i] = ExportRow(SubSeq(list, m, e)[i])
  BY <1>5, RowsType
<1>8. \A i \in 1 .. n : Rows(SubSeq(list, m, e))[i] = SubSeq(all, m, e)[i]
  <2> SUFFICES ASSUME NEW i \in 1 .. n
               PROVE  Rows(SubSeq(list, m, e))[i] = SubSeq(all, m, e)[i]
    OBVIOUS
  <2>1. m + i - 1 \in 1 .. L
    BY <1>2, <1>4
  <2> QED
    BY <1>1, <1>5, <1>6, <1>7, <2>1
<1>9. Rows(SubSeq(list, m, e)) = SubSeq(all, m, e)
  BY <1>6, <1>7, <1>8, SeqEqual
<1> QED
  BY <1>5, <1>9

\* Read batch by batch, the export has every row of the list.
LEMMA ExportIs ==
    ASSUME NEW f, NEW S, Pipeline(f) \in Seq(S), NEW b \in Nat \ {0}
    PROVE  PipelineExport(f, b) = Rows(Pipeline(f))
<1> DEFINE list == Pipeline(f)
           Step(h, offset) ==
              LET rest == SubSeq(list, offset + 1, Min2(offset + b, Len(list))) IN
              [k \in DOMAIN rest |-> ExportRow(rest[k])]
                \o IF Len(rest) < b THEN <<>> ELSE h[offset + b]
           D(h) == [offset \in 0 .. Len(list) + b |-> Step(h, offset)]
           it == CHOOSE h : h = D(h)
<1>1. PipelineExport(f, b) = it[0]
  BY DEF PipelineExport
<1> HIDE DEF it, D, Step, list
<1>2. PICK q, all, L, R : /\ q = list /\ all = Rows(q) /\ L = Len(q)
                          /\ R = { ExportRow(d) : d \in S }
  OBVIOUS
<1>3. /\ q \in Seq(S) /\ L \in Nat /\ all \in Seq(R) /\ L = Len(all)
  BY <1>2, RowsType DEF list
<1>4. ASSUME NEW h, NEW o \in 0 .. L + b
      PROVE  Step(h, o) = ChunkStep(h, all, L, b, o)
  <2>e. PICK e, rest : e = Min2(o + b, L) /\ rest = SubSeq(q, o + 1, e)
    OBVIOUS
  <2>1. o \in Nat /\ e \in Nat /\ e <= L /\ o + b \in Nat
    BY <1>3, <2>e DEF Min2
  <2>2. Rows(rest) = SubSeq(all, o + 1, e) /\ Len(rest) = IF o < e THEN e - o ELSE 0
    <3>1. e <= Len(q)
      BY <1>2, <2>1
    <3>2. /\ Rows(SubSeq(q, o + 1, e)) = SubSeq(Rows(q), o + 1, e)
          /\ Len(SubSeq(q, o + 1, e)) = IF o < e THEN e - o ELSE 0
      BY <1>3, <2>1, <3>1, RowsOfPart
    <3> QED
      BY <1>2, <2>e, <3>2
  <2>3. \A i \in o + 1 .. e : q[i] \in S /\ all[i] \in R
    <3>1. \A i \in o + 1 .. e : i \in 1 .. Len(q) /\ i \in 1 .. Len(all)
      BY <1>2, <1>3, <2>1
    <3> QED
      BY <1>3, <3>1, ElementOfSeq
  <2>4. rest \in Seq(S) /\ SubSeq(all, o + 1, e) \in Seq(R)
    BY <2>1, <2>3, <2>e, SubSeqProperties
  <2>5. [k \in DOMAIN rest |-> ExportRow(rest[k])] = SubSeq(all, o + 1, e)
    <3>1. DOMAIN rest = 1 .. Len(rest)
      BY <2>4, LenProperties
    <3> QED
      BY <2>2, <3>1 DEF Rows
  <2>8. Step(h, o) = [k \in DOMAIN rest |-> ExportRow(rest[k])]
                       \o IF Len(rest) < b THEN <<>> ELSE h[o + b]
    BY <1>2, <2>e DEF Step
  <2>6. CASE o + b > L
    <3>1. e = L /\ Len(rest) < b
      BY <1>3, <2>1, <2>2, <2>6, <2>e DEF Min2
    <3>2. SubSeq(all, o + 1, e) \o <<>> = SubSeq(all, o + 1, e)
      BY <2>4, ConcatEmptySeq
    <3>3. ChunkStep(h, all, L, b, o) = SubSeq(all, o + 1, L)
      BY <2>6 DEF ChunkStep, Chunk
    <3> QED
      BY <2>5, <2>8, <2>e, <3>1, <3>2, <3>3
  <2>7. CASE ~ (o + b > L)
    <3>1. e = o + b /\ ~ (Len(rest) < b)
      <4>1. e = o + b
        <5>1. o + b < L \/ o + b = L
          BY <1>3, <2>1, <2>7
        <5>2. Min2(o + b, L) = o + b
          BY <5>1 DEF Min2
        <5> QED
          BY <2>e, <5>2
      <4>2. o < e /\ e - o = b
        BY <2>1, <4>1
      <4> QED
        BY <2>2, <4>1, <4>2
    <3>2. ChunkStep(h, all, L, b, o) = SubSeq(all, o + 1, o + b) \o h[o + b]
      BY <2>7 DEF ChunkStep, Chunk
    <3> QED
      BY <2>5, <2>8, <2>e, <3>1, <3>2
  <2>9. o + b > L \/ ~ (o + b > L)
    OBVIOUS
  <2> QED
    BY <2>6, <2>7, <2>8, <2>9
<1>5. ASSUME NEW h PROVE h = D(h) <=> Chunks(h, all, L, b)
  <2>1. D(h) = [o \in 0 .. L + b |-> ChunkStep(h, all, L, b, o)]
    BY <1>2, <1>4 DEF D
  <2> QED
    BY <2>1 DEF Chunks
<1>6. PICK g : g = FromRowOn(all, L, b)
  OBVIOUS
<1>7. g = D(g)
  BY <1>3, <1>5, <1>6, ChunksExist
<1>8. it = D(it)
  BY <1>7, Zenon DEF it
<1>9. Chunks(it, all, L, b)
  BY <1>5, <1>8
<1>10. it[0] = all
  BY <1>3, <1>9, ChunksJoin
<1> QED
  BY <1>1, <1>2, <1>10 DEF list

------------------------------------------------------------------------------
(* The lists and their exports *)

ProspectKey(p) == <<prospects[p].on, Instant(p, Prospects)>>

LEMMA TupleOfTwo == \A a, b \in Int : <<a, b>> \in [1 .. 2 -> Int]
<1> TAKE a, b \in Int
<1> PICK t : t = <<a, b>>
  OBVIOUS
<1>1. DOMAIN t = 1 .. 2 /\ t = [k \in 1 .. 2 |-> t[k]]
  OBVIOUS
<1>2. \A k \in 1 .. 2 : k = 1 \/ k = 2
  OBVIOUS
<1>3. t[1] \in Int /\ t[2] \in Int
  OBVIOUS
<1>4. \A k \in 1 .. 2 : t[k] \in Int
  BY <1>2, <1>3
<1> QED
  BY <1>1, <1>4

ProspectRows(scope) == InOrder([p \in Planned(scope) |-> ProspectKey(p)])

LEMMA ProspectsEnumerate ==
    ASSUME DeskInv, NEW scope
    PROVE  Enumerates(ProspectRows(scope), Planned(scope))
<1> PICK S, key : S = Planned(scope) /\ key = [p \in S |-> ProspectKey(p)]
  OBVIOUS
<1>1. S \in SUBSET Prospects /\ IsFiniteSet(S) /\ \A p \in S : prospects[p].on \in Int
  <2>1. S \in SUBSET Prospects
    BY DEF Planned
  <2>2. IsFiniteSet(S) /\ \A p \in S : prospects[p].on \in Nat
    BY PlannedFacts
  <2> QED
    BY <2>1, <2>2
<1>2. ASSUME NEW p \in S PROVE ProspectKey(p) \in [1 .. 2 -> Int]
  <2>1. Instant(p, Prospects) \in Int
    BY <1>1, DeskAssumption, Instants
  <2> QED
    BY <1>1, <2>1, TupleOfTwo DEF ProspectKey
<1>3. ASSUME NEW p \in S, NEW r \in S, ProspectKey(p) = ProspectKey(r) PROVE p = r
  <2>1. Instant(p, Prospects) = Instant(r, Prospects)
    BY <1>3 DEF ProspectKey
  <2> QED
    BY <1>1, <2>1, DeskAssumption, Instants
<1>4. Keyed(key, 2)
  BY <1>2, <1>3 DEF Keyed
<1>5. Enumerates(InOrder(key), S)
  BY <1>1, <1>4, InOrderEnumerates
<1> QED
  BY <1>5 DEF ProspectRows

\* Page by page the prospects are those of one page that holds them all.
LEMMA ProspectsPaged ==
    ASSUME DeskInv, NEW scope, NEW size \in Nat \ {0}
    PROVE  FlattenSeq([k \in 1 .. TotalPages(NurtureSummary(scope).count, size) |->
                          ListProspects(scope, k, size).items])
             = ListProspects(scope, 1, NurtureSummary(scope).count + 1).items
<1> PICK S, rows, n : /\ S = Planned(scope) /\ rows = ProspectRows(scope)
                      /\ n = NurtureSummary(scope).count
  OBVIOUS
<1>1. rows \in Seq(S) /\ Len(rows) = Cardinality(S) /\ IsFiniteSet(S)
  BY ProspectsEnumerate, EnumeratesSeq, PlannedFacts
<1>2. n = Len(rows) /\ n \in Nat
  BY <1>1, FS_CardinalityType DEF NurtureSummary
<1>3. \A page, some : ListProspects(scope, page, some) = FromWindow(rows, page, some)
  BY DEF ListProspects, ProspectRows, ProspectKey
<1>4. PagesWhole(rows, n, size)
  BY <1>1, <1>2, PagesAreWhole
<1>5. FlattenSeq([k \in 1 .. TotalPages(n, size) |-> FromWindow(rows, k, size).items]) = rows
  BY <1>4 DEF PagesWhole
<1>6. FromWindow(rows, 1, n + 1).items = rows
  <2>w. PICK one, a, many : one = 1 /\ a = 0 /\ many = n + 1
    OBVIOUS
  <2>1. one \in Nat \ {0} /\ many \in Nat \ {0} /\ a \in Nat /\ Before(one, many, a)
    BY <1>2, <2>w DEF Before
  <2>2. FromWindow(rows, one, many).items = SubSeq(rows, a + 1, Min2(a + many, n))
    BY <1>1, <1>2, <2>1, PageItems
  <2>3. a + 1 = 1 /\ Min2(a + many, n) = n
    BY <1>2, <2>w DEF Min2
  <2> QED
    BY <1>1, <1>2, <2>2, <2>3, <2>w, SubSeqFull
<1> QED
  BY <1>3, <1>5, <1>6

LEMMA ExportRowTells ==
    ASSUME NEW d
    PROVE  /\ ExportRow(d).deal = d /\ ExportRow(d).status = deals[d].status
           /\ ExportRow(d).idle = IdleDays(d)
BY DEF ExportRow

\* The stale deals of an export are those of the bell.
LEMMA StaleInExport ==
    ASSUME DeskInv, NEW scope, NEW list,
           Enumerates(list, { d \in Deals : In(d, scope) })
    PROVE  Cardinality({ row \in Range(Rows(list)) :
                            row.status = "open" /\ row.idle > StaleAfter })
             = StaleOpenDealsCount(scope)
<1> PICK S, X, Y, b :
      /\ S = { d \in Deals : In(d, scope) }
      /\ X = { row \in Range(Rows(list)) : row.status = "open" /\ row.idle > StaleAfter }
      /\ Y = { d \in OpenDeals(scope) : IdleDays(d) > StaleAfter }
      /\ b = [d \in Y |-> ExportRow(d)]
  OBVIOUS
<1>1. IsFiniteSet(S) /\ IsFiniteSet(Y)
  <2>1. IsFiniteSet(OpenDeals(scope))
    BY DealSets
  <2> QED
    BY <2>1, DeskAssumption, FS_Subset
<1>2. list \in Seq(S) /\ Len(list) = Cardinality(S)
  BY <1>1, EnumeratesSeq
<1>3. /\ DOMAIN Rows(list) = 1 .. Len(list)
      /\ \A k \in 1 .. Len(list) : list[k] \in S /\ Rows(list)[k] = ExportRow(list[k])
  BY <1>2, RowsType DEF Rows
<1>4. \A d \in S : \E k \in 1 .. Len(list) : list[k] = d
  BY <1>2 DEF Enumerates
<1>5. Range(Rows(list)) = { ExportRow(d) : d \in S }
  <2>1. \A k \in 1 .. Len(list) : Rows(list)[k] \in { ExportRow(d) : d \in S }
    BY <1>3
  <2>2. \A d \in S : \E k \in DOMAIN Rows(list) : Rows(list)[k] = ExportRow(d)
    BY <1>3, <1>4
  <2> QED
    BY <1>3, <2>1, <2>2 DEF Range
<1>6. \A d : d \in Y <=> d \in S /\ deals[d].status = "open" /\ IdleDays(d) > StaleAfter
  BY DEF OpenDeals, WithStatus
<1>7. \A d \in Y : b[d] \in X
  BY <1>5, <1>6, ExportRowTells
<1>8. \A row \in X : \E d \in Y : b[d] = row
  <2> SUFFICES ASSUME NEW row \in X PROVE \E d \in Y : b[d] = row
    OBVIOUS
  <2>1. PICK d \in S : row = ExportRow(d)
    BY <1>5
  <2>2. d \in Y
    BY <1>6, <2>1, ExportRowTells
  <2> QED
    BY <2>1, <2>2
<1>9. \A d, e \in Y : b[d] = b[e] => d = e
  BY ExportRowTells
<1>10. b \in Bijection(Y, X)
  <2>1. b \in [Y -> X]
    BY <1>7
  <2>2. b \in Injection(Y, X)
    BY <1>9, <2>1 DEF Injection, IsInjective
  <2>3. b \in Surjection(Y, X)
    BY <1>8, <2>1 DEF Surjection
  <2> QED
    BY <2>2, <2>3 DEF Bijection
<1>11. Cardinality(X) = Cardinality(Y)
  BY <1>1, <1>10, FS_Bijection DEF ExistsBijection
<1>12. Cardinality(Y) = StaleOpenDealsCount(scope)
  BY StaleDeals DEF Cold
<1> QED
  BY <1>11, <1>12

LEMMA ListsAreRight ==
    ASSUME DeskInv, NEW scope
    PROVE  ListsAreWhole(scope)
<1> PICK f, rows, S : /\ f = ListFilter(scope, "all", "none") /\ rows = Pipeline(f)
                      /\ S = { d \in Deals : In(d, scope) }
  OBVIOUS
<1>1. Enumerates(rows, S)
  BY PipelineEnumerates, TabsListed
<1>2. IsFiniteSet(S)
  BY DeskAssumption, FS_Subset
<1>3. rows \in Seq(S) /\ Len(rows) = Cardinality(S)
  BY <1>1, <1>2, EnumeratesSeq
<1>4. StatusCounts(scope).all = Len(rows)
  BY <1>3, FourStatuses DEF StatusCounts
<1>5. [k \in DOMAIN rows |-> ExportRow(rows[k])] = Rows(rows)
  BY <1>3, LenProperties DEF Rows
<1>6. ASSUME NEW size \in PageSizes
      PROVE  /\ FlattenSeq([p \in 1 .. TotalPages(StatusCounts(scope).all, size) |->
                               ListDeals(f, p, size).items]) = rows
             /\ \A p \in 1 .. TotalPages(StatusCounts(scope).all, size) :
                   ListDeals(f, p, size).more <=> p < TotalPages(StatusCounts(scope).all, size)
             /\ PipelineExport(f, size) = [k \in DOMAIN rows |-> ExportRow(rows[k])]
             /\ Cardinality({ row \in Range(PipelineExport(f, size)) :
                                 row.status = "open" /\ row.idle > StaleAfter })
                  = StaleOpenDealsCount(scope)
             /\ FlattenSeq([k \in 1 .. TotalPages(NurtureSummary(scope).count, size) |->
                               ListProspects(scope, k, size).items])
                  = ListProspects(scope, 1, NurtureSummary(scope).count + 1).items
  <2>1. size \in Nat \ {0}
    BY PagesAssumption
  <2>2. PagesWhole(rows, StatusCounts(scope).all, size)
    BY <1>3, <1>4, <2>1, PagesAreWhole
  <2>3. \A page : ListDeals(f, page, size) = FromWindow(rows, page, size)
    BY DEF ListDeals
  <2>4. /\ FlattenSeq([p \in 1 .. TotalPages(StatusCounts(scope).all, size) |->
                          ListDeals(f, p, size).items]) = rows
        /\ \A p \in 1 .. TotalPages(StatusCounts(scope).all, size) :
              ListDeals(f, p, size).more <=> p < TotalPages(StatusCounts(scope).all, size)
    BY <2>2, <2>3 DEF PagesWhole
  <2>5. PipelineExport(f, size) = Rows(rows)
    BY <1>3, <2>1, ExportIs
  <2>6. Cardinality({ row \in Range(Rows(rows)) :
                         row.status = "open" /\ row.idle > StaleAfter })
          = StaleOpenDealsCount(scope)
    BY <1>1, StaleInExport
  <2> QED
    BY <1>5, <2>1, <2>4, <2>5, <2>6, ProspectsPaged
<1> QED
  BY <1>6 DEF ListsAreWhole, PagedWhole

------------------------------------------------------------------------------
(* The desk agrees *)

LEMMA DeskInvIsEnough == DeskInv => DeskAgrees
<1> SUFFICES ASSUME DeskInv PROVE DeskAgrees
  OBVIOUS
<1>1. \A scope \in Scopes : /\ \A currency \in Currencies : DashboardAgrees(scope, currency)
                            /\ CountsAgree(scope) /\ ListsAreWhole(scope)
                            /\ BellsAgree(scope)
  BY DashboardIsRight, CountsAreRight, ListsAreRight, BellsAreRight
<1> QED
  BY <1>1, SidebarIsRight, CompaniesAreRight DEF DeskAgrees

\* Whatever is done to the deals and the prospects, on whatever day, the figures,
\* counts, lists, pages, exports and bells that the desk works out separately
\* agree: for any numbers of deals, prospects, owners and customers, any values,
\* rates, probabilities and calendar, and pages of any size.
THEOREM DeskAlwaysAgrees == DeskSpec => []DeskAgrees
<1>1. DeskSpec => []DeskInv
  BY DeskInvariant
<1>2. DeskInv => DeskAgrees
  BY DeskInvIsEnough
<1> QED
  BY <1>1, <1>2, PTL
===============================================================================
