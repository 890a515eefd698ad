----------------------------- MODULE DealPipeline -----------------------------
(***************************************************************************)
(* The Sales Desk deal service under concurrent requests.  Unlike the      *)
(* invoice service it takes no row lock (update() apart): a request loads  *)
(* the deal, validates that copy, and later sends an UPDATE or DELETE that *)
(* applies to whatever is committed by then.  Only the columns in which    *)
(* the request's deal differs from its copy are written, the version with  *)
(* the value the copy had plus one, and what stands in the way of a stale  *)
(* write are the CHECK constraints of `deals` and the foreign key of       *)
(* `onboardings`.  The UPDATE takes the row's lock and the commit follows  *)
(* in the same request, so the two are one action here; a request may also *)
(* fail at any point before, and leave nothing behind.                     *)
(***************************************************************************)
EXTENDS Integers

CONSTANTS
    Deals,
    Workers,       \* requests in flight
    Values,        \* commercial fields, as one value
    LastStage,     \* stages are 1 .. LastStage (four in the code)
    MaxVersion     \* bound

ASSUME BoundAssumption == LastStage \in Nat \ {0} /\ MaxVersion \in Nat \ {0}

VARIABLES
    deal,          \* the table `deals`, committed
    onboarded,     \* the deals that have a row in `onboardings`
    request        \* per worker: its operation and the deal as it loaded it

vars == <<deal, onboarded, request>>

Closed == {"won", "lost"}

DealStatus == {"open", "parked"} \cup Closed

Stages == 1 .. LastStage

NoStage == 0

(* `resume` stands for parked_until and resume_stage, always set and cleared *)
(* together; `evidence` for close_reason, close_note and closed_at: which    *)
(* result they document.                                                     *)
Row == [status: DealStatus \cup {"absent", "deleted"}, stage: Stages \cup {NoStage},
        resume: Stages \cup {NoStage}, evidence: Closed \cup {"none"},
        version: Nat, value: Values]

Exists(row) == row.status \in DealStatus

Absent(value) == [status |-> "absent", stage |-> NoStage, resume |-> NoStage,
                  evidence |-> "none", version |-> 0, value |-> value]

Opened(value) == [status |-> "open", stage |-> 1, resume |-> NoStage,
                  evidence |-> "none", version |-> 1, value |-> value]

NoRequest == [op |-> "none"]

Init ==
    /\ \E value \in Values : deal = [d \in Deals |-> Absent(value)]
    /\ onboarded = {}
    /\ request = [w \in Workers |-> NoRequest]

------------------------------------------------------------------------------
\* What each operation accepts, and makes of the deal it loaded.
CanMove(from, to) ==
    \/ from = "open" /\ to \in {"won", "lost", "parked"}
    \/ from = "parked" /\ to = "open"

CanDo(op, row) ==
    \/ op = "advance" /\ row.status = "open" /\ row.stage < LastStage
    \/ op = "park"    /\ CanMove(row.status, "parked")
    \/ op = "resume"  /\ CanMove(row.status, "open")
    \/ op = "won"     /\ CanMove(row.status, "won")
    \/ op = "lost"    /\ CanMove(row.status, "lost")
    \/ op \in {"update", "delete"} /\ row.status \notin Closed

Advanced(row) == [row EXCEPT !.stage = row.stage + 1, !.version = row.version + 1]

Parked(row) == [row EXCEPT !.status = "parked", !.resume = row.stage,
                           !.version = row.version + 1]

Resumed(row) ==
    [row EXCEPT !.status = "open", !.resume = NoStage,
                !.stage = IF row.resume = NoStage THEN row.stage ELSE row.resume,
                !.version = row.version + 1]

ClosedAs(row, result) ==
    [row EXCEPT !.status = result, !.evidence = result, !.version = row.version + 1]

Updated(row, value) == [row EXCEPT !.value = value, !.version = row.version + 1]

\* What the UPDATE leaves of a column.
Column(committed, copy, new) == IF new = copy THEN committed ELSE new

Overlay(row, copy, new) ==
    [status   |-> Column(row.status, copy.status, new.status),
     stage    |-> Column(row.stage, copy.stage, new.stage),
     resume   |-> Column(row.resume, copy.resume, new.resume),
     evidence |-> Column(row.evidence, copy.evidence, new.evidence),
     version  |-> new.version,
     value    |-> Column(row.value, copy.value, new.value)]

\* The CHECK constraints: parking fields present exactly on parked deals,
\* evidence exactly on closed ones.
CheckedSlip(row) ==        \* as if ck_deals_close_evidence were missing
    row.status = "parked" <=> row.resume # NoStage

Checked(row) ==
    /\ row.status = "parked" <=> row.resume # NoStage
    /\ row.status \in Closed <=> row.evidence # "none"

------------------------------------------------------------------------------
Create(d, value) ==
    /\ deal[d].status = "absent"
    /\ deal' = [deal EXCEPT ![d] = Opened(value)]
    /\ UNCHANGED <<onboarded, request>>

\* The request loads the deal and validates what it loaded.
Load(w, op, d, expected) ==
    /\ request[w] = NoRequest
    /\ Exists(deal[d])
    /\ CanDo(op, deal[d])
    /\ deal[d].version < MaxVersion
    /\ request' = [request EXCEPT ![w] = [op |-> op, deal |-> d, copy |-> deal[d],
                                          expected |-> expected]]
    /\ UNCHANGED <<deal, onboarded>>

\* The request's UPDATE and commit.
Write(w, new) == LET d == request[w].deal IN
    /\ Exists(deal[d])
    /\ deal' = [deal EXCEPT ![d] = Overlay(@, request[w].copy, new)]
    /\ Checked(deal'[d])
    /\ request' = [request EXCEPT ![w] = NoRequest]

Advance(w) ==
    /\ request[w].op = "advance"
    /\ Write(w, Advanced(request[w].copy))
    /\ UNCHANGED onboarded

Park(w) ==
    /\ request[w].op = "park"
    /\ Write(w, Parked(request[w].copy))
    /\ UNCHANGED onboarded

Resume(w) ==
    /\ request[w].op = "resume"
    /\ Write(w, Resumed(request[w].copy))
    /\ UNCHANGED onboarded

CloseLost(w) ==
    /\ request[w].op = "lost"
    /\ Write(w, ClosedAs(request[w].copy, "lost"))
    /\ UNCHANGED onboarded

CloseWonSlip(w) ==         \* as if the checklist were inserted by a later request
    /\ request[w].op = "won"
    /\ Write(w, ClosedAs(request[w].copy, "won"))
    /\ UNCHANGED onboarded

\* Winning inserts the onboarding checklist in the same transaction, and is
\* refused when the deal has one.
CloseWon(w) ==
    /\ request[w].op = "won"
    /\ request[w].deal \notin onboarded
    /\ Write(w, ClosedAs(request[w].copy, "won"))
    /\ onboarded' = onboarded \cup {request[w].deal}

\* assert_version: the row is locked and its version compared with the one the
\* client sent; the copy the request loaded before is what it then edits.
Update(w, value) ==
    /\ request[w].op = "update"
    /\ deal[request[w].deal].version = request[w].expected
    /\ Write(w, Updated(request[w].copy, value))
    /\ UNCHANGED onboarded

\* The DELETE does not look at the row again (one that is gone is only warned
\* about); the foreign key keeps a deal that has a checklist.
Delete(w) ==
    /\ request[w].op = "delete"
    /\ request[w].deal \notin onboarded
    /\ deal' = [deal EXCEPT ![request[w].deal].status = "deleted"]
    /\ request' = [request EXCEPT ![w] = NoRequest]
    /\ UNCHANGED onboarded

\* The request is refused, or fails, and is rolled back.
Fail(w) ==
    /\ request[w] # NoRequest
    /\ request' = [request EXCEPT ![w] = NoRequest]
    /\ UNCHANGED <<deal, onboarded>>

Next ==
    \/ \E d \in Deals, value \in Values : Create(d, value)
    \/ \E w \in Workers :
          \/ \E op \in {"advance", "park", "resume", "won", "lost", "delete"},
                d \in Deals : Load(w, op, d, NoStage)
          \/ \E d \in Deals : \E version \in 1 .. deal[d].version :
                Load(w, "update", d, version)
          \/ Advance(w) \/ Park(w) \/ Resume(w) \/ CloseLost(w) \/ CloseWon(w)
          \/ \E value \in Values : Update(w, value)
          \/ Delete(w)
          \/ Fail(w)

Spec == Init /\ [][Next]_vars

------------------------------------------------------------------------------
Requests ==
    [op: {"advance", "park", "resume", "won", "lost", "update", "delete"},
     deal: Deals, copy: Row, expected: Nat]

TypeOK ==
    /\ deal \in [Deals -> Row]
    /\ onboarded \subseteq Deals
    /\ request \in [Workers -> Requests \cup {NoRequest}]

\* A checklist and the won deal it delivers come into being together: however
\* requests race, a won deal has its checklist, and a deal with a checklist is
\* never open, parked or gone.
OnboardingFollowsWon ==
    \A d \in Deals :
        /\ deal[d].status = "won" => d \in onboarded
        /\ d \in onboarded => deal[d].status \in Closed

\* Without row locks, the CHECK constraints alone keep a stale park or resume
\* from reopening a closed deal; what may still happen to one is to be closed
\* again, or, if lost and never onboarded, deleted.
ClosedStaysClosed ==
    [][\A d \in Deals :
          deal[d].status \in Closed =>
             \/ deal'[d].status \in Closed
             \/ deal'[d].status = "deleted" /\ d \notin onboarded]_vars
================================================================================
