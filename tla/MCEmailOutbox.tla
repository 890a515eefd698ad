----------------------------- MODULE MCEmailOutbox -----------------------------
(* EmailOutbox on small instances. *)
EXTENDS EmailOutbox

\* A start with these rows committed and nobody at work; no answer was lost, and
\* `died` crashes and `used` requeues of the bounds are spent.
Start(rows, died, used) ==
    /\ queue = rows
    /\ lock = [m \in Messages |-> Nobody]
    /\ worker = [w \in Workers |-> Idle]
    /\ delivered = [m \in Messages |-> IF rows[m].status = "sent" THEN 1 ELSE 0]
    /\ tries = [m \in Messages |-> rows[m].attempts]
    /\ crashes = died
    /\ requeues = used

\* Every message committed, and the request that queued it died before its own
\* attempt.
AllQueued == [m \in Messages |-> [status |-> "pending", attempts |-> 0]]

\* The oldest mails, a batch of them, have failed once, and more are waiting.
Backlog == [m \in Messages |-> IF m <= Limit
                               THEN [status |-> "failed", attempts |-> 1]
                               ELSE [status |-> "pending", attempts |-> 0]]

\* The oldest mail went out long ago, and the others are still to be queued.
OldestSent == [m \in Messages |-> IF m = 1 THEN [status |-> "sent", attempts |-> 1]
                                  ELSE NotQueued]

QueuedSpec == Start(AllQueued, MaxCrashes, MaxRequeues) /\ [][Next]_vars

\* Both starts: requests that come while drains run, with crashes and requeues;
\* and a queue longer than a batch, without.
MixedSpec ==
    /\ Start(OldestSent, 0, 0) \/ Start(Backlog, MaxCrashes, MaxRequeues)
    /\ [][Next]_vars
    /\ Fairness
================================================================================
