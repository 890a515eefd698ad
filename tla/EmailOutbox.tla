------------------------------ MODULE EmailOutbox ------------------------------
(***************************************************************************)
(* The transactional email outbox.  A send request commits a row of        *)
(* email_outbox together with its document's status change, then tries to  *)
(* deliver it at once (deliver_now, no lock); the scheduler's drain picks  *)
(* the oldest queued rows with FOR UPDATE SKIP LOCKED and retries each; an *)
(* operator requeues dead letters.  Sessions keep the columns they loaded  *)
(* (expire_on_commit is off), every attempt commits, the first commit of a *)
(* drain releases all the locks of its batch, and an UPDATE writes only    *)
(* the columns that differ from what the session had loaded.               *)
(*                                                                         *)
(* Message m is the m-th row by created_at.  The mail provider may take a  *)
(* mail and have its answer lost; a worker may die between any two steps.  *)
(***************************************************************************)
EXTENDS Integers, FiniteSets

CONSTANTS
    MaxMessages,   \* bound: send requests that commit
    MaxAttempts,   \* MAX_DELIVERY_ATTEMPTS
    Limit,         \* rows per drain
    Senders,       \* send requests
    Drainers,      \* drain calls: the schedule's, and curl's retries of one
    Nobody,        \* holder of a lock that is free
    Answers,       \* what the provider may do with an attempt
    MaxCrashes,    \* bound
    MaxRequeues    \* bound

ASSUME BoundAssumption ==
    /\ MaxMessages \in Nat \ {0} /\ MaxAttempts \in Nat \ {0} /\ Limit \in Nat \ {0}
    /\ MaxCrashes \in Nat /\ MaxRequeues \in Nat
ASSUME NobodyAssumption == Nobody \notin Senders \cup Drainers
ASSUME AnswerAssumption == Answers \subseteq {"accepted", "refused", "lost"}

Messages == 1 .. MaxMessages

Workers == Senders \cup Drainers

Queued == {"pending", "failed"}

VARIABLES
    queue,         \* the table email_outbox: status and attempts
    lock,          \* per row, the drain that holds its row lock
    worker,        \* per worker: its stage, the rows it still has to attempt as
                   \* it loaded them, and the answer to its last attempt
    delivered,     \* per message, how often the provider took it (2: or more)
    tries,         \* per message, the attempts really made (up to MaxAttempts)
    crashes, requeues

vars == <<queue, lock, worker, delivered, tries, crashes, requeues>>

NotQueued == [status |-> "none", attempts |-> 0]

Session(stage, todo, answer) == [stage |-> stage, todo |-> todo, answer |-> answer]

Idle == Session("idle", <<>>, "none")

Init ==
    /\ queue = [m \in Messages |-> NotQueued]
    /\ lock = [m \in Messages |-> Nobody]
    /\ worker = [w \in Workers |-> Idle]
    /\ delivered = [m \in Messages |-> 0]
    /\ tries = [m \in Messages |-> 0]
    /\ crashes = 0
    /\ requeues = 0

------------------------------------------------------------------------------
IsOldest(m, ms) == m \in ms /\ \A k \in ms : m <= k

UpTo(n, bound) == IF n < bound THEN n ELSE bound

\* The `n` oldest of a set of rows.
OldestOf(ms, n) == {m \in ms : Cardinality({k \in ms : k < m}) < n}

\* Row m as a session loads it now.
Only(m) == [k \in {m} |-> queue[k]]

\* Slips say what a plausible mistake in the code would do; this one is a flush
\* where the commit should be.
UnlockedSlip(w) == lock

Unlocked(w) == [m \in Messages |-> IF lock[m] = w THEN Nobody ELSE lock[m]]

\* The locked phase of a send: its commit makes the row durable.
Enqueue(w) ==
    /\ worker[w].stage = "idle"
    /\ \E m \in Messages :
          /\ IsOldest(m, {k \in Messages : queue[k] = NotQueued})
          /\ queue' = [queue EXCEPT ![m] = [status |-> "pending", attempts |-> 0]]
          /\ worker' = [worker EXCEPT ![w] = Session("queued", Only(m)', "none")]
    /\ UNCHANGED <<lock, delivered, tries, crashes, requeues>>

\* deliver_now: the row is read again, without a lock.
DeliverNow(w) ==
    /\ worker[w].stage = "queued"
    /\ \E m \in DOMAIN worker[w].todo :
          worker' = [worker EXCEPT ![w] =
                       IF queue[m].status = "sent" THEN Idle
                       ELSE Session("sending", Only(m), "none")]
    /\ UNCHANGED <<queue, lock, delivered, tries, crashes, requeues>>

\* drain: lock and load the oldest queued rows that are not locked.
Drain(w) ==
    /\ worker[w].stage = "idle"
    /\ LET batch == OldestOf({m \in Messages : queue[m].status \in Queued
                                               /\ lock[m] = Nobody}, Limit)
       IN  /\ batch # {}
           /\ lock' = [m \in Messages |-> IF m \in batch THEN w ELSE lock[m]]
           /\ worker' = [worker EXCEPT ![w] =
                           Session("sending", [m \in batch |-> queue[m]], "none")]
    /\ UNCHANGED <<queue, delivered, tries, crashes, requeues>>

\* The call of the provider for the oldest row left.  "lost": the mail is taken,
\* and the client sees a failure.  A PDF that cannot be rendered is "refused".
Attempt(w, answer) ==
    /\ worker[w].stage = "sending"
    /\ \E m \in Messages :
          /\ IsOldest(m, DOMAIN worker[w].todo)
          /\ delivered' = [delivered EXCEPT ![m] =
                             IF answer = "refused" THEN @ ELSE UpTo(@ + 1, 2)]
          /\ tries' = [tries EXCEPT ![m] = UpTo(@ + 1, MaxAttempts)]
    /\ worker' = [worker EXCEPT ![w] = Session("recording", @.todo, answer)]
    /\ UNCHANGED <<queue, lock, crashes, requeues>>

\* Off by one in the budget.
OutcomeEarlySlip(copy, answer) ==
    [status |-> IF answer = "accepted" THEN "sent"
                ELSE IF copy.attempts + 2 >= MaxAttempts THEN "dead" ELSE "failed",
     attempts |-> copy.attempts + 1]

\* Both the provider's retries and the row count the attempt.
OutcomeTwiceSlip(copy, answer) ==
    [status |-> IF answer = "accepted" THEN "sent"
                ELSE IF copy.attempts + 1 >= MaxAttempts THEN "dead" ELSE "failed",
     attempts |-> copy.attempts + 2]

\* Only a delivery counts as an attempt.
OutcomeUncountedSlip(copy, answer) ==
    [status |-> IF answer = "accepted" THEN "sent"
                ELSE IF copy.attempts + 1 >= MaxAttempts THEN "dead" ELSE "failed",
     attempts |-> copy.attempts + IF answer = "accepted" THEN 1 ELSE 0]

\* The row as the session that loaded `copy` wants it after the answer.
Outcome(copy, answer) ==
    LET attempts == copy.attempts + 1 IN
    [status |-> IF answer = "accepted" THEN "sent"
                ELSE IF attempts >= MaxAttempts THEN "dead" ELSE "failed",
     attempts |-> attempts]

\* The UPDATE: a column the session sees no change in keeps what is committed.
Overlay(row, copy, new) ==
    [status   |-> IF new.status = copy.status THEN row.status ELSE new.status,
     attempts |-> new.attempts]

\* Flush and commit.  The UPDATE waits for a drain that has the row locked; the
\* commit releases every lock of this worker.
Record(w) ==
    /\ worker[w].stage = "recording"
    /\ \E m \in Messages : LET todo == worker[w].todo  rest == DOMAIN todo \ {m} IN
          /\ IsOldest(m, DOMAIN todo)
          /\ lock[m] \in {Nobody, w}
          /\ queue' = [queue EXCEPT ![m] =
                         Overlay(@, todo[m], Outcome(todo[m], worker[w].answer))]
          /\ worker' = [worker EXCEPT ![w] =
                          IF rest = {} THEN Idle
                          ELSE Session("sending", [k \in rest |-> todo[k]], "none")]
    /\ lock' = Unlocked(w)
    /\ UNCHANGED <<delivered, tries, crashes, requeues>>

\* The worker dies, or its session fails: its transaction is rolled back.
Crash(w) ==
    /\ crashes < MaxCrashes
    /\ worker[w].stage # "idle"
    /\ worker' = [worker EXCEPT ![w] = Idle]
    /\ lock' = Unlocked(w)
    /\ crashes' = crashes + 1
    /\ UNCHANGED <<queue, delivered, tries, requeues>>

\* requeue_dead: dead letters not locked go back, with a fresh budget.
RequeueDead(ms) ==
    /\ requeues < MaxRequeues
    /\ ms # {}
    /\ \A m \in ms : queue[m].status = "dead" /\ lock[m] = Nobody
    /\ queue' = [m \in Messages |->
                   IF m \in ms THEN [status |-> "failed", attempts |-> 0]
                   ELSE queue[m]]
    /\ requeues' = requeues + 1
    /\ UNCHANGED <<lock, worker, delivered, tries, crashes>>

Next ==
    \/ \E w \in Senders : Enqueue(w) \/ DeliverNow(w)
    \/ \E w \in Drainers : Drain(w)
    \/ \E w \in Workers :
          \/ \E answer \in Answers : Attempt(w, answer)
          \/ Record(w)
          \/ Crash(w)
    \/ \E ms \in SUBSET Messages : RequeueDead(ms)

Spec == Init /\ [][Next]_vars

(* The scheduler keeps calling drain every few minutes, a call that was     *)
(* started runs on, and the provider answers (or its client times out).     *)
(* Senders may never come.                                                  *)
Fairness ==
    /\ \A w \in Drainers : WF_vars(Drain(w))
    /\ \A w \in Workers :
          /\ WF_vars(DeliverNow(w))
          /\ WF_vars(\E answer \in Answers : Attempt(w, answer))
          /\ SF_vars(Record(w))

FairSpec == Spec /\ Fairness

------------------------------------------------------------------------------
Row == [status: {"none", "pending", "failed", "sent", "dead"}, attempts: Nat]

TypeOK ==
    /\ queue \in [Messages -> Row]
    /\ lock \in [Messages -> Drainers \cup {Nobody}]
    /\ \A w \in Workers :
          /\ worker[w].stage \in {"idle", "queued", "sending", "recording"}
          /\ worker[w].answer \in Answers \cup {"none"}
          /\ DOMAIN worker[w].todo \subseteq Messages
          /\ \A m \in DOMAIN worker[w].todo : worker[w].todo[m] \in Row
          /\ worker[w].stage = "idle" <=> DOMAIN worker[w].todo = {}
    /\ delivered \in [Messages -> 0 .. 2]
    /\ tries \in [Messages -> 0 .. MaxAttempts]
    /\ crashes \in 0 .. MaxCrashes
    /\ requeues \in 0 .. MaxRequeues

\* "The email is never lost": a row says "sent" only if the provider took the
\* mail, and is given up only after MAX_DELIVERY_ATTEMPTS real attempts, whoever
\* made them and however their commits raced.
NothingLost ==
    \A m \in Messages :
        /\ queue[m].status = "sent" => delivered[m] > 0
        /\ queue[m].status = "dead" => tries[m] = MaxAttempts

\* A row never claims more attempts than were made (the count may lag, when two
\* sessions that loaded the same count each add one).
AttemptsWereMade ==
    \A m \in Messages : UpTo(queue[m].attempts, MaxAttempts) <= tries[m]

\* A drain owns the rows it has locked: nobody writes them before its own first
\* commit, so it never acts on a stale copy of the first row of its batch.
LockedRowsAreFresh ==
    \A m \in Messages, w \in Drainers :
        lock[m] = w => /\ m \in DOMAIN worker[w].todo
                       /\ worker[w].todo[m] = queue[m]

\* drain's docstring: "SKIP LOCKED lets multiple drainers run concurrently
\* without double-sending".  With no crash, no lost answer and nobody but
\* drains at work, no mail goes out twice.
NoDoubleSend == \A m \in Messages : delivered[m] <= 1

\* As long as drains keep coming, and once requests, crashes and requeues have
\* ceased, every mail ends up delivered or dead-lettered and stays so, behind
\* however many others that keep failing and whatever stale commit undid it.
QueueSettles == <>[](\A m \in Messages : queue[m].status \notin Queued)
================================================================================
