--------------------------- MODULE EmailOutboxProofs ---------------------------
(***************************************************************************)
(* NothingLost and AttemptsWereMade for every number of messages, senders  *)
(* and drains, any batch size and any budget, with crashes, lost answers   *)
(* and commits of stale copies.                                            *)
(*                                                                         *)
(* The two are not inductive alone: a commit writes what a session computed *)
(* from a copy loaded long before.  OutboxInv adds what stays true of every *)
(* copy: the attempts it counts were made (tries never goes down), and once *)
(* the provider answered, the attempt being recorded was made too.         *)
(***************************************************************************)
EXTENDS EmailOutbox, TLAPS

\* A session's copy of a row, when n attempts on its message have been made.
CopyOK(copy, n) ==
    /\ copy \in Row
    /\ copy.status # "sent"
    /\ UpTo(copy.attempts, MaxAttempts) <= n

\* The attempt a session is about to record was made, and counted.
AttemptOK(copy, answer, n, taken) ==
    /\ UpTo(copy.attempts + 1, MaxAttempts) <= n
    /\ answer = "accepted" => taken > 0

\* Worker r, when `made` attempts were made and `taken` mails taken.
WorkerOK(r, made, taken) ==
    /\ r = [stage |-> r.stage, todo |-> r.todo, answer |-> r.answer]
    /\ \A m \in DOMAIN r.todo : m \in Messages /\ CopyOK(r.todo[m], made[m])
    /\ r.stage = "recording" =>
          \A m \in Messages : IsOldest(m, DOMAIN r.todo) =>
             AttemptOK(r.todo[m], r.answer, made[m], taken[m])

OutboxInv ==
    /\ queue \in [Messages -> Row]
    /\ delivered \in [Messages -> 0 .. 2]
    /\ tries \in [Messages -> 0 .. MaxAttempts]
    /\ worker = [w \in Workers |-> worker[w]]
    /\ \A w \in Workers : WorkerOK(worker[w], tries, delivered)
    /\ NothingLost
    /\ AttemptsWereMade

LEMMA IdleIsOK ==
    ASSUME NEW made, NEW taken PROVE WorkerOK(Idle, made, taken)
BY DEF WorkerOK, Idle, Session

LEMMA OutboxInit == Init => OutboxInv
<1> SUFFICES ASSUME Init PROVE OutboxInv
  OBVIOUS
<1>1. \A w \in Workers : WorkerOK(worker[w], tries, delivered)
  BY IdleIsOK DEF Init
<1>2. NotQueued \in Row
  BY DEF NotQueued, Row
<1> QED BY <1>1, <1>2, BoundAssumption
        DEF Init, OutboxInv, NothingLost, AttemptsWereMade, NotQueued, UpTo

\* Whatever a session loads now is a good copy, unless it is already sent.
LEMMA LoadedIsOK ==
    ASSUME OutboxInv, NEW m \in Messages, queue[m].status # "sent"
    PROVE  CopyOK(queue[m], tries[m])
BY DEF OutboxInv, AttemptsWereMade, CopyOK

\* Counts only grow, and a worker that is left alone is no worse for it.
LEMMA StaysOK ==
    ASSUME NEW made \in [Messages -> Int], NEW made2 \in [Messages -> Int],
           NEW taken \in [Messages -> Int], NEW taken2 \in [Messages -> Int],
           \A m \in Messages : made2[m] >= made[m] /\ taken2[m] >= taken[m],
           NEW r, WorkerOK(r, made, taken)
    PROVE  WorkerOK(r, made2, taken2)
<1>1. MaxAttempts \in Nat
  BY BoundAssumption
<1>2. ASSUME NEW m \in DOMAIN r.todo PROVE m \in Messages /\ CopyOK(r.todo[m], made2[m])
  BY <1>1, <1>2 DEF WorkerOK, CopyOK, UpTo, Row
<1>3. ASSUME r.stage = "recording", NEW m \in Messages, IsOldest(m, DOMAIN r.todo)
      PROVE  AttemptOK(r.todo[m], r.answer, made2[m], taken2[m])
  <2>1. /\ r.todo[m].attempts \in Nat
        /\ AttemptOK(r.todo[m], r.answer, made[m], taken[m])
    BY <1>3 DEF WorkerOK, CopyOK, IsOldest, Row
  <2> QED BY <1>1, <2>1 DEF AttemptOK, UpTo
<1> QED BY <1>2, <1>3 DEF WorkerOK

\* A session with freshly loaded (or left over) copies is OK.
LEMMA LoadedWorkerOK ==
    ASSUME NEW made, NEW taken, NEW stage, stage # "recording", NEW todo,
           \A m \in DOMAIN todo : m \in Messages /\ CopyOK(todo[m], made[m])
    PROVE  WorkerOK(Session(stage, todo, "none"), made, taken)
BY DEF WorkerOK, Session

\* A step that changes only worker w, to one that is OK.
LEMMA OneWorkerStep ==
    ASSUME OutboxInv, NEW w \in Workers, NEW r, WorkerOK(r, tries, delivered),
           worker' = [worker EXCEPT ![w] = r],
           UNCHANGED <<queue, delivered, tries>>
    PROVE  OutboxInv'
<1>1. \A v \in Workers : worker'[v] = IF v = w THEN r ELSE worker[v]
  BY DEF OutboxInv
<1>2. worker' = [v \in Workers |-> worker'[v]]
  BY DEF OutboxInv
<1>3. \A v \in Workers : WorkerOK(worker'[v], tries, delivered)
  BY <1>1 DEF OutboxInv
<1> QED BY <1>2, <1>3 DEF OutboxInv, NothingLost, AttemptsWereMade

LEMMA EnqueueStep ==
    ASSUME OutboxInv, NEW w \in Workers, Enqueue(w) PROVE OutboxInv'
<1> DEFINE new == [status |-> "pending", attempts |-> 0]
<1>1. PICK m \in Messages :
         /\ queue' = [queue EXCEPT ![m] = new]
         /\ worker' = [worker EXCEPT ![w] =
                         Session("queued", [k \in {m} |-> queue'[k]], "none")]
  BY DEF Enqueue, Only
<1>2. delivered' = delivered /\ tries' = tries
  BY DEF Enqueue
<1>3. new \in Row /\ CopyOK(new, tries[m])
  BY BoundAssumption DEF Row, CopyOK, UpTo, OutboxInv
<1>4. queue' \in [Messages -> Row] /\ queue'[m] = new
  BY <1>1, <1>3 DEF OutboxInv
<1> DEFINE todo == [k \in {m} |-> queue'[k]]
           r == Session("queued", todo, "none")
<1>5. WorkerOK(r, tries, delivered)
  <2>1. \A k \in DOMAIN todo : k \in Messages /\ CopyOK(todo[k], tries[k])
    BY <1>3, <1>4
  <2> HIDE DEF todo
  <2> QED BY <2>1, LoadedWorkerOK
<1>6. /\ worker' = [v \in Workers |-> worker'[v]]
      /\ \A v \in Workers : WorkerOK(worker'[v], tries', delivered')
  <2> HIDE DEF r
  <2>1. worker' = [worker EXCEPT ![w] = r]
    BY <1>1 DEF r
  <2> QED BY <2>1, <1>2, <1>5 DEF OutboxInv
<1>7. NothingLost' /\ AttemptsWereMade'
  <2>1. UpTo(0, MaxAttempts) <= tries[m]
    BY <1>3 DEF CopyOK
  <2> QED BY <2>1, <1>1, <1>2 DEF OutboxInv, NothingLost, AttemptsWereMade
<1> QED BY <1>2, <1>4, <1>6, <1>7 DEF OutboxInv

LEMMA DeliverNowStep ==
    ASSUME OutboxInv, NEW w \in Workers, DeliverNow(w) PROVE OutboxInv'
<1>1. PICK m \in DOMAIN worker[w].todo :
         worker' = [worker EXCEPT ![w] =
                      IF queue[m].status = "sent" THEN Idle
                      ELSE Session("sending", Only(m), "none")]
  BY DEF DeliverNow
<1>2. /\ UNCHANGED <<queue, delivered, tries>> /\ m \in Messages
  BY DEF DeliverNow, OutboxInv, WorkerOK
<1>3. CASE queue[m].status = "sent"
  BY <1>1, <1>2, <1>3, IdleIsOK, OneWorkerStep
<1>4. CASE queue[m].status # "sent"
  <2>1. CopyOK(queue[m], tries[m])
    BY <1>2, <1>4, LoadedIsOK
  <2>2. \A k \in DOMAIN Only(m) : k \in Messages /\ CopyOK(Only(m)[k], tries[k])
    BY <2>1, <1>2 DEF Only
  <2>3. WorkerOK(Session("sending", Only(m), "none"), tries, delivered)
    BY <2>2, LoadedWorkerOK
  <2> QED BY <2>3, <1>1, <1>2, <1>4, OneWorkerStep
<1> QED BY <1>3, <1>4

LEMMA DrainStep ==
    ASSUME OutboxInv, NEW w \in Workers, Drain(w) PROVE OutboxInv'
<1> DEFINE queued == {m \in Messages : queue[m].status \in Queued
                                       /\ lock[m] = Nobody}
           batch == OldestOf(queued, Limit)
           todo == [m \in batch |-> queue[m]]
<1>1. /\ worker' = [worker EXCEPT ![w] = Session("sending", todo, "none")]
      /\ UNCHANGED <<queue, delivered, tries>>
  BY DEF Drain
<1>2. \A m \in batch : m \in Messages /\ queue[m].status # "sent"
  BY DEF OldestOf, Queued
<1> HIDE DEF batch
<1>3. \A m \in DOMAIN todo : m \in Messages /\ CopyOK(todo[m], tries[m])
  BY <1>2, LoadedIsOK
<1> HIDE DEF todo
<1>4. WorkerOK(Session("sending", todo, "none"), tries, delivered)
  BY <1>3, LoadedWorkerOK
<1> QED BY <1>1, <1>4, OneWorkerStep

LEMMA AttemptStep ==
    ASSUME OutboxInv, NEW w \in Workers, NEW answer \in Answers, Attempt(w, answer)
    PROVE  OutboxInv'
<1>1. PICK m \in Messages :
         /\ IsOldest(m, DOMAIN worker[w].todo)
         /\ delivered' = [delivered EXCEPT ![m] =
                IF answer = "refused" THEN delivered[m] ELSE UpTo(delivered[m] + 1, 2)]
         /\ tries' = [tries EXCEPT ![m] = UpTo(tries[m] + 1, MaxAttempts)]
  BY DEF Attempt
<1>2. /\ worker' = [worker EXCEPT ![w] = Session("recording", @.todo, answer)]
      /\ queue' = queue
  BY DEF Attempt
<1>3. MaxAttempts \in Nat \ {0}
  BY BoundAssumption
<1>4. /\ tries' \in [Messages -> 0 .. MaxAttempts] /\ delivered' \in [Messages -> 0 .. 2]
      /\ \A k \in Messages : tries'[k] >= tries[k] /\ delivered'[k] >= delivered[k]
      /\ tries'[m] = UpTo(tries[m] + 1, MaxAttempts)
      /\ answer # "refused" => delivered'[m] > 0
  BY <1>1, <1>3 DEF OutboxInv, UpTo
<1>5. WorkerOK(worker[w], tries', delivered')
  BY <1>4, StaysOK DEF OutboxInv
<1> DEFINE r == Session("recording", worker[w].todo, answer)
<1>6. worker' = [worker EXCEPT ![w] = r]
  BY <1>2
<1>7. WorkerOK(r, tries', delivered')
  <2>1. UpTo(worker[w].todo[m].attempts + 1, MaxAttempts) <= tries'[m]
    <3>1. /\ UpTo(worker[w].todo[m].attempts, MaxAttempts) <= tries[m]
          /\ worker[w].todo[m].attempts \in Nat
      BY <1>1 DEF OutboxInv, WorkerOK, CopyOK, Row, IsOldest
    <3>2. tries[m] \in 0 .. MaxAttempts
      BY DEF OutboxInv
    <3> QED BY <3>1, <3>2, <1>3, <1>4 DEF UpTo
  <2>2. AttemptOK(worker[w].todo[m], answer, tries'[m], delivered'[m])
    BY <2>1, <1>4 DEF AttemptOK
  <2>3. \A k \in Messages : IsOldest(k, DOMAIN worker[w].todo) => k = m
    BY <1>1 DEF IsOldest, Messages
  <2> QED BY <1>5, <2>2, <2>3 DEF WorkerOK, Session
<1> HIDE DEF r
<1>8. \A v \in Workers \ {w} : WorkerOK(worker[v], tries', delivered')
  <2>1. /\ tries \in [Messages -> Int] /\ delivered \in [Messages -> Int]
        /\ tries' \in [Messages -> Int] /\ delivered' \in [Messages -> Int]
    BY <1>4 DEF OutboxInv
  <2>2. \A m2 \in Messages : tries'[m2] >= tries[m2] /\ delivered'[m2] >= delivered[m2]
    BY <1>4
  <2> QED BY <2>1, <2>2, StaysOK DEF OutboxInv
<1>9. /\ worker' = [v \in Workers |-> worker'[v]]
      /\ \A v \in Workers : WorkerOK(worker'[v], tries', delivered')
  BY <1>6, <1>7, <1>8 DEF OutboxInv
<1>10. NothingLost' /\ AttemptsWereMade'
  <2>1. ASSUME NEW k \in Messages PROVE /\ tries[k] \in 0 .. MaxAttempts
                                        /\ tries'[k] \in 0 .. MaxAttempts
                                        /\ delivered[k] \in 0 .. 2
                                        /\ delivered'[k] \in 0 .. 2
                                        /\ queue[k].attempts \in Nat
    BY <1>4 DEF OutboxInv, Row
  <2>2. ASSUME NEW k \in Messages
        PROVE  /\ queue'[k].status = "sent" => delivered'[k] > 0
               /\ queue'[k].status = "dead" => tries'[k] = MaxAttempts
    <3>1. /\ queue[k].status = "sent" => delivered[k] > 0
          /\ queue[k].status = "dead" => tries[k] = MaxAttempts
      BY DEF OutboxInv, NothingLost
    <3> QED BY <3>1, <2>1, <1>2, <1>3, <1>4
  <2>3. ASSUME NEW k \in Messages
        PROVE  UpTo(queue'[k].attempts, MaxAttempts) <= tries'[k]
    <3>1. UpTo(queue[k].attempts, MaxAttempts) <= tries[k]
      BY DEF OutboxInv, AttemptsWereMade
    <3> QED BY <3>1, <2>1, <1>2, <1>3, <1>4 DEF UpTo
  <2> QED BY <2>2, <2>3 DEF NothingLost, AttemptsWereMade
<1> QED BY <1>2, <1>4, <1>9, <1>10 DEF OutboxInv

LEMMA RecordStep ==
    ASSUME OutboxInv, NEW w \in Workers, Record(w) PROVE OutboxInv'
<1> DEFINE todo == worker[w].todo
<1>1. PICK m \in Messages :
         /\ IsOldest(m, DOMAIN todo)
         /\ queue' = [queue EXCEPT ![m] =
                Overlay(queue[m], todo[m], Outcome(todo[m], worker[w].answer))]
         /\ worker' = [worker EXCEPT ![w] =
                IF DOMAIN todo \ {m} = {} THEN Idle
                ELSE Session("sending", [k \in DOMAIN todo \ {m} |-> todo[k]], "none")]
  BY DEF Record
<1>2. /\ delivered' = delivered /\ tries' = tries
      /\ worker[w].stage = "recording" /\ m \in DOMAIN todo
      /\ WorkerOK(worker[w], tries, delivered)
  BY <1>1 DEF Record, OutboxInv, IsOldest
<1>3. /\ CopyOK(todo[m], tries[m])
      /\ AttemptOK(todo[m], worker[w].answer, tries[m], delivered[m])
  BY <1>1, <1>2 DEF WorkerOK
<1> DEFINE new == Outcome(todo[m], worker[w].answer)
           row == Overlay(queue[m], todo[m], new)
<1>4. /\ queue[m] \in Row /\ todo[m].attempts + 1 \in Nat
      /\ tries[m] \in 0 .. MaxAttempts /\ MaxAttempts \in Nat
  BY <1>3, BoundAssumption DEF OutboxInv, CopyOK, Row
<1>5. /\ row \in Row
      /\ row.attempts = todo[m].attempts + 1
      /\ row.status = "sent" => delivered[m] > 0
      /\ row.status = "dead" => tries[m] = MaxAttempts
  <2>1. row.attempts = todo[m].attempts + 1
    BY DEF Overlay, Outcome
  <2>2. row.status \in {queue[m].status, new.status}
    BY DEF Overlay
  <2>3. /\ new.status = "sent" => delivered[m] > 0
        /\ new.status = "dead" => tries[m] = MaxAttempts
        /\ new.status \in {"sent", "dead", "failed"}
    BY <1>3, <1>4 DEF Outcome, AttemptOK, UpTo
  <2>4. /\ queue[m].status = "sent" => delivered[m] > 0
        /\ queue[m].status = "dead" => tries[m] = MaxAttempts
    BY DEF OutboxInv, NothingLost
  <2>5. row = [status |-> row.status, attempts |-> row.attempts]
    BY DEF Overlay
  <2> HIDE DEF row, new
  <2>6. row \in Row
    BY <2>1, <2>2, <2>3, <2>5, <1>4 DEF Row
  <2> QED BY <2>1, <2>2, <2>3, <2>4, <2>6
<1> HIDE DEF row, new
<1>6. queue' = [queue EXCEPT ![m] = row]
  BY <1>1 DEF row, new
<1>7. /\ worker' = [v \in Workers |-> worker'[v]]
      /\ \A v \in Workers : WorkerOK(worker'[v], tries, delivered)
  <2> DEFINE rest == [k \in DOMAIN todo \ {m} |-> todo[k]]
             next == Session("sending", rest, "none")
  <2>1. \A k \in DOMAIN rest : k \in Messages /\ CopyOK(rest[k], tries[k])
    BY <1>2 DEF WorkerOK
  <2> HIDE DEF rest
  <2>2. WorkerOK(next, tries, delivered)
    BY <2>1, LoadedWorkerOK
  <2>3. worker' = [worker EXCEPT ![w] = IF DOMAIN todo \ {m} = {} THEN Idle ELSE next]
    BY <1>1 DEF rest
  <2> HIDE DEF next
  <2> QED BY <2>2, <2>3, IdleIsOK DEF OutboxInv
<1>8. NothingLost' /\ AttemptsWereMade'
  BY <1>2, <1>3, <1>5, <1>6 DEF OutboxInv, NothingLost, AttemptsWereMade, AttemptOK
<1> QED BY <1>2, <1>5, <1>6, <1>7, <1>8 DEF OutboxInv

LEMMA RequeueStep ==
    ASSUME OutboxInv, NEW ms \in SUBSET Messages, RequeueDead(ms) PROVE OutboxInv'
<1> DEFINE new == [status |-> "failed", attempts |-> 0]
<1>1. /\ queue' = [m \in Messages |-> IF m \in ms THEN new ELSE queue[m]]
      /\ UNCHANGED <<worker, delivered, tries>>
  BY DEF RequeueDead
<1>2. new \in Row /\ \A m \in Messages : UpTo(0, MaxAttempts) <= tries[m]
  BY BoundAssumption DEF Row, UpTo, OutboxInv
<1> QED BY <1>1, <1>2 DEF OutboxInv, NothingLost, AttemptsWereMade

LEMMA OutboxStep == OutboxInv /\ [Next]_vars => OutboxInv'
<1> SUFFICES ASSUME OutboxInv, [Next]_vars PROVE OutboxInv'
  OBVIOUS
<1>1. ASSUME NEW w \in Senders, Enqueue(w) \/ DeliverNow(w) PROVE OutboxInv'
  BY <1>1, EnqueueStep, DeliverNowStep DEF Workers
<1>2. ASSUME NEW w \in Drainers, Drain(w) PROVE OutboxInv'
  BY <1>2, DrainStep DEF Workers
<1>3. ASSUME NEW w \in Workers, NEW answer \in Answers, Attempt(w, answer)
      PROVE  OutboxInv'
  BY <1>3, AttemptStep
<1>4. ASSUME NEW w \in Workers, Record(w) PROVE OutboxInv'
  BY <1>4, RecordStep
<1>5. ASSUME NEW w \in Workers, Crash(w) PROVE OutboxInv'
  <2>1. /\ worker' = [worker EXCEPT ![w] = Idle]
        /\ UNCHANGED <<queue, delivered, tries>>
    BY <1>5 DEF Crash
  <2> QED BY <2>1, IdleIsOK, OneWorkerStep
<1>6. ASSUME NEW ms \in SUBSET Messages, RequeueDead(ms) PROVE OutboxInv'
  BY <1>6, RequeueStep
<1>7. CASE UNCHANGED vars
  BY <1>7 DEF vars, OutboxInv, NothingLost, AttemptsWereMade
<1> QED BY <1>1, <1>2, <1>3, <1>4, <1>5, <1>6, <1>7 DEF Next

\* A mail is marked sent only if it was, and given up only after the whole
\* budget of attempts; the counts never claim more than was tried.
THEOREM OutboxLosesNothing == Spec => [](NothingLost /\ AttemptsWereMade)
<1>1. OutboxInv => NothingLost /\ AttemptsWereMade
  BY DEF OutboxInv
<1> QED BY OutboxInit, OutboxStep, <1>1, PTL DEF Spec

\* The counts alone: what docs call the retry budget is never overdrawn by a
\* count nobody earned.
THEOREM AttemptsAreReal == Spec => []AttemptsWereMade
BY OutboxLosesNothing, PTL

------------------------------------------------------------------------------
\* Why a drain's first row is fresh: a lock is held by a drain that is at work,
\* on a queued row, from a copy equal to the row; whoever writes a row must find
\* it unlocked or hold it, and its commit lets go of all it holds.
HolderOK(m, w) ==
    lock[m] = w => /\ worker[w].stage \in {"sending", "recording"}
                   /\ m \in DOMAIN worker[w].todo
                   /\ worker[w].todo[m] = queue[m]
                   /\ queue[m].status \in Queued

LocksInv ==
    /\ queue = [m \in Messages |-> queue[m]]
    /\ lock = [m \in Messages |-> lock[m]]
    /\ worker = [w \in Workers |-> worker[w]]
    /\ \A m \in Messages, w \in Workers : HolderOK(m, w)

LEMMA LocksInit == Init => LocksInv
BY NobodyAssumption DEF Init, LocksInv, HolderOK, Workers

\* A worker that holds nothing does as it likes with itself.
LEMMA UnlockedWorkerStep ==
    ASSUME LocksInv, NEW w \in Workers, \A m \in Messages : lock[m] # w, NEW r,
           worker' = [worker EXCEPT ![w] = r], lock' = lock, queue' = queue
    PROVE  LocksInv'
BY DEF LocksInv, HolderOK

\* A worker lets go of everything and writes at most a row nobody else holds.
LEMMA LettingGoStep ==
    ASSUME LocksInv, NEW w \in Workers, NEW r, lock' = Unlocked(w),
           worker' = [worker EXCEPT ![w] = r],
           queue' = [k \in Messages |-> queue'[k]],
           \A m \in Messages : lock[m] \notin {Nobody, w} => queue'[m] = queue[m]
    PROVE  LocksInv'
<1>1. \A m \in Messages : lock'[m] = IF lock[m] = w THEN Nobody ELSE lock[m]
  BY DEF Unlocked
<1>2. lock' = [m \in Messages |-> lock'[m]]
  BY DEF Unlocked
<1>3. worker' = [v \in Workers |-> worker'[v]]
  BY DEF LocksInv
<1>4. ASSUME NEW m \in Messages, NEW v \in Workers PROVE HolderOK(m, v)'
  <2> SUFFICES ASSUME lock'[m] = v
               PROVE  /\ worker'[v].stage \in {"sending", "recording"}
                      /\ m \in DOMAIN worker'[v].todo
                      /\ worker'[v].todo[m] = queue'[m]
                      /\ queue'[m].status \in Queued
    BY DEF HolderOK
  <2>1. v # Nobody
    BY NobodyAssumption DEF Workers
  <2>2. lock[m] = v /\ v # w
    BY <1>1, <2>1
  <2>3. worker'[v] = worker[v] /\ queue'[m] = queue[m]
    BY <2>1, <2>2 DEF LocksInv
  <2> QED BY <2>2, <2>3 DEF LocksInv, HolderOK
<1> QED BY <1>2, <1>3, <1>4 DEF LocksInv

LEMMA LocksDrainStep ==
    ASSUME LocksInv, NEW w \in Workers, Drain(w) PROVE LocksInv'
<1> DEFINE queued == {m \in Messages : queue[m].status \in Queued
                                       /\ lock[m] = Nobody}
           batch == OldestOf(queued, Limit)
           todo == [m \in batch |-> queue[m]]
<1>1. /\ lock' = [m \in Messages |-> IF m \in batch THEN w ELSE lock[m]]
      /\ worker' = [worker EXCEPT ![w] = Session("sending", todo, "none")]
      /\ queue' = queue /\ worker[w].stage = "idle"
  BY DEF Drain
<1>2. \A m \in batch : /\ m \in Messages /\ queue[m].status \in Queued
                       /\ lock[m] = Nobody
  BY DEF OldestOf
<1> HIDE DEF batch
<1>3. \A m \in Messages : lock[m] # w
  BY <1>1 DEF LocksInv, HolderOK
<1>4. /\ worker'[w].stage = "sending" /\ worker'[w].todo = todo
      /\ \A v \in Workers \ {w} : worker'[v] = worker[v]
      /\ worker' = [v \in Workers |-> worker'[v]]
      /\ lock' = [m \in Messages |-> lock'[m]]
  BY <1>1 DEF LocksInv, Session
<1>5. ASSUME NEW m \in Messages, NEW v \in Workers PROVE HolderOK(m, v)'
  <2>1. CASE m \in batch
    BY <2>1, <1>1, <1>2, <1>4 DEF HolderOK
  <2>2. CASE m \notin batch
    BY <2>2, <1>1, <1>3, <1>4 DEF HolderOK, LocksInv
  <2> QED BY <2>1, <2>2
<1> QED BY <1>1, <1>4, <1>5 DEF LocksInv

LEMMA LocksRecordStep ==
    ASSUME LocksInv, NEW w \in Workers, Record(w) PROVE LocksInv'
<1> DEFINE todo == worker[w].todo
<1>1. PICK m \in Messages :
         /\ lock[m] \in {Nobody, w}
         /\ queue' = [queue EXCEPT ![m] =
                Overlay(queue[m], todo[m], Outcome(todo[m], worker[w].answer))]
         /\ worker' = [worker EXCEPT ![w] =
                IF DOMAIN todo \ {m} = {} THEN Idle
                ELSE Session("sending", [k \in DOMAIN todo \ {m} |-> todo[k]], "none")]
  BY DEF Record
<1> DEFINE row == Overlay(queue[m], todo[m], Outcome(todo[m], worker[w].answer))
           r == IF DOMAIN todo \ {m} = {} THEN Idle
                ELSE Session("sending", [k \in DOMAIN todo \ {m} |-> todo[k]], "none")
<1>2. lock' = Unlocked(w)
  BY DEF Record
<1> HIDE DEF row, r
<1>3. queue' = [queue EXCEPT ![m] = row]
  BY <1>1 DEF row
<1>4. worker' = [worker EXCEPT ![w] = r]
  BY <1>1 DEF r
<1>5. /\ queue' = [k \in Messages |-> queue'[k]]
      /\ \A k \in Messages : lock[k] \notin {Nobody, w} => queue'[k] = queue[k]
  BY <1>1, <1>3 DEF LocksInv
<1> QED BY <1>2, <1>4, <1>5, LettingGoStep

LEMMA LocksStep == LocksInv /\ [Next]_vars => LocksInv'
<1> SUFFICES ASSUME LocksInv, [Next]_vars PROVE LocksInv'
  OBVIOUS
<1>1. ASSUME NEW w \in Senders, Enqueue(w) PROVE LocksInv'
  <2>0. PICK m \in Messages :
           /\ queue[m] = NotQueued
           /\ \E row : queue' = [queue EXCEPT ![m] = row]
           /\ \E r : worker' = [worker EXCEPT ![w] = r]
    BY <1>1 DEF Enqueue, IsOldest
  <2>1. PICK row, r :
           /\ queue' = [queue EXCEPT ![m] = row]
           /\ worker' = [worker EXCEPT ![w] = r]
    BY <2>0
  <2>2. lock' = lock /\ w \in Workers /\ worker[w].stage = "idle"
    BY <1>1 DEF Enqueue, Workers
  <2>3. \A v \in Workers : lock[m] # v
    BY <2>0 DEF LocksInv, HolderOK, NotQueued, Queued
  <2>4. \A k \in Messages : lock[k] # w
    BY <2>2 DEF LocksInv, HolderOK
  <2> QED BY <2>1, <2>2, <2>3, <2>4 DEF LocksInv, HolderOK
<1>2. ASSUME NEW w \in Senders, DeliverNow(w) PROVE LocksInv'
  <2>1. PICK r : worker' = [worker EXCEPT ![w] = r]
    BY <1>2 DEF DeliverNow
  <2>2. /\ lock' = lock /\ queue' = queue /\ w \in Workers
        /\ worker[w].stage = "queued"
    BY <1>2 DEF DeliverNow, Workers
  <2>3. \A m \in Messages : lock[m] # w
    BY <2>2 DEF LocksInv, HolderOK
  <2> QED BY <2>1, <2>2, <2>3, UnlockedWorkerStep
<1>3. ASSUME NEW w \in Drainers, Drain(w) PROVE LocksInv'
  BY <1>3, LocksDrainStep DEF Workers
<1>4. ASSUME NEW w \in Workers, NEW answer \in Answers, Attempt(w, answer)
      PROVE  LocksInv'
  <2>1. /\ worker' = [worker EXCEPT ![w] =
                         Session("recording", worker[w].todo, answer)]
        /\ lock' = lock /\ queue' = queue /\ worker[w].stage = "sending"
    BY <1>4 DEF Attempt
  <2>2. /\ \A v \in Workers \ {w} : worker'[v] = worker[v]
        /\ worker'[w].stage = "recording" /\ worker'[w].todo = worker[w].todo
        /\ worker' = [v \in Workers |-> worker'[v]]
    BY <2>1 DEF LocksInv, Session
  <2> QED BY <2>1, <2>2 DEF LocksInv, HolderOK
<1>5. ASSUME NEW w \in Workers, Record(w) PROVE LocksInv'
  BY <1>5, LocksRecordStep
<1>6. ASSUME NEW w \in Workers, Crash(w) PROVE LocksInv'
  <2>1. /\ lock' = Unlocked(w) /\ queue' = queue
        /\ worker' = [worker EXCEPT ![w] = Idle]
    BY <1>6 DEF Crash
  <2>2. queue' = [k \in Messages |-> queue'[k]]
    BY <2>1 DEF LocksInv
  <2> QED BY <2>1, <2>2, LettingGoStep
<1>7. ASSUME NEW ms \in SUBSET Messages, RequeueDead(ms) PROVE LocksInv'
  <2>1. /\ lock' = lock /\ worker' = worker
        /\ queue' = [m \in Messages |-> queue'[m]]
        /\ \A m \in Messages : m \in ms => lock[m] = Nobody
        /\ \A m \in Messages : m \notin ms => queue'[m] = queue[m]
    BY <1>7 DEF RequeueDead
  <2>2. \A m \in ms, v \in Workers : lock[m] # v
    BY <2>1, NobodyAssumption DEF Workers
  <2> QED BY <2>1, <2>2 DEF LocksInv, HolderOK
<1>8. CASE UNCHANGED vars
  BY <1>8 DEF vars, LocksInv, HolderOK
<1> QED BY <1>1, <1>2, <1>3, <1>4, <1>5, <1>6, <1>7, <1>8 DEF Next

\* A drain never works on a stale copy of a row it still has locked, for any
\* number of drains, batch size, crashes and requeues.
THEOREM BatchesStartFresh == Spec => []LockedRowsAreFresh
<1>1. LocksInv => LockedRowsAreFresh
  BY DEF LocksInv, HolderOK, LockedRowsAreFresh, Workers
<1> QED BY LocksInit, LocksStep, <1>1, PTL DEF Spec
================================================================================
