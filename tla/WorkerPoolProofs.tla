-------------------------- MODULE WorkerPoolProofs --------------------------
(***************************************************************************)
(* What WorkerPool promises for any number of threads and any bound on the *)
(* inbox: no wake-up of the queue is lost, the shutdown that the threads   *)
(* hand to each other is always exactly one, and the server does not exit  *)
(* before its threads.                                                     *)
(***************************************************************************)
EXTENDS WorkerPool, FiniteSetTheorems, FunctionTheorems, SequenceTheorems, TLAPS

\* start_workers has not come to these threads yet
Unstarted == phase = "start" => \A w \in Workers : w >= at => pc[w] = "none"

\* The destructors join the threads in order, so that none runs when the next worker
\* is destroyed and none is left when the server exits.
NoThreadOutlives ==
  /\ phase \in {"destroy", "join"} => \A w \in Workers : w < at => pc[w] = "done"
  /\ phase = "exit" => \A w \in Workers : pc[w] = "done"

\* the inductive invariant of the pool
PoolInv == TypeOK /\ Unstarted /\ NoThreadOutlives /\ EnoughAwake /\ ChainUnbroken

-----------------------------------------------------------------------------
\* There are finitely many threads.
LEMMA WorkersFinite == \A S \in SUBSET Workers : IsFiniteSet(S) /\ Cardinality(S) \in Nat
<1>1. IsFiniteSet(Workers) BY PoolAssumption, FS_Interval DEF Workers
<1> QED BY <1>1, FS_Subset, FS_CardinalityType

\* A sequence of messages holds finitely many shutdowns.
LEMMA QueuedFinite ==
  ASSUME NEW s \in Seq(Messages)
  PROVE  IsFiniteSet(Queued(s)) /\ Cardinality(Queued(s)) \in Nat
<1>1. IsFiniteSet(1 .. Len(s)) BY FS_Interval, LenProperties
<1>2. Queued(s) \in SUBSET (1 .. Len(s)) BY LenProperties DEF Queued
<1> QED BY <1>1, <1>2, FS_Subset, FS_CardinalityType

\* Queue::enqueue adds a shutdown when the message is one.
LEMMA QueuedAppend ==
  ASSUME NEW s \in Seq(Messages), NEW m \in Messages
  PROVE  Cardinality(Queued(Append(s, m))) =
           Cardinality(Queued(s)) + (IF m = "shutdown" THEN 1 ELSE 0)
<1>1. /\ DOMAIN s = 1 .. Len(s) /\ DOMAIN Append(s, m) = 1 .. Len(s) + 1
      /\ Len(s) \in Nat
  BY AppendProperties, LenProperties
<1>2. CASE m = "shutdown"
  <2>1. Queued(Append(s, m)) = Queued(s) \cup {Len(s) + 1}
    BY <1>1, <1>2, AppendProperties DEF Queued
  <2>2. Len(s) + 1 \notin Queued(s) BY <1>1 DEF Queued
  <2> QED BY <1>2, <2>1, <2>2, QueuedFinite, FS_AddElement
<1>3. CASE m # "shutdown"
  <2>1. Queued(Append(s, m)) = Queued(s)
    BY <1>1, <1>3, AppendProperties DEF Queued
  <2> QED BY <1>3, <2>1, QueuedFinite
<1> QED BY <1>2, <1>3

\* Queue::dequeue takes the oldest message, and with it its shutdown.
LEMMA QueuedTail ==
  ASSUME NEW s \in Seq(Messages), s # <<>>
  PROVE  Cardinality(Queued(s)) =
           Cardinality(Queued(Tail(s))) + (IF Head(s) = "shutdown" THEN 1 ELSE 0)
<1> DEFINE rest == Queued(s) \ {1}
           shift == [i \in Queued(Tail(s)) |-> i + 1]
<1>1. /\ DOMAIN s = 1 .. Len(s) /\ DOMAIN Tail(s) = 1 .. Len(s) - 1
      /\ Len(s) \in Nat \ {0} /\ Tail(s) \in Seq(Messages) /\ Head(s) = s[1]
      /\ \A i \in 1 .. Len(s) - 1 : Tail(s)[i] = s[i + 1]
  BY HeadTailProperties, LenProperties, EmptySeq
<1>2. \A i \in Queued(Tail(s)) : i + 1 \in rest /\ i \in Nat
  BY <1>1 DEF Queued
<1>3. \A j \in rest : j - 1 \in Queued(Tail(s)) /\ j \in Nat
  BY <1>1 DEF Queued
<1>4. shift \in Bijection(Queued(Tail(s)), rest)
  <2>1. shift \in [Queued(Tail(s)) -> rest] BY <1>2
  <2>2. \A a, b \in Queued(Tail(s)) : shift[a] = shift[b] => a = b BY <1>2
  <2>3. \A j \in rest : \E i \in Queued(Tail(s)) : shift[i] = j
    <3> TAKE j \in rest
    <3>1. j - 1 \in Queued(Tail(s)) /\ shift[j - 1] = j BY <1>3
    <3> QED BY <3>1
  <2> QED BY <2>1, <2>2, <2>3 DEF Bijection, Injection, Surjection, IsInjective
<1>5. Cardinality(rest) = Cardinality(Queued(Tail(s)))
  BY <1>1, <1>4, QueuedFinite, FS_Bijection DEF ExistsBijection
<1>6. 1 \in Queued(s) <=> Head(s) = "shutdown" BY <1>1 DEF Queued
<1>7. Cardinality(rest) = IF 1 \in Queued(s) THEN Cardinality(Queued(s)) - 1 ELSE Cardinality(Queued(s))
  BY QueuedFinite, FS_RemoveElement
<1> QED BY <1>5, <1>6, <1>7, <1>1, QueuedFinite

-----------------------------------------------------------------------------
\* One thread moves to another place.
Moves(w, place) == pc' = [pc EXCEPT ![w] = place]

\* What the move of one thread does to the set of those that sleep, of those in
\* dequeue and of those that hold a shutdown.
LEMMA MoveFacts ==
  ASSUME TypeOK, NEW w \in Workers, NEW place, Moves(w, place)
  PROVE  /\ \A v \in Workers : pc'[v] = IF v = w THEN place ELSE pc[v]
         /\ Asleep' = IF place = "asleep" THEN Asleep \cup {w} ELSE Asleep \ {w}
         /\ Dequeuing' = IF place = "dequeue" THEN Dequeuing \cup {w} ELSE Dequeuing \ {w}
BY DEF TypeOK, Moves, Asleep, Dequeuing

\* The sets of threads and their sizes.
LEMMA Counts ==
  /\ IsFiniteSet(Dequeuing) /\ Cardinality(Dequeuing) \in Nat
  /\ IsFiniteSet(Holding) /\ Cardinality(Holding) \in Nat
  /\ \A w \in Workers :
       /\ w \notin Dequeuing => Cardinality(Dequeuing \cup {w}) = Cardinality(Dequeuing) + 1
       /\ w \in Dequeuing => Cardinality(Dequeuing \ {w}) = Cardinality(Dequeuing) - 1
       /\ w \notin Holding => Cardinality(Holding \cup {w}) = Cardinality(Holding) + 1
       /\ w \in Holding => Cardinality(Holding \ {w}) = Cardinality(Holding) - 1
<1>1. Dequeuing \in SUBSET Workers /\ Holding \in SUBSET Workers BY DEF Dequeuing, Holding
<1>2. IsFiniteSet(Dequeuing) /\ IsFiniteSet(Holding) BY <1>1, WorkersFinite
<1> QED BY <1>1, <1>2, WorkersFinite, FS_AddElement, FS_RemoveElement

\* Unless the queue grows or a thread leaves dequeue, no wake-up can get lost.
LEMMA AwakeKeeps ==
  ASSUME TypeOK, EnoughAwake, Asleep' \subseteq Asleep, UNCHANGED jobs,
         Dequeuing' = Dequeuing \/ \E w \in Workers : Dequeuing' = Dequeuing \cup {w}
  PROVE  EnoughAwake'
<1>1. Len(jobs) \in Nat BY LenProperties DEF TypeOK
<1>2. CASE Dequeuing' = Dequeuing BY <1>2 DEF EnoughAwake
<1>3. CASE \E w \in Workers : Dequeuing' = Dequeuing \cup {w}
  <2> PICK w \in Workers : Dequeuing' = Dequeuing \cup {w} BY <1>3
  <2>1. Cardinality(Dequeuing') \in {Cardinality(Dequeuing), Cardinality(Dequeuing) + 1}
    <3>1. CASE w \in Dequeuing
      <4>1. Dequeuing' = Dequeuing BY <3>1
      <4> QED BY <4>1
    <3>2. CASE w \notin Dequeuing BY <3>2, Counts
    <3> QED BY <3>1, <3>2
  <2> QED BY <1>1, <2>1, Counts DEF EnoughAwake
<1> QED BY <1>2, <1>3

\* The chain is as long as before.
LEMMA ChainKeeps ==
  ASSUME ChainUnbroken, UNCHANGED <<asked, wire, jobs>>, Holding' = Holding
  PROVE  ChainUnbroken'
BY DEF ChainUnbroken, Shutdowns, Queued
-----------------------------------------------------------------------------
\* The main thread stays among the workers and its stages.
LEMMA NextWorkerType ==
  ASSUME TypeOK, NEW again \in Stages, NEW next \in Stages, NextWorker(again, next)
  PROVE  at' \in Workers /\ phase' \in Stages
BY PoolAssumption DEF TypeOK, Workers, NextWorker

\* Queue::enqueue keeps the type of the queue and of the threads.
LEMMA EnqueueType ==
  ASSUME TypeOK, NEW m \in Messages, Enqueue(m)
  PROVE  /\ jobs' \in Seq(Messages)
         /\ pc' \in [Workers -> {"none", "loop", "dequeue", "asleep", "handle", "stop", "done"}]
BY AppendProperties DEF TypeOK, Enqueue, Asleep

\* What the main thread touches.
LEMMA MainTypes ==
  ASSUME TypeOK, NEW st \in Stages, NEW l \in Stages, NEW n \in Stages
  PROVE  /\ Check(st, l, n) => TypeOK'
         /\ Wait(st, l) => TypeOK'
         /\ Woken(st, l, n) => TypeOK'
         /\ WokenSpuriously(st, l, n) => TypeOK'
BY NextWorkerType DEF TypeOK, Check, Wait, Woken, WokenSpuriously, threads

\* The places and stages the actions name.
LEMMA StageFacts ==
  Stages = {"start", "check", "lock", "asleep", "woken", "check2", "lock2", "asleep2", "woken2",
            "destroy", "join", "exit"}
BY DEF Stages

\* Every step keeps the types.
LEMMA TypeStep ==
  ASSUME TypeOK, [Next]_vars
  PROVE  TypeOK'
<1>1. CASE Arrive BY <1>1, EnqueueType DEF Arrive, TypeOK, mainVars, Messages
<1>2. CASE AskShutdown BY <1>2 DEF AskShutdown, TypeOK, mainVars
<1>3. CASE Deliver BY <1>3, EnqueueType DEF Deliver, TypeOK, mainVars, Messages
<1>4. ASSUME NEW w \in Workers, WorkerStep(w) PROVE TypeOK'
  <2>1. CASE Loop(w) BY <2>1 DEF Loop, TypeOK, mainVars
  <2>2. CASE Dequeue(w)
    <3>1. jobs # <<>> => Head(jobs) \in Messages /\ Tail(jobs) \in Seq(Messages)
      BY HeadTailProperties DEF TypeOK
    <3> QED BY <2>2, <3>1 DEF Dequeue, TypeOK, mainVars
  <2>3. CASE HandleWork(w) BY <2>3 DEF HandleWork, TypeOK, mainVars
  <2>4. CASE HandleShutdown(w) BY <2>4 DEF HandleShutdown, TypeOK, mainVars
  <2>5. CASE Stop(w)
    <3>1. phase' \in Stages BY <2>5, StageFacts DEF Stop, Notify, TypeOK
    <3> QED BY <2>5, <3>1 DEF Stop, TypeOK
  <2> QED BY <1>4, <2>1, <2>2, <2>3, <2>4, <2>5 DEF WorkerStep
<1>5. CASE MainStep
  <2>1. CASE Start
    <3>1. at' \in Workers /\ phase' \in Stages BY <2>1, NextWorkerType, StageFacts DEF Start
    <3> QED BY <2>1, <3>1 DEF Start, TypeOK, threads
  <2>2. CASE Destroy
    <3>1. phase' \in Stages BY <2>2, StageFacts DEF Destroy
    <3> QED BY <2>2, <3>1 DEF Destroy, TypeOK, threads
  <2>3. CASE Join
    <3>1. at' \in Workers /\ phase' \in Stages BY <2>3, NextWorkerType, StageFacts DEF Join
    <3> QED BY <2>3, <3>1 DEF Join, TypeOK, threads
  <2> QED BY <1>5, <2>1, <2>2, <2>3, MainTypes, StageFacts DEF MainStep
<1>6. CASE Spurious
  BY <1>6, MainTypes, StageFacts DEF Spurious, SpuriousWakeup, TypeOK, mainVars
<1>7. CASE UNCHANGED vars BY <1>7 DEF vars, TypeOK
<1> QED BY <1>1, <1>2, <1>3, <1>4, <1>5, <1>6, <1>7 DEF Next
-----------------------------------------------------------------------------
\* A thread that runs is one that was started and that has not been joined.
LEMMA OrderKeeps ==
  ASSUME TypeOK, Unstarted, NoThreadOutlives, NEW w \in Workers, NEW place, Moves(w, place),
         pc[w] \notin {"none", "done"}, at' = at,
         phase' = phase \/ phase' \in {"woken", "woken2"}
  PROVE  Unstarted' /\ NoThreadOutlives'
BY MoveFacts DEF Unstarted, NoThreadOutlives

\* Steps that leave the queue and the threads where they are.
LEMMA QuietKeeps ==
  ASSUME TypeOK, EnoughAwake, ChainUnbroken, UNCHANGED <<jobs, wire, asked, msg, pc>>
  PROVE  EnoughAwake' /\ ChainUnbroken'
BY DEF EnoughAwake, ChainUnbroken, Shutdowns, Asleep, Dequeuing, Holding, Queued

\* enqueue: either nobody sleeps, or one more thread is awake for one more message.
LEMMA EnqueueKeeps ==
  ASSUME TypeOK, EnoughAwake, Unstarted, NoThreadOutlives, NEW m \in Messages, Enqueue(m), UNCHANGED <<msg, mainVars>>
  PROVE  EnoughAwake' /\ Unstarted' /\ NoThreadOutlives' /\ Holding' = Holding
<1>1. jobs \in Seq(Messages) /\ Len(jobs) \in Nat /\ Len(jobs') = Len(jobs) + 1
  BY AppendProperties, LenProperties DEF TypeOK, Enqueue
<1>2. CASE Asleep = {} /\ UNCHANGED pc
  BY <1>2 DEF EnoughAwake, Asleep, Unstarted, NoThreadOutlives, Holding, mainVars
<1>3. ASSUME NEW w \in Asleep, pc' = [pc EXCEPT ![w] = "dequeue"]
      PROVE  EnoughAwake' /\ Unstarted' /\ NoThreadOutlives' /\ Holding' = Holding
  <2>1. w \in Workers /\ pc[w] = "asleep" /\ Moves(w, "dequeue") BY <1>3 DEF Asleep, Moves
  <2>2. Dequeuing' = Dequeuing \cup {w} /\ w \notin Dequeuing
    BY <2>1, MoveFacts DEF Dequeuing
  <2>3. Len(jobs) <= Cardinality(Dequeuing) BY <1>3 DEF EnoughAwake
  <2>4. EnoughAwake'
    <3>1. Cardinality(Dequeuing \cup {w}) = Cardinality(Dequeuing) + 1 BY <2>1, <2>2, Counts
    <3>2. Cardinality(Dequeuing') = Cardinality(Dequeuing) + 1 BY <2>2, <3>1
    <3>3. Len(jobs') <= Cardinality(Dequeuing') BY <1>1, <2>3, <3>2, Counts
    <3> QED BY <3>3 DEF EnoughAwake
  <2>5. Holding' = Holding BY <2>1, MoveFacts DEF Holding
  <2> QED BY <2>1, <2>4, <2>5, OrderKeeps DEF mainVars
<1> QED BY <1>2, <1>3 DEF Enqueue

\* dequeue: a thread sleeps only when nothing waits, and takes one message otherwise.
LEMMA DequeueKeeps ==
  ASSUME PoolInv, NEW w \in Workers, Dequeue(w)
  PROVE  Unstarted' /\ NoThreadOutlives' /\ EnoughAwake' /\ ChainUnbroken'
<1> USE DEF PoolInv
<1>0. /\ pc[w] = "dequeue" /\ w \in Dequeuing /\ w \notin Holding /\ UNCHANGED <<wire, asked, mainVars>>
      /\ jobs \in Seq(Messages)
  BY DEF Dequeue, Dequeuing, Holding, TypeOK
<1>1. CASE jobs = <<>> /\ Moves(w, "asleep") /\ UNCHANGED <<jobs, msg>>
  <2>1. EnoughAwake'
    <3>1. Len(jobs') = 0 BY <1>1
    <3>2. Cardinality(Dequeuing') \in Nat
      <4>1. Dequeuing' \in SUBSET Workers BY DEF Dequeuing
      <4> QED BY <4>1, WorkersFinite
    <3> QED BY <3>1, <3>2 DEF EnoughAwake
  <2>2. Holding' = Holding BY <1>0, <1>1, MoveFacts DEF Holding
  <2> QED BY <1>0, <1>1, <2>1, <2>2, ChainKeeps, OrderKeeps DEF mainVars
<1>2. CASE /\ jobs # <<>> /\ Moves(w, "handle")
           /\ msg' = [msg EXCEPT ![w] = Head(jobs)] /\ jobs' = Tail(jobs)
  <2>1. Len(jobs') = Len(jobs) - 1 /\ Len(jobs) \in Nat
    BY <1>0, <1>2, HeadTailProperties, LenProperties
  <2>2. Asleep' \subseteq Asleep /\ Dequeuing' = Dequeuing \ {w} BY <1>2, MoveFacts
  <2>3. EnoughAwake'
    <3>1. Cardinality(Dequeuing \ {w}) = Cardinality(Dequeuing) - 1 BY <1>0, Counts
    <3>2. Cardinality(Dequeuing') = Cardinality(Dequeuing) - 1 BY <2>2, <3>1
    <3> SUFFICES ASSUME Asleep' # {} PROVE Len(jobs') <= Cardinality(Dequeuing')
      BY DEF EnoughAwake
    <3>3. Len(jobs) <= Cardinality(Dequeuing) BY <2>2 DEF EnoughAwake
    <3> QED BY <2>1, <3>2, <3>3, Counts
  <2>4. \A v \in Workers : msg'[v] = IF v = w THEN Head(jobs) ELSE msg[v]
    BY <1>2 DEF TypeOK
  <2>5. Holding' = IF Head(jobs) = "shutdown" THEN Holding \cup {w} ELSE Holding
    BY <1>0, <1>2, <2>4, MoveFacts DEF Holding
  <2>6. Cardinality(Holding') = Cardinality(Holding) + (IF Head(jobs) = "shutdown" THEN 1 ELSE 0)
    <3>1. CASE Head(jobs) = "shutdown"
      <4>1. Cardinality(Holding \cup {w}) = Cardinality(Holding) + 1 BY <1>0, Counts
      <4>2. Cardinality(Holding') = Cardinality(Holding) + 1 BY <2>5, <3>1, <4>1
      <4> QED BY <3>1, <4>2
    <3>2. CASE Head(jobs) # "shutdown"
      <4>1. Cardinality(Holding') = Cardinality(Holding) BY <2>5, <3>2
      <4> QED BY <3>2, <4>1, Counts
    <3> QED BY <3>1, <3>2
  <2>7. Cardinality(Queued(jobs)) = Cardinality(Queued(jobs')) + (IF Head(jobs) = "shutdown" THEN 1 ELSE 0)
    BY <1>0, <1>2, QueuedTail
  <2>8. Cardinality(Queued(jobs')) \in Nat BY <1>0, <1>2, QueuedFinite, HeadTailProperties
  <2>9. wire' = wire /\ wire \in Nat BY <1>0 DEF TypeOK
  <2>10. Shutdowns' = Shutdowns BY <2>6, <2>7, <2>8, <2>9, Counts DEF Shutdowns
  <2>11. ChainUnbroken' BY <1>0, <2>10 DEF ChainUnbroken
  <2> QED BY <1>0, <1>2, <2>3, <2>11, OrderKeeps DEF mainVars
<1> QED BY <1>1, <1>2 DEF Dequeue, Moves
\* A thread that neither sleeps nor is about to, and that holds no shutdown, moves.
LEMMA MoveKeeps ==
  ASSUME PoolInv, NEW w \in Workers, NEW place \in {"dequeue", "loop", "done"}, Moves(w, place),
         pc[w] \in {"loop", "asleep", "handle", "stop"}, w \notin Holding,
         UNCHANGED <<jobs, wire, asked, msg, at>>,
         phase' = phase \/ phase' \in {"woken", "woken2"}
  PROVE  Unstarted' /\ NoThreadOutlives' /\ EnoughAwake' /\ ChainUnbroken'
<1> USE DEF PoolInv
<1>1. Asleep' \subseteq Asleep BY MoveFacts
<1>2. Dequeuing' = Dequeuing \/ Dequeuing' = Dequeuing \cup {w}
  BY MoveFacts DEF Dequeuing
<1>3. Holding' = Holding BY MoveFacts DEF Holding
<1>4. EnoughAwake' BY <1>1, <1>2, AwakeKeeps
<1>5. ChainUnbroken' BY <1>3, ChainKeeps
<1> QED BY <1>4, <1>5, OrderKeeps

\* The thread that takes the shutdown passes it on and stops.
LEMMA HandleShutdownKeeps ==
  ASSUME PoolInv, NEW w \in Workers, HandleShutdown(w)
  PROVE  Unstarted' /\ NoThreadOutlives' /\ EnoughAwake' /\ ChainUnbroken'
<1> USE DEF PoolInv
<1>1. /\ Moves(w, "stop") /\ pc[w] = "handle" /\ w \in Holding
      /\ wire' = wire + 1 /\ wire \in Nat /\ UNCHANGED <<jobs, asked, msg, at, phase>>
  BY DEF HandleShutdown, Moves, Holding, TypeOK, mainVars
<1>2. Asleep' \subseteq Asleep /\ Dequeuing' = Dequeuing BY <1>1, MoveFacts DEF Dequeuing
<1>3. Holding' = Holding \ {w} BY <1>1, MoveFacts DEF Holding
<1>4. Cardinality(Holding') = Cardinality(Holding) - 1
  <2>1. Cardinality(Holding \ {w}) = Cardinality(Holding) - 1 BY <1>1, Counts
  <2> QED BY <1>3, <2>1
<1>5. Cardinality(Queued(jobs')) = Cardinality(Queued(jobs)) /\ Cardinality(Queued(jobs)) \in Nat
  BY <1>1, QueuedFinite DEF TypeOK
<1>6. Shutdowns' = Shutdowns BY <1>1, <1>4, <1>5, Counts DEF Shutdowns
<1>7. ChainUnbroken' BY <1>1, <1>6 DEF ChainUnbroken
<1>8. EnoughAwake' BY <1>1, <1>2, AwakeKeeps
<1> QED BY <1>1, <1>7, <1>8, OrderKeeps

\* start_workers: the thread it starts did not exist before.
LEMMA StartKeeps ==
  ASSUME PoolInv, Start
  PROVE  Unstarted' /\ NoThreadOutlives' /\ EnoughAwake' /\ ChainUnbroken'
<1> USE DEF PoolInv
<1>1. /\ phase = "start" /\ at \in Workers /\ pc[at] = "none" /\ Moves(at, "loop")
      /\ UNCHANGED <<jobs, wire, asked, msg>>
  BY PoolAssumption DEF Start, TypeOK, Unstarted, Moves, threads, Workers
<1>2. Asleep' = Asleep /\ Dequeuing' = Dequeuing
  BY <1>1, MoveFacts DEF Asleep, Dequeuing
<1>3. Holding' = Holding BY <1>1, MoveFacts DEF Holding
<1>4. EnoughAwake' BY <1>1, <1>2, AwakeKeeps
<1>5. ChainUnbroken' BY <1>1, <1>3, ChainKeeps
<1>6. Unstarted'
  <2>1. \A v \in Workers : v > at => pc'[v] = "none"
    BY <1>1, MoveFacts DEF Unstarted, Workers
  <2> QED BY <1>1, <2>1 DEF Start, NextWorker, Unstarted, Workers
<1>7. NoThreadOutlives' BY <1>1 DEF Start, NextWorker, NoThreadOutlives
<1> QED BY <1>4, <1>5, <1>6, <1>7

\* The shutdown that arrives is the one that was on its way.
LEMMA DeliverKeeps ==
  ASSUME PoolInv, Deliver
  PROVE  Unstarted' /\ NoThreadOutlives' /\ EnoughAwake' /\ ChainUnbroken'
<1> USE DEF PoolInv
<1>1. /\ wire' = wire - 1 /\ wire \in Nat /\ Enqueue("shutdown") /\ "shutdown" \in Messages
      /\ UNCHANGED <<asked, msg, mainVars>> /\ jobs \in Seq(Messages)
  BY DEF Deliver, TypeOK, Messages
<1>2. Unstarted' /\ NoThreadOutlives' /\ EnoughAwake' /\ Holding' = Holding
  BY <1>1, EnqueueKeeps
<1>3. jobs' = Append(jobs, "shutdown") BY <1>1 DEF Enqueue
<1>4. Cardinality(Queued(jobs')) = Cardinality(Queued(jobs)) + 1
  BY <1>1, <1>3, QueuedAppend
<1>5. Shutdowns' = Shutdowns
  BY <1>1, <1>2, <1>4, Counts, QueuedFinite DEF Shutdowns
<1> QED BY <1>1, <1>2, <1>5 DEF ChainUnbroken

\* A client's message is not a shutdown.
LEMMA ArriveKeeps ==
  ASSUME PoolInv, Arrive
  PROVE  Unstarted' /\ NoThreadOutlives' /\ EnoughAwake' /\ ChainUnbroken'
<1> USE DEF PoolInv
<1>1. /\ Enqueue("work") /\ "work" \in Messages /\ UNCHANGED <<wire, asked, msg, mainVars>>
      /\ jobs \in Seq(Messages)
  BY DEF Arrive, TypeOK, Messages
<1>2. Unstarted' /\ NoThreadOutlives' /\ EnoughAwake' /\ Holding' = Holding
  BY <1>1, EnqueueKeeps
<1>3. jobs' = Append(jobs, "work") BY <1>1 DEF Enqueue
<1>4. Cardinality(Queued(jobs')) = Cardinality(Queued(jobs))
  BY <1>1, <1>3, QueuedAppend, QueuedFinite
<1>5. Shutdowns' = Shutdowns BY <1>1, <1>2, <1>4 DEF Shutdowns
<1> QED BY <1>1, <1>2, <1>5 DEF ChainUnbroken

\* The first shutdown starts the chain.
LEMMA AskShutdownKeeps ==
  ASSUME PoolInv, AskShutdown
  PROVE  Unstarted' /\ NoThreadOutlives' /\ EnoughAwake' /\ ChainUnbroken'
<1> USE DEF PoolInv
<1>1. /\ asked = FALSE /\ asked' = TRUE /\ wire' = wire + 1 /\ wire \in Nat
      /\ UNCHANGED <<jobs, pc, msg, phase, at>> /\ jobs \in Seq(Messages)
  BY DEF AskShutdown, TypeOK, mainVars
<1>2. EnoughAwake' /\ Unstarted' /\ NoThreadOutlives'
  BY <1>1 DEF EnoughAwake, Unstarted, NoThreadOutlives, Asleep, Dequeuing
<1>3. Holding' = Holding BY <1>1 DEF Holding
<1>4. Shutdowns' = Shutdowns + 1 BY <1>1, <1>3, QueuedFinite, Counts DEF Shutdowns
<1>5. Shutdowns = 0 BY <1>1 DEF ChainUnbroken
<1> QED BY <1>1, <1>2, <1>4, <1>5 DEF ChainUnbroken

\* wait_workers and the destructors touch no message and no thread.
LEMMA MainKeeps ==
  ASSUME PoolInv, UNCHANGED <<jobs, wire, asked, msg, pc>>,
         \/ phase' \notin {"start", "destroy", "join", "exit"}
         \/ phase' = "destroy" /\ at' = 1
         \/ phase = "destroy" /\ phase' = "join" /\ at' = at
         \/ phase = "join" /\ pc[at] = "done" /\ NextWorker("destroy", "exit")
  PROVE  Unstarted' /\ NoThreadOutlives' /\ EnoughAwake' /\ ChainUnbroken'
<1> USE DEF PoolInv
<1>1. EnoughAwake' /\ ChainUnbroken' BY QuietKeeps
<1>2. Unstarted' BY DEF Unstarted, NextWorker
<1>3. NoThreadOutlives'
  <2>1. CASE phase' \notin {"start", "destroy", "join", "exit"} BY <2>1 DEF NoThreadOutlives
  <2>2. CASE phase' = "destroy" /\ at' = 1 BY <2>2 DEF NoThreadOutlives, Workers
  <2>3. CASE phase = "destroy" /\ phase' = "join" /\ at' = at BY <2>3 DEF NoThreadOutlives
  <2>4. CASE phase = "join" /\ pc[at] = "done" /\ NextWorker("destroy", "exit")
    BY <2>4, PoolAssumption DEF NoThreadOutlives, NextWorker, Workers, TypeOK
  <2> QED BY <2>1, <2>2, <2>3, <2>4
<1> QED BY <1>1, <1>2, <1>3
-----------------------------------------------------------------------------
\* Every step of a client, of the broker, of a worker and of the main thread keeps
\* the invariant.
LEMMA PoolStep ==
  ASSUME PoolInv, [Next]_vars
  PROVE  PoolInv'
<1>0. TypeOK' BY TypeStep DEF PoolInv
<1> SUFFICES Unstarted' /\ NoThreadOutlives' /\ EnoughAwake' /\ ChainUnbroken'
  BY <1>0 DEF PoolInv
<1>1. CASE Arrive BY <1>1, ArriveKeeps
<1>2. CASE AskShutdown BY <1>2, AskShutdownKeeps
<1>3. CASE Deliver BY <1>3, DeliverKeeps
<1>4. ASSUME NEW w \in Workers, WorkerStep(w) \/ SpuriousWakeup(w)
      PROVE  Unstarted' /\ NoThreadOutlives' /\ EnoughAwake' /\ ChainUnbroken'
  <2>1. CASE Loop(w) BY <2>1, MoveKeeps DEF Loop, Moves, mainVars, Holding
  <2>2. CASE Dequeue(w) BY <2>2, DequeueKeeps
  <2>3. CASE HandleWork(w) BY <2>3, MoveKeeps DEF HandleWork, Moves, mainVars, Holding
  <2>4. CASE HandleShutdown(w) BY <2>4, HandleShutdownKeeps
  <2>5. CASE Stop(w)
    <3>1. phase' = phase \/ phase' \in {"woken", "woken2"} BY <2>5 DEF Stop, Notify
    <3> QED BY <2>5, <3>1, MoveKeeps DEF Stop, Moves, Holding
  <2>6. CASE SpuriousWakeup(w) BY <2>6, MoveKeeps DEF SpuriousWakeup, Moves, mainVars, Holding
  <2> QED BY <1>4, <2>1, <2>2, <2>3, <2>4, <2>5, <2>6 DEF WorkerStep
<1>5. CASE MainStep \/ WokenSpuriously("asleep", "check", "check2")
                    \/ WokenSpuriously("asleep2", "check2", "destroy")
  <2>1. CASE Start BY <2>1, StartKeeps
  <2>2. CASE Check("check", "lock", "check2")
    BY <2>2, MainKeeps DEF Check, NextWorker, threads
  <2>3. CASE Wait("lock", "asleep") \/ Wait("lock2", "asleep2")
    BY <2>3, MainKeeps DEF Wait, threads
  <2>4. CASE \/ Woken("woken", "check", "check2")
             \/ WokenSpuriously("asleep", "check", "check2")
    BY <2>4, MainKeeps DEF Woken, WokenSpuriously, NextWorker, threads
  <2>5. CASE Check("check2", "lock2", "destroy")
    BY <2>5, MainKeeps DEF Check, NextWorker, threads
  <2>6. CASE \/ Woken("woken2", "check2", "destroy")
             \/ WokenSpuriously("asleep2", "check2", "destroy")
    BY <2>6, MainKeeps DEF Woken, WokenSpuriously, NextWorker, threads
  <2>7. CASE Destroy BY <2>7, MainKeeps DEF Destroy, threads
  <2>8. CASE Join BY <2>8, MainKeeps DEF Join, threads
  <2> QED BY <1>5, <2>1, <2>2, <2>3, <2>4, <2>5, <2>6, <2>7, <2>8 DEF MainStep
<1>6. CASE UNCHANGED vars
  <2>1. EnoughAwake' /\ ChainUnbroken' BY <1>6, QuietKeeps DEF vars, PoolInv
  <2> QED BY <1>6, <2>1 DEF vars, PoolInv, Unstarted, NoThreadOutlives
<1> QED BY <1>1, <1>2, <1>3, <1>4, <1>5, <1>6 DEF Next, Spurious

\* The server starts with an empty inbox, no thread and no shutdown.
LEMMA PoolStarts == Init => PoolInv
<1> SUFFICES ASSUME Init PROVE PoolInv OBVIOUS
<1>1. TypeOK
  <2>1. jobs \in Seq(Messages) BY EmptySeq DEF Init
  <2>2. phase \in Stages BY StageFacts DEF Init
  <2>3. at \in Workers BY PoolAssumption DEF Init, Workers
  <2>4. msg \in [Workers -> Messages] BY DEF Init, Messages
  <2>5. wire \in Nat BY DEF Init
  <2> QED BY <2>1, <2>2, <2>3, <2>4, <2>5 DEF Init, TypeOK
<1>2. Unstarted /\ NoThreadOutlives BY DEF Init, Unstarted, NoThreadOutlives
<1>3. EnoughAwake BY DEF Init, EnoughAwake, Asleep
<1>4. ChainUnbroken
  <2>0. DOMAIN jobs = 1 .. 0
    <3>1. jobs \in Seq(Messages) BY <1>1 DEF TypeOK
    <3>2. Len(jobs) = 0 BY <3>1, EmptySeq DEF Init
    <3> QED BY <3>1, <3>2, LenProperties
  <2>1. Queued(jobs) = {} /\ Holding = {} BY <2>0 DEF Init, Queued, Holding
  <2>2. Shutdowns = 0 BY <2>1, FS_EmptySet DEF Init, Shutdowns
  <2> QED BY <2>2 DEF Init, ChainUnbroken
<1> QED BY <1>1, <1>2, <1>3, <1>4 DEF PoolInv

\* The invariant of the pool holds in every reachable state.
LEMMA PoolInvariant == Spec => []PoolInv
BY PoolStarts, PoolStep, PTL DEF Spec

\* The queue, the threads and the main thread keep their types.
THEOREM PoolTypeCorrect == Spec => []TypeOK
<1>1. PoolInv => TypeOK BY DEF PoolInv
<1> QED BY <1>1, PoolInvariant, PTL

\* Queue::enqueue notifies one thread and Queue::dequeue looks at the queue again
\* after every wake-up, and that is enough: while a thread sleeps, every message has
\* a thread awake to take it, for any number of threads.
THEOREM NoWakeupIsLost == Spec => []EnoughAwake
<1>1. PoolInv => EnoughAwake BY DEF PoolInv
<1> QED BY <1>1, PoolInvariant, PTL

\* handle_system_message hands the shutdown to the next thread: exactly one is under
\* way from the first on, for any number of threads and whatever wakes them up.
THEOREM ShutdownIsNeverLost == Spec => []ChainUnbroken
<1>1. PoolInv => ChainUnbroken BY DEF PoolInv
<1> QED BY <1>1, PoolInvariant, PTL

\* The destructors join the workers one after the other and the server exits after
\* all of its threads, though wait_workers may have returned early.
THEOREM ThreadsAreJoined == Spec => []NoThreadOutlives
<1>1. PoolInv => NoThreadOutlives BY DEF PoolInv
<1> QED BY <1>1, PoolInvariant, PTL
=============================================================================
