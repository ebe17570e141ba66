----------------------------- MODULE WorkerPool -----------------------------
(***************************************************************************)
(* The threads of the Agora server: the synchronized inbox (class Queue),  *)
(* the workers that wait on it, the shutdown that they pass on to each     *)
(* other through the broker, and the main thread that waits for them       *)
(* (ThreadPool::wait_workers, its destructor and those of the workers).    *)
(*                                                                         *)
(* Condition variables are modelled with the threads that sleep on them;   *)
(* a wake-up that finds nobody asleep is lost, and a thread may wake up    *)
(* without one.  What a worker does with an ordinary message is the        *)
(* subject of AgoraHandler.                                                *)
(***************************************************************************)
EXTENDS Naturals, Sequences, FiniteSets

CONSTANTS
  N,          \* number_of_threads of the pool
  MaxJobs     \* bound: no client sends while so many messages wait

ASSUME PoolAssumption == N \in Nat \ {0} /\ MaxJobs \in Nat

VARIABLES
  jobs,       \* job_queue, oldest message first
  wire,       \* shutdown messages that the broker has not delivered yet
  asked,      \* somebody published a shutdown
  pc,         \* pc[w]: where worker w is
  msg,        \* msg[w]: the message it handles
  finished,   \* finished[w]: its flag
  phase,      \* where the main thread is
  at          \* ... and the worker it has come to

vars == <<jobs, wire, asked, pc, msg, finished, phase, at>>

Workers == 1..N
Messages == {"work", "shutdown"}
Stages == {"start", "check", "lock", "asleep", "woken",      \* wait_workers
           "check2", "lock2", "asleep2", "woken2",           \* in ~ThreadPool
           "destroy", "join", "exit"}                        \* ~Worker of each

Asleep == {w \in Workers : pc[w] = "asleep"}

-----------------------------------------------------------------------------
Init ==
  /\ jobs = <<>> /\ wire = 0 /\ asked = FALSE
  /\ pc = [w \in Workers |-> "none"]
  /\ msg = [w \in Workers |-> "work"]
  /\ finished = [w \in Workers |-> FALSE]
  /\ phase = "start" /\ at = 1

mainVars == <<phase, at>>

\* faulty: nobody is notified
Enqueue_Silent(m) == jobs' = Append(jobs, m) /\ UNCHANGED pc

\* Queue::enqueue, with notify_one
Enqueue(m) ==
  /\ jobs' = Append(jobs, m)
  /\ \/ Asleep = {} /\ UNCHANGED pc
     \/ \E w \in Asleep : pc' = [pc EXCEPT ![w] = "dequeue"]

\* A client's message arrives (recv_callback_function).
Arrive ==
  /\ phase # "exit" /\ Len(jobs) < MaxJobs
  /\ Enqueue("work")
  /\ UNCHANGED <<wire, asked, msg, finished, mainVars>>

\* Somebody publishes a shutdown.
AskShutdown ==
  /\ ~asked
  /\ asked' = TRUE /\ wire' = wire + 1
  /\ UNCHANGED <<jobs, pc, msg, finished, mainVars>>

\* The broker delivers a shutdown to the server, which is subscribed to it.
Deliver ==
  /\ phase # "exit" /\ wire > 0
  /\ wire' = wire - 1
  /\ Enqueue("shutdown")
  /\ UNCHANGED <<asked, msg, finished, mainVars>>

-----------------------------------------------------------------------------
(* Worker::task *)

Loop(w) ==
  /\ pc[w] = "loop"
  /\ pc' = [pc EXCEPT ![w] = IF finished[w] THEN "done" ELSE "dequeue"]
  /\ UNCHANGED <<jobs, wire, asked, msg, finished, mainVars>>

\* Queue::dequeue, mutex held
Dequeue(w) ==
  /\ pc[w] = "dequeue"
  /\ \/ /\ jobs = <<>>
        /\ pc' = [pc EXCEPT ![w] = "asleep"]
        /\ UNCHANGED <<jobs, msg>>
     \/ /\ jobs # <<>>
        /\ pc' = [pc EXCEPT ![w] = "handle"]
        /\ msg' = [msg EXCEPT ![w] = Head(jobs)]
        /\ jobs' = Tail(jobs)
  /\ UNCHANGED <<wire, asked, finished, mainVars>>

\* "please, note that spurious wake up happens!"
SpuriousWakeup(w) ==
  /\ pc[w] = "asleep"
  /\ pc' = [pc EXCEPT ![w] = "dequeue"]
  /\ UNCHANGED <<jobs, wire, asked, msg, finished, mainVars>>

HandleWork(w) ==
  /\ pc[w] = "handle" /\ msg[w] = "work"
  /\ pc' = [pc EXCEPT ![w] = "loop"]
  /\ UNCHANGED <<jobs, wire, asked, msg, finished, mainVars>>

\* faulty: the other threads are not told
HandleShutdown_Alone(w) ==
  /\ pc[w] = "handle" /\ msg[w] = "shutdown"
  /\ pc' = [pc EXCEPT ![w] = "stop"]
  /\ UNCHANGED <<jobs, wire, asked, msg, finished, mainVars>>

\* handle_system_message: "send a message to any other alive threads", then stop
HandleShutdown(w) ==
  /\ pc[w] = "handle" /\ msg[w] = "shutdown"
  /\ wire' = wire + 1
  /\ pc' = [pc EXCEPT ![w] = "stop"]
  /\ UNCHANGED <<jobs, asked, msg, finished, mainVars>>

\* Worker::stop of w: notify_all reaches the main thread if it sleeps on w
Notify(w) ==
  phase' = CASE at = w /\ phase = "asleep" /\ ~finished[w] -> "woken"
             [] at = w /\ phase = "asleep2" /\ ~finished[w] -> "woken2"
             [] OTHER -> phase

\* faulty: the thread goes on as if it had not been stopped
Stop_Forgets(w) ==
  /\ pc[w] = "stop"
  /\ pc' = [pc EXCEPT ![w] = "loop"]
  /\ Notify(w)
  /\ UNCHANGED <<jobs, wire, asked, msg, at, finished>>

Stop(w) ==
  /\ pc[w] = "stop"
  /\ pc' = [pc EXCEPT ![w] = "loop"]
  /\ finished' = [finished EXCEPT ![w] = TRUE]
  /\ Notify(w)
  /\ UNCHANGED <<jobs, wire, asked, msg, at>>

-----------------------------------------------------------------------------
(* The main thread *)

threads == <<jobs, wire, asked, msg>>

\* faulty: it goes on past the last worker
NextWorker_OffByOne(again, next) ==
  IF at <= N THEN at' = at + 1 /\ phase' = again ELSE at' = 1 /\ phase' = next

\* go on with the next worker, or with the first one in the next stage
NextWorker(again, next) ==
  IF at < N THEN at' = at + 1 /\ phase' = again ELSE at' = 1 /\ phase' = next

\* start_workers
Start ==
  /\ phase = "start"
  /\ pc' = [pc EXCEPT ![at] = "loop"]
  /\ NextWorker("start", "check")
  /\ UNCHANGED <<threads, finished>>

\* wait_workers: is_running is read without the mutex of the worker
Check(check, lock, next) ==
  /\ phase = check
  /\ \/ finished[at] /\ NextWorker(check, next)
     \/ ~finished[at] /\ phase' = lock /\ UNCHANGED at
  /\ UNCHANGED <<threads, pc, finished>>

\* Worker::wait: lock, then sleep whether the worker has finished or not
Wait(lock, asleep) ==
  /\ phase = lock
  /\ phase' = asleep
  /\ UNCHANGED <<threads, pc, finished, at>>

Woken(woken, check, next) ==
  /\ phase = woken
  /\ NextWorker(check, next)
  /\ UNCHANGED <<threads, pc, finished>>

\* Worker::wait has no condition to look at again
WokenSpuriously(asleep, check, next) ==
  /\ phase = asleep
  /\ NextWorker(check, next)
  /\ UNCHANGED <<threads, pc, finished>>

\* ~Worker: stop, unless it is finished, and join
Destroy ==
  /\ phase = "destroy"
  /\ finished' = [finished EXCEPT ![at] = TRUE]
  /\ phase' = "join"
  /\ UNCHANGED <<threads, pc, at>>

Join ==
  /\ phase = "join" /\ pc[at] = "done"
  /\ NextWorker("destroy", "exit")
  /\ UNCHANGED <<threads, pc, finished>>

MainStep ==
  \/ Start
  \/ Check("check", "lock", "check2") \/ Wait("lock", "asleep")
  \/ Woken("woken", "check", "check2")
  \/ Check("check2", "lock2", "destroy") \/ Wait("lock2", "asleep2")
  \/ Woken("woken2", "check2", "destroy")
  \/ Destroy \/ Join

WorkerStep(w) ==
  Loop(w) \/ Dequeue(w) \/ HandleWork(w) \/ HandleShutdown(w) \/ Stop(w)

Spurious ==
  \/ \E w \in Workers : SpuriousWakeup(w)
  \/ WokenSpuriously("asleep", "check", "check2")
  \/ WokenSpuriously("asleep2", "check2", "destroy")

Next ==
  \/ Arrive \/ AskShutdown \/ Deliver
  \/ \E w \in Workers : WorkerStep(w)
  \/ MainStep
  \/ Spurious

\* Threads run and the broker delivers.
Fairness ==
  /\ WF_vars(Deliver) /\ WF_vars(MainStep)
  /\ \A w \in Workers : WF_vars(WorkerStep(w))

Spec == Init /\ [][Next]_vars /\ Fairness

-----------------------------------------------------------------------------
(* Properties *)

\* Type invariant of the queue, the workers and the main thread.
TypeOK ==
  /\ jobs \in Seq(Messages) /\ wire \in Nat /\ asked \in BOOLEAN
  /\ pc \in [Workers -> {"none", "loop", "dequeue", "asleep", "handle", "stop", "done"}]
  /\ msg \in [Workers -> Messages]
  /\ finished \in [Workers -> BOOLEAN]
  /\ phase \in Stages /\ at \in Workers

\* workers awake inside dequeue
Dequeuing == {w \in Workers : pc[w] = "dequeue"}

\* The queue loses no wake-up although notify_one is all it sends: while a worker
\* sleeps in dequeue, every message that waits has another worker, awake and inside
\* dequeue, to take it.
EnoughAwake ==
  Asleep # {} => Len(jobs) <= Cardinality(Dequeuing)

\* shutdowns on their way, in the inbox or taken by a worker
Queued(s) == {i \in DOMAIN s : s[i] = "shutdown"}
Holding == {w \in Workers : pc[w] = "handle" /\ msg[w] = "shutdown"}
Shutdowns == wire + Cardinality(Queued(jobs)) + Cardinality(Holding)

\* The chain by which the threads end each other does not break, nor fork: from the
\* first shutdown on, and whatever ends the threads, one is always under way.
ChainUnbroken == Shutdowns = IF asked THEN 1 ELSE 0

\* A shutdown ends every thread, one after the other.
ShutdownReachesAll == asked ~> \A w \in Workers : pc[w] = "done"

\* wait_workers (threadpool.hpp): "Wait the assigned task on all running threads":
\* it comes back when the threads are gone and the server exits.
ServerExits == (\A w \in Workers : pc[w] = "done") ~> phase = "exit"
=============================================================================
