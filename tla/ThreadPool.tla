----------------------------- MODULE ThreadPool -----------------------------
(***************************************************************************)
(* ThreadPool (thread_pool.h, thread_pool.cpp): a fixed set of workers, a  *)
(* bounded queue under one mutex, and one condition variable.              *)
(*                                                                         *)
(* A critical section (a scope that holds mu_) is one step.  What happens  *)
(* outside it is a step of its own: notify_one()/notify_all() run after    *)
(* the unlock, jobs run without the lock, and each join of a thread is     *)
(* separate.  One thread, the event loop, calls the public operations.     *)
(***************************************************************************)
EXTENDS Naturals, Sequences, FiniteSets

CONSTANTS Worker,       \* worker threads the constructor is asked for
          Job,          \* distinct jobs the caller may submit, once each
          NoJob,
          MaxQueueArg   \* the constructor's max_queue argument

ASSUME WorkerAssumption == IsFiniteSet(Worker)
ASSUME JobAssumption == NoJob \notin Job
ASSUME QueueAssumption == MaxQueueArg \in Nat

VARIABLES queue,      \* queue_
          stopping,   \* stopping_
          joined,     \* joined_
          threads,    \* threads_: started and not yet handed to a joiner
          position,   \* where each worker thread is (see Position)
          running,    \* the job each worker executes outside the lock
          caller,     \* where the calling thread is (see CallerPC)
          toJoin,     \* to_join, the local vector of stop()/stop_forced()
          detached,   \* workers stop_forced() gave up on
          accepted,   \* history: the jobs try_submit() said true for
          done        \* history: the jobs whose execution has ended

vars == <<queue, stopping, joined, threads, position, running, caller,
          toJoin, detached, accepted, done>>

(* absent: pthread_create failed, the thread never existed                 *)
(* ready:  about to take mu_ and evaluate the wait predicate               *)
(* asleep: blocked in have_work_.wait()                                    *)
(* busy:   executing a job                                                 *)
(* gone:   run() has returned                                              *)
Position == {"absent", "ready", "asleep", "busy", "gone"}

(* idle:    in no pool operation                                           *)
(* notify:  try_submit() pushed and unlocked, notify_one() still to come   *)
(* wake:    stop() unlocked, notify_all() still to come                    *)
(* wakeF:   the same in stop_forced()                                      *)
(* join:    stop() is joining;    tryjoin: stop_forced() is joining        *)
CallerPC == {"idle", "notify", "wake", "wakeF", "join", "tryjoin"}

In(p) == {w \in Worker : position[w] = p}

max_queue == IF MaxQueueArg = 0 THEN 1 ELSE MaxQueueArg

TypeOK == /\ queue \in Seq(Job)
          /\ stopping \in BOOLEAN
          /\ joined \in BOOLEAN
          /\ threads \in SUBSET Worker
          /\ position \in [Worker -> Position]
          /\ running \in [Worker -> Job \cup {NoJob}]
          /\ caller \in CallerPC
          /\ toJoin \in SUBSET Worker
          /\ detached \in SUBSET Worker
          /\ accepted \in SUBSET Job
          /\ done \in SUBSET Job

-----------------------------------------------------------------------------
(* The constructor: pthread_create() may fail part-way, and the pool then  *)
(* runs with the threads it has, possibly none.                            *)
Init == /\ queue = <<>>
        /\ stopping = FALSE
        /\ joined = FALSE
        /\ threads \in SUBSET Worker
        /\ position = [w \in Worker |->
                         IF w \in threads THEN "ready" ELSE "absent"]
        /\ running = [w \in Worker |-> NoJob]
        /\ caller = "idle"
        /\ toJoin = {}
        /\ detached = {}
        /\ accepted = {}
        /\ done = {}

(* Mutant: one job more than the queue may hold.                           *)
TrySubmitOverfull(j) ==
  /\ caller = "idle" /\ j \notin accepted
  /\ ~stopping /\ threads # {} /\ Len(queue) <= max_queue
  /\ queue' = Append(queue, j)
  /\ accepted' = accepted \cup {j}
  /\ caller' = "notify"
  /\ UNCHANGED <<stopping, joined, threads, position, running, toJoin,
                 detached, done>>

(* try_submit(), the accepting path.  The rejecting paths (stopping, no    *)
(* thread, queue full) return false and change nothing.                    *)
try_submit(j) == /\ caller = "idle"
                 /\ j \notin accepted
                 /\ ~stopping
                 /\ threads # {}
                 /\ Len(queue) < max_queue
                 /\ queue' = Append(queue, j)
                 /\ accepted' = accepted \cup {j}
                 /\ caller' = "notify"
                 /\ UNCHANGED <<stopping, joined, threads, position, running,
                                toJoin, detached, done>>

(* Mutant: notifying only when the queue had been empty.                   *)
NotifyFirstOnly ==
  /\ caller = "notify"
  /\ \/ /\ In("asleep") = {} \/ Len(queue) > 1
        /\ UNCHANGED position
     \/ \E w \in In("asleep") : /\ Len(queue) <= 1
                               /\ position' = [position EXCEPT ![w] = "ready"]
  /\ caller' = "idle"
  /\ UNCHANGED <<queue, stopping, joined, threads, running, toJoin, detached,
                 accepted, done>>

(* have_work_.notify_one(), after the unlock: it wakes some sleeper, or is *)
(* lost when nobody sleeps.                                                *)
NotifyOne == /\ caller = "notify"
             /\ \/ /\ In("asleep") = {}
                   /\ UNCHANGED position
                \/ \E w \in In("asleep") :
                      position' = [position EXCEPT ![w] = "ready"]
             /\ caller' = "idle"
             /\ UNCHANGED <<queue, stopping, joined, threads, running,
                            toJoin, detached, accepted, done>>

(* Mutant: the handles are copied for joining, not moved out.              *)
CloseKeepingThreads(next) ==
  /\ caller = "idle"
  /\ stopping' = TRUE
  /\ toJoin' = threads
  /\ joined' = TRUE
  /\ caller' = next
  /\ UNCHANGED <<queue, threads, position, running, detached, accepted, done>>

(* The critical section shared by stop() and stop_forced().                *)
CloseAndTakeThreads(next) ==
  /\ caller = "idle"
  /\ stopping' = TRUE
  /\ toJoin' = threads
  /\ threads' = {}
  /\ joined' = TRUE
  /\ caller' = next
  /\ UNCHANGED <<queue, position, running, detached, accepted, done>>

(* stop(): a second call finds stopping_ && joined_ and returns at once.   *)
stop == ~(stopping /\ joined) /\ CloseAndTakeThreads("wake")

(* stop_forced() has no such early return.                                 *)
stop_forced == CloseAndTakeThreads("wakeF")

(* Mutant: notify_one() in place of notify_all().                          *)
NotifyJustOne ==
  /\ caller \in {"wake", "wakeF"}
  /\ \/ In("asleep") = {} /\ UNCHANGED position
     \/ \E w \in In("asleep") : position' = [position EXCEPT ![w] = "ready"]
  /\ caller' = IF caller = "wake" THEN "join" ELSE "tryjoin"
  /\ UNCHANGED <<queue, stopping, joined, threads, running, toJoin, detached,
                 accepted, done>>

NotifyAll == /\ caller \in {"wake", "wakeF"}
             /\ position' = [w \in Worker |->
                               IF position[w] = "asleep" THEN "ready"
                               ELSE position[w]]
             /\ caller' = IF caller = "wake" THEN "join" ELSE "tryjoin"
             /\ UNCHANGED <<queue, stopping, joined, threads, running,
                            toJoin, detached, accepted, done>>

(* pthread_join() / a pthread_tryjoin_np() that found the thread finished. *)
Join(w) == /\ caller \in {"join", "tryjoin"}
           /\ w \in toJoin
           /\ position[w] = "gone"
           /\ toJoin' = toJoin \ {w}
           /\ UNCHANGED <<queue, stopping, joined, threads, position, running,
                          caller, detached, accepted, done>>

(* pthread_detach(): the deadline passed and the thread is still there.    *)
Detach(w) == /\ caller = "tryjoin"
             /\ w \in toJoin
             /\ position[w] # "gone"
             /\ toJoin' = toJoin \ {w}
             /\ detached' = detached \cup {w}
             /\ UNCHANGED <<queue, stopping, joined, threads, position,
                            running, caller, accepted, done>>

StopReturns == /\ caller \in {"join", "tryjoin"}
               /\ toJoin = {}
               /\ caller' = "idle"
               /\ UNCHANGED <<queue, stopping, joined, threads, position,
                              running, toJoin, detached, accepted, done>>

-----------------------------------------------------------------------------
(* Mutants: queue_.pop_front() is missing; a worker leaves as soon as it   *)
(* sees stopping_.                                                         *)
TakeKeepingFront(w) ==
  /\ position[w] = "ready" /\ queue # <<>>
  /\ running' = [running EXCEPT ![w] = Head(queue)]
  /\ position' = [position EXCEPT ![w] = "busy"]
  /\ UNCHANGED <<queue, stopping, joined, threads, caller, toJoin, detached,
                 accepted, done>>

LeaveAtOnce(w) ==
  /\ position[w] = "ready" /\ stopping
  /\ position' = [position EXCEPT ![w] = "gone"]
  /\ UNCHANGED <<queue, stopping, joined, threads, running, caller, toJoin,
                 detached, accepted, done>>

(* run(): the three outcomes of waiting for `stopping_ || !queue_.empty()` *)
(* under the lock, and the end of a job.                                   *)
Take(w) == /\ position[w] = "ready"
           /\ queue # <<>>
           /\ running' = [running EXCEPT ![w] = Head(queue)]
           /\ queue' = Tail(queue)
           /\ position' = [position EXCEPT ![w] = "busy"]
           /\ UNCHANGED <<stopping, joined, threads, caller, toJoin,
                          detached, accepted, done>>

Sleep(w) == /\ position[w] = "ready"
            /\ queue = <<>>
            /\ ~stopping
            /\ position' = [position EXCEPT ![w] = "asleep"]
            /\ UNCHANGED <<queue, stopping, joined, threads, running, caller,
                           toJoin, detached, accepted, done>>

Leave(w) == /\ position[w] = "ready"
            /\ queue = <<>>
            /\ stopping
            /\ position' = [position EXCEPT ![w] = "gone"]
            /\ UNCHANGED <<queue, stopping, joined, threads, running, caller,
                           toJoin, detached, accepted, done>>

(* The job returned, or threw and was swallowed: the loop goes on.         *)
JobEnds(w) == /\ position[w] = "busy"
              /\ done' = done \cup {running[w]}
              /\ running' = [running EXCEPT ![w] = NoJob]
              /\ position' = [position EXCEPT ![w] = "ready"]
              /\ UNCHANGED <<queue, stopping, joined, threads, caller, toJoin,
                             detached, accepted>>

(* A condition variable may wake without a notification.                   *)
SpuriousWakeup(w) == /\ position[w] = "asleep"
                     /\ position' = [position EXCEPT ![w] = "ready"]
                     /\ UNCHANGED <<queue, stopping, joined, threads, running,
                                    caller, toJoin, detached, accepted, done>>

CallerStep == \/ \E j \in Job : try_submit(j)
              \/ NotifyOne
              \/ stop
              \/ stop_forced
              \/ NotifyAll
              \/ \E w \in Worker : Join(w) \/ Detach(w)
              \/ StopReturns

WorkerStep(w) == Take(w) \/ Sleep(w) \/ Leave(w) \/ JobEnds(w)

Next == \/ CallerStep
        \/ \E w \in Worker : WorkerStep(w) \/ SpuriousWakeup(w)

Spec == Init /\ [][Next]_vars

(* The scheduler runs every thread that can run: workers, and the caller   *)
(* inside an operation it has begun.  Nothing obliges the caller to submit *)
(* or to stop, a forced stop to wait, or a sleeper to wake spuriously.     *)
Fairness == /\ \A w \in Worker : WF_vars(WorkerStep(w))
            /\ \A w \in Worker : WF_vars(Join(w))
            /\ WF_vars(NotifyOne)
            /\ WF_vars(NotifyAll)
            /\ WF_vars(StopReturns)

FairSpec == Spec /\ Fairness

-----------------------------------------------------------------------------
Queued == {queue[i] : i \in 1..Len(queue)}
Running == {running[w] : w \in Worker} \ {NoJob}

(* No job is lost, invented or executed twice: every job try_submit()      *)
(* accepted is in exactly one place - once in queue_, held by exactly one  *)
(* worker, or executed.                                                    *)
JobsConserved ==
  /\ accepted = Queued \cup Running \cup done
  /\ Queued \cap Running = {}
  /\ (Queued \cup Running) \cap done = {}
  /\ \A i, k \in 1..Len(queue) : queue[i] = queue[k] => i = k
  /\ \A v, w \in Worker : running[v] = running[w] /\ running[v] # NoJob => v = w

(* No wakeup is lost although try_submit() notifies after unlocking: while *)
(* a worker sleeps, every queued job has a worker already on its way to    *)
(* the queue, or the notification for it is still to come.                 *)
NoLostWakeup ==
  In("asleep") # {} =>
    Len(queue) <= Cardinality(In("ready")) + (IF caller = "notify" THEN 1 ELSE 0)

(* stop() cannot strand a sleeper: once stopping_ is set only the pending  *)
(* notify_all() separates a sleeping worker from seeing it.                *)
StopWakesEveryone ==
  stopping /\ In("asleep") # {} => caller \in {"wake", "wakeF"}

(* "Lossless": a stop that returned without giving up on a thread has      *)
(* executed every accepted job, and no worker is left to touch the pool.   *)
StopIsLossless ==
  joined /\ caller = "idle" /\ detached = {} =>
    done = accepted /\ In("gone") = Worker \ In("absent")

(* How the flags, the thread handles and the workers' positions hang       *)
(* together; the strengthening under which the properties above are        *)
(* inductive.  In particular a worker that left, or a pool without         *)
(* threads, leaves nothing in queue_.                                      *)
Bookkeeping ==
  /\ \A w \in Worker : position[w] = "busy" <=> running[w] # NoJob
  /\ joined = stopping
  /\ ~stopping => /\ threads = Worker \ In("absent")
                  /\ toJoin = {} /\ detached = {} /\ In("gone") = {}
                  /\ caller \in {"idle", "notify"}
  /\ stopping => threads = {} /\ caller # "notify"
  /\ stopping => \A w \in Worker : position[w] \in {"absent", "gone"}
                                   \/ w \in toJoin \cup detached
  /\ caller = "idle" => toJoin = {}
  /\ In("gone") # {} \/ In("absent") = Worker => queue = <<>>

(* Every accepted job is eventually executed, whether or not the pool is   *)
(* stopped or forcibly stopped meanwhile.                                  *)
EveryJobRuns == \A j \in Job : j \in accepted ~> j \in done

(* stop() and stop_forced() return.                                        *)
StopTerminates == caller \in {"join", "tryjoin"} ~> caller = "idle"

Abstract == INSTANCE JobQueue WITH MaxQueue <- max_queue, closed <- stopping
(* The pool implements the bounded FIFO the event loop relies on.          *)
ImplementsJobQueue == Abstract!PoolSpec
=============================================================================
