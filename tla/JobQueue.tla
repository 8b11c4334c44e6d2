------------------------------ MODULE JobQueue ------------------------------
(***************************************************************************)
(* What the thread pool promises its caller, without locks, condition      *)
(* variables or thread handles: a bounded FIFO of accepted jobs, each      *)
(* executed by exactly one worker, and a one-way switch that stops         *)
(* acceptance.  ThreadPool is shown to implement this module; EventLoop    *)
(* uses it as its pool.                                                    *)
(***************************************************************************)
EXTENDS Naturals, Sequences

CONSTANTS Worker,    \* the threads the pool started
          Job,       \* everything that can be submitted
          NoJob,     \* "this worker holds no job"
          MaxQueue   \* ThreadPool::max_queue_, already at least 1

VARIABLES queue,     \* accepted, not yet started, oldest first
          running,   \* running[w]: the job worker w executes, or NoJob
          closed     \* the pool no longer accepts

poolVars == <<queue, running, closed>>

PoolTypeOK == /\ queue \in Seq(Job)
              /\ running \in [Worker -> Job \cup {NoJob}]
              /\ closed \in BOOLEAN

PoolInit == /\ queue = <<>>
            /\ running = [w \in Worker |-> NoJob]
            /\ closed = FALSE

(* When this is FALSE try_submit() returns false and changes nothing.      *)
Accepts == /\ ~closed
           /\ Worker # {}
           /\ Len(queue) < MaxQueue

Submit(j) == /\ Accepts
             /\ queue' = Append(queue, j)
             /\ UNCHANGED <<running, closed>>

Start(w) == /\ running[w] = NoJob
            /\ queue # <<>>
            /\ running' = [running EXCEPT ![w] = Head(queue)]
            /\ queue' = Tail(queue)
            /\ UNCHANGED closed

Finish(w) == /\ running[w] # NoJob
             /\ running' = [running EXCEPT ![w] = NoJob]
             /\ UNCHANGED <<queue, closed>>

Close == /\ closed' = TRUE
         /\ UNCHANGED <<queue, running>>

(* What a successful join of every worker means.                           *)
Drained == /\ closed
           /\ queue = <<>>
           /\ \A w \in Worker : running[w] = NoJob

PoolNext == \/ \E j \in Job : Submit(j)
            \/ \E w \in Worker : Start(w) \/ Finish(w)
            \/ Close

PoolSpec == PoolInit /\ [][PoolNext]_poolVars
=============================================================================
