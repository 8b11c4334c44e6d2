-------------------------- MODULE ThreadPoolProofs --------------------------
(***************************************************************************)
(* TLAPS proofs about ThreadPool, for any finite set of workers, any set   *)
(* of jobs and any queue bound.                                            *)
(***************************************************************************)
EXTENDS ThreadPool, FiniteSetTheorems, SequenceTheorems, TLAPS

(* The inductive core: types and bookkeeping need nothing else.            *)
Core == TypeOK /\ Bookkeeping

(* A new pool satisfies Core.                                              *)
LEMMA CoreInit == Init => Core
<1> SUFFICES ASSUME Init PROVE Core
  OBVIOUS
<1>1. queue \in Seq(Job) /\ position \in [Worker -> Position]
  BY DEF Init, Position
<1>2. TypeOK
  BY <1>1 DEF Init, TypeOK, CallerPC
<1>3. Bookkeeping
  BY DEF Init, Bookkeeping, In
<1> QED BY <1>2, <1>3 DEF Core

(* Every step of the pool keeps Core.                                      *)
LEMMA CoreStep == Core /\ [Next]_vars => Core'
<1> SUFFICES ASSUME Core, [Next]_vars PROVE Core'
  OBVIOUS
<1> USE DEF Core, TypeOK, Position, CallerPC, Bookkeeping, In
<1>1. ASSUME NEW j \in Job, try_submit(j) PROVE Core'
  BY <1>1 DEF try_submit
<1>2. CASE NotifyOne
  BY <1>2 DEF NotifyOne
<1>3. CASE stop
  BY <1>3 DEF stop, CloseAndTakeThreads
<1>4. CASE stop_forced
  BY <1>4 DEF stop_forced, CloseAndTakeThreads
<1>5. CASE NotifyAll
  BY <1>5 DEF NotifyAll
<1>6. ASSUME NEW w \in Worker, Join(w) \/ Detach(w) PROVE Core'
  BY <1>6 DEF Join, Detach
<1>7. CASE StopReturns
  BY <1>7 DEF StopReturns
<1>8. ASSUME NEW w \in Worker, Take(w) PROVE Core'
  BY <1>8, JobAssumption DEF Take
<1>9. ASSUME NEW w \in Worker, Sleep(w) \/ Leave(w) \/ SpuriousWakeup(w)
      PROVE  Core'
  BY <1>9 DEF Sleep, Leave, SpuriousWakeup
<1>10. ASSUME NEW w \in Worker, JobEnds(w) PROVE Core'
  BY <1>10 DEF JobEnds
<1>11. CASE UNCHANGED vars
  BY <1>11 DEF vars
<1> QED
  BY <1>1, <1>2, <1>3, <1>4, <1>5, <1>6, <1>7, <1>8, <1>9, <1>10, <1>11
     DEF Next, CallerStep, WorkerStep

(* Every variable keeps its type, and the flags, thread handles and        *)
(* positions stay consistent.                                              *)
THEOREM TypeCorrect == Spec => [](TypeOK /\ Bookkeeping)
<1> QED BY CoreInit, CoreStep, PTL DEF Spec, Core

-----------------------------------------------------------------------------
(* Sleepers and wakeups.                                                   *)

(* Any set of workers is finite.                                           *)
LEMMA ReadyFinite ==
  ASSUME NEW S \in SUBSET Worker
  PROVE  IsFiniteSet(S) /\ Cardinality(S) \in Nat
BY FS_Subset, FS_CardinalityType, WorkerAssumption

(* Every step keeps the absence of lost wakeups.                           *)
LEMMA WakeupStep ==
  Core /\ Core' /\ NoLostWakeup /\ [Next]_vars => NoLostWakeup'
<1> SUFFICES ASSUME Core, Core', NoLostWakeup, [Next]_vars,
                    In("asleep")' # {}
             PROVE  Len(queue') <= Cardinality(In("ready")')
                                     + (IF caller' = "notify" THEN 1 ELSE 0)
  BY DEF NoLostWakeup
<1> DEFINE R == In("ready")
           n == Cardinality(R)
<1>0. /\ R \in SUBSET Worker /\ IsFiniteSet(R) /\ n \in Nat
      /\ queue \in Seq(Job) /\ Len(queue) \in Nat
  BY ReadyFinite DEF In, Core, TypeOK
<1>1. ASSUME NEW j \in Job, try_submit(j)
      PROVE  /\ Len(queue') = Len(queue) + 1 /\ R' = R
             /\ In("asleep") # {} /\ caller # "notify" /\ caller' = "notify"
  BY <1>0, <1>1 DEF try_submit, In
<1>2. ASSUME NotifyOne
      PROVE  /\ queue' = queue /\ caller = "notify" /\ caller' # "notify"
             /\ In("asleep") # {} /\ Cardinality(R') = n + 1
  <2>1. In("asleep") # {}
    BY <1>2 DEF NotifyOne, In
  <2>2. PICK w \in In("asleep") : position' = [position EXCEPT ![w] = "ready"]
    BY <1>2, <2>1 DEF NotifyOne
  <2>3. R' = R \cup {w} /\ w \notin R
    BY <2>2 DEF In, Core, TypeOK
  <2>4. Cardinality(R') = n + 1
    BY <2>3, <1>0, FS_AddElement
  <2> QED BY <1>2, <2>1, <2>4 DEF NotifyOne
<1>3. ASSUME NotifyAll PROVE FALSE
  BY <1>3 DEF NotifyAll, In, Core, TypeOK
<1>4. ASSUME stop \/ stop_forced \/ StopReturns
             \/ (\E w \in Worker : Join(w) \/ Detach(w)) \/ UNCHANGED vars
      PROVE  /\ queue' = queue /\ R' = R /\ In("asleep") # {}
             /\ (caller = "notify" => caller' = "notify")
  BY <1>4 DEF stop, stop_forced, CloseAndTakeThreads, StopReturns, Join, Detach,
              vars, In
<1>5. ASSUME NEW w \in Worker, Take(w)
      PROVE  /\ Len(queue') = Len(queue) - 1 /\ Cardinality(R') = n - 1
             /\ In("asleep") # {} /\ caller' = caller
  <2>1. R' = R \ {w} /\ w \in R
    BY <1>5 DEF Take, In, Core, TypeOK
  <2>2. Cardinality(R') = n - 1
    BY <2>1, <1>0, FS_RemoveElement
  <2>3. Len(queue') = Len(queue) - 1
    BY <1>0, <1>5 DEF Take
  <2> QED BY <1>5, <2>2, <2>3 DEF Take, In, Core, TypeOK
<1>6. ASSUME NEW w \in Worker, Sleep(w) \/ Leave(w)
      PROVE  Len(queue') = 0 /\ IsFiniteSet(R') /\ Cardinality(R') \in Nat
  BY <1>6, ReadyFinite DEF Sleep, Leave, In
<1>7. ASSUME NEW w \in Worker, JobEnds(w) \/ SpuriousWakeup(w)
      PROVE  /\ queue' = queue /\ caller' = caller
             /\ In("asleep") # {} /\ Cardinality(R') = n + 1
  <2>1. R' = R \cup {w} /\ w \notin R
    BY <1>7 DEF JobEnds, SpuriousWakeup, In, Core, TypeOK
  <2>2. Cardinality(R') = n + 1
    BY <2>1, <1>0, FS_AddElement
  <2> QED BY <1>7, <2>2 DEF JobEnds, SpuriousWakeup, In, Core, TypeOK
<1> HIDE DEF R, n
<1>8. In("asleep") # {} =>
        Len(queue) <= n + (IF caller = "notify" THEN 1 ELSE 0)
  BY DEF NoLostWakeup, n, R
<1>9. Len(queue') <= Cardinality(R') + (IF caller' = "notify" THEN 1 ELSE 0)
  <2>1. CASE \E j \in Job : try_submit(j)
    BY <1>0, <1>1, <1>8, <2>1 DEF n
  <2>2. CASE NotifyOne
    BY <1>0, <1>2, <1>8, <2>2
  <2>3. CASE stop \/ stop_forced \/ StopReturns
             \/ (\E w \in Worker : Join(w) \/ Detach(w)) \/ UNCHANGED vars
    BY <1>0, <1>4, <1>8, <2>3 DEF n
  <2>4. CASE \E w \in Worker : Take(w)
    BY <1>0, <1>5, <1>8, <2>4
  <2>5. CASE \E w \in Worker : Sleep(w) \/ Leave(w)
    BY <1>0, <1>6, <2>5
  <2>6. CASE \E w \in Worker : JobEnds(w) \/ SpuriousWakeup(w)
    BY <1>0, <1>7, <1>8, <2>6
  <2> QED BY <1>3, <2>1, <2>2, <2>3, <2>4, <2>5, <2>6
          DEF Next, CallerStep, WorkerStep
<1> QED BY <1>9 DEF R

(* However submissions, notifications, spurious wakeups and stops          *)
(* interleave, a worker never sleeps beside a job nobody is coming for.    *)
THEOREM WakeupsAreNotLost == Spec => []NoLostWakeup
<1>1. Init => NoLostWakeup
  BY DEF Init, NoLostWakeup, In
<1> QED BY <1>1, CoreInit, CoreStep, WakeupStep, PTL DEF Spec

(* A stop in progress reaches every sleeping worker.                       *)
THEOREM StopReachesSleepers == Spec => []StopWakesEveryone
<1>1. Init => StopWakesEveryone
  BY DEF Init, StopWakesEveryone
<1>2. Core /\ StopWakesEveryone /\ [Next]_vars => StopWakesEveryone'
  BY DEF Core, TypeOK, Bookkeeping, StopWakesEveryone, In, Next, CallerStep,
         WorkerStep, try_submit, NotifyOne, stop, stop_forced,
         CloseAndTakeThreads, NotifyAll, Join, Detach, StopReturns, Take,
         Sleep, Leave, JobEnds, SpuriousWakeup, vars
<1> QED BY <1>1, <1>2, CoreInit, CoreStep, PTL DEF Spec

-----------------------------------------------------------------------------
(* Where the jobs are.                                                     *)

Elements(s) == {s[i] : i \in 1..Len(s)}

Injective(s) == \A i, k \in 1..Len(s) : s[i] = s[k] => i = k

(* Pushing a new job, and popping the front, as seen by the set of queued  *)
(* jobs and by "no job is queued twice".                                   *)
LEMMA PushElements ==
  ASSUME NEW S, NEW s \in Seq(S), NEW x \in S, Injective(s), x \notin Elements(s)
  PROVE  Elements(Append(s, x)) = Elements(s) \cup {x} /\ Injective(Append(s, x))
<1>1. /\ Len(Append(s, x)) = Len(s) + 1 /\ Len(s) \in Nat
      /\ \A i \in 1..Len(s) : Append(s, x)[i] = s[i]
      /\ Append(s, x)[Len(s) + 1] = x
  BY AppendProperties, LenProperties
<1>2. 1..(Len(s) + 1) = (1..Len(s)) \cup {Len(s) + 1}
  BY <1>1
<1>3. Elements(Append(s, x)) = Elements(s) \cup {x}
  BY <1>1, <1>2 DEF Elements
<1>4. Injective(Append(s, x))
  BY <1>1, <1>2 DEF Injective, Elements
<1> QED BY <1>3, <1>4

(* Popping the queue removes its head and nothing else.                    *)
LEMMA PopElements ==
  ASSUME NEW S, NEW s \in Seq(S), s # <<>>, Injective(s)
  PROVE  /\ Head(s) \in Elements(s)
         /\ Elements(Tail(s)) = Elements(s) \ {Head(s)}
         /\ Injective(Tail(s))
<1>1. /\ Len(s) \in Nat \ {0} /\ Head(s) = s[1]
      /\ Len(Tail(s)) = Len(s) - 1
      /\ \A i \in 1..(Len(s) - 1) : Tail(s)[i] = s[i + 1]
  BY HeadTailProperties, EmptySeq, LenProperties
<1>2. Head(s) \in Elements(s)
  BY <1>1 DEF Elements
<1>3. Elements(Tail(s)) \subseteq Elements(s) \ {Head(s)}
  BY <1>1 DEF Elements, Injective
<1>4. ASSUME NEW e \in Elements(s) \ {Head(s)} PROVE e \in Elements(Tail(s))
  <2>1. PICK i \in 1..Len(s) : e = s[i]
    BY DEF Elements
  <2>2. i # 1 /\ i - 1 \in 1..(Len(s) - 1) /\ Tail(s)[i - 1] = e
    BY <1>1, <2>1
  <2> QED BY <1>1, <2>2 DEF Elements
<1>5. Injective(Tail(s))
  BY <1>1 DEF Injective
<1> QED BY <1>2, <1>3, <1>4, <1>5

(* Every step conserves the jobs.                                          *)
LEMMA JobsStep == Core /\ Core' /\ JobsConserved /\ [Next]_vars => JobsConserved'
<1> SUFFICES ASSUME Core, Core', JobsConserved, [Next]_vars PROVE JobsConserved'
  OBVIOUS
<1>0. /\ queue \in Seq(Job) /\ running \in [Worker -> Job \cup {NoJob}]
      /\ Queued = Elements(queue) /\ Queued' = Elements(queue')
      /\ Injective(queue)
  BY DEF Core, TypeOK, Queued, Elements, Injective, JobsConserved
<1>1. ASSUME NEW j \in Job, try_submit(j) PROVE JobsConserved'
  <2>1. j \notin Queued \cup Running \cup done
    BY <1>1 DEF try_submit, JobsConserved
  <2>2. Queued' = Queued \cup {j} /\ Injective(queue')
    BY <1>0, <1>1, <2>1, PushElements DEF try_submit
  <2>3. Running' = Running /\ done' = done /\ accepted' = accepted \cup {j}
    BY <1>1 DEF try_submit, Running
  <2> QED BY <1>1, <2>1, <2>2, <2>3 DEF JobsConserved, Injective, try_submit
<1>2. ASSUME NEW w \in Worker, Take(w) PROVE JobsConserved'
  <2>1. /\ Head(queue) \in Queued /\ Head(queue) \in Job
        /\ Queued' = Queued \ {Head(queue)} /\ Injective(queue')
    BY <1>0, <1>2, PopElements, HeadTailProperties DEF Take
  <2>2. running[w] = NoJob
    BY <1>2 DEF Take, Core, Bookkeeping
  <2>3. Running' = Running \cup {Head(queue)}
    <3>1. Running' \subseteq Running \cup {Head(queue)}
      BY <1>0, <1>2 DEF Take, Running
    <3>2. Head(queue) \in Running'
      BY <1>0, <1>2, <2>1, JobAssumption DEF Take, Running
    <3>3. ASSUME NEW v \in Worker, running[v] # NoJob
          PROVE  running[v] \in Running'
      BY <1>0, <1>2, <2>2, <3>3 DEF Take, Running
    <3> QED BY <3>1, <3>2, <3>3 DEF Running
  <2>4. \A u, v \in Worker :
          running'[u] = running'[v] /\ running'[u] # NoJob => u = v
    <3>1. \A v \in Worker : running[v] # Head(queue)
      BY <2>1, JobAssumption DEF JobsConserved, Running
    <3> QED BY <1>0, <1>2, <3>1 DEF Take, JobsConserved
  <2>5. UNCHANGED <<accepted, done>>
    BY <1>2 DEF Take
  <2> QED BY <2>1, <2>3, <2>4, <2>5 DEF JobsConserved, Injective
<1>3. ASSUME NEW w \in Worker, JobEnds(w) PROVE JobsConserved'
  <2>1. running[w] # NoJob /\ running[w] \in Running
    BY <1>3 DEF JobEnds, Core, Bookkeeping, Running
  <2>2. Running' = Running \ {running[w]}
    <3>1. Running' \subseteq Running \ {running[w]}
      BY <1>0, <1>3, <2>1 DEF JobEnds, Running, JobsConserved
    <3>2. ASSUME NEW v \in Worker, running[v] # NoJob, running[v] # running[w]
          PROVE  running[v] \in Running'
      BY <1>0, <1>3, <3>2 DEF JobEnds, Running
    <3> QED BY <3>1, <3>2 DEF Running
  <2>3. \A u, v \in Worker :
          running'[u] = running'[v] /\ running'[u] # NoJob => u = v
    BY <1>0, <1>3 DEF JobEnds, JobsConserved
  <2>4. queue' = queue /\ Queued' = Queued /\ accepted' = accepted
        /\ done' = done \cup {running[w]}
    BY <1>3 DEF JobEnds, Queued
  <2> QED BY <2>1, <2>2, <2>3, <2>4 DEF JobsConserved
<1>4. ASSUME UNCHANGED <<queue, running, accepted, done>> PROVE JobsConserved'
  BY <1>4 DEF JobsConserved, Queued, Running
<1> QED
  BY <1>1, <1>2, <1>3, <1>4
     DEF Next, CallerStep, WorkerStep, NotifyOne, stop, stop_forced,
         CloseAndTakeThreads, NotifyAll, Join, Detach, StopReturns, Sleep,
         Leave, SpuriousWakeup, vars

(* No accepted job is ever lost, duplicated or executed twice.             *)
THEOREM JobsAreConserved == Spec => []JobsConserved
<1>1. Init => JobsConserved
  BY DEF Init, JobsConserved, Queued, Running
<1> QED BY <1>1, CoreInit, CoreStep, JobsStep, PTL DEF Spec

(* A stop that returns without detaching a worker has executed every       *)
(* accepted job, and no worker is left.                                    *)
THEOREM GracefulStopIsLossless == Spec => []StopIsLossless
<1>1. Core /\ JobsConserved => StopIsLossless
  <2> SUFFICES ASSUME Core, JobsConserved,
                      joined, caller = "idle", detached = {}
               PROVE  done = accepted /\ In("gone") = Worker \ In("absent")
    BY DEF StopIsLossless
  <2>1. \A w \in Worker : position[w] \in {"absent", "gone"}
    BY DEF Core, Bookkeeping
  <2>2. queue = <<>> /\ \A w \in Worker : running[w] = NoJob
    BY <2>1 DEF Core, Bookkeeping, In
  <2>3. Queued = {} /\ Running = {}
    BY <2>2 DEF Queued, Running
  <2> QED BY <2>1, <2>3 DEF JobsConserved, In
<1> QED BY <1>1, CoreInit, CoreStep, JobsAreConserved, PTL DEF Spec

-----------------------------------------------------------------------------
(* The refinement: every step of the pool is a step of the abstract        *)
(* bounded FIFO, or leaves queue, running jobs and the closed flag alone.  *)
THEOREM PoolImplementsJobQueue == Spec => ImplementsJobQueue
<1>1. Init => Abstract!PoolInit
  BY DEF Init, Abstract!PoolInit
<1>2. Core /\ [Next]_vars => [Abstract!PoolNext]_Abstract!poolVars
  <2> SUFFICES ASSUME Core, [Next]_vars
               PROVE  Abstract!PoolNext \/ UNCHANGED Abstract!poolVars
    OBVIOUS
  <2>1. ASSUME NEW j \in Job, try_submit(j) PROVE Abstract!Submit(j)
    BY <2>1 DEF try_submit, Abstract!Submit, Abstract!Accepts, Core, TypeOK
  <2>2. ASSUME NEW w \in Worker, Take(w) PROVE Abstract!Start(w)
    BY <2>2 DEF Take, Abstract!Start, Core, Bookkeeping
  <2>3. ASSUME NEW w \in Worker, JobEnds(w) PROVE Abstract!Finish(w)
    BY <2>3 DEF JobEnds, Abstract!Finish, Core, Bookkeeping
  <2>4. ASSUME stop \/ stop_forced PROVE Abstract!Close
    BY <2>4 DEF stop, stop_forced, CloseAndTakeThreads, Abstract!Close
  <2>5. ASSUME UNCHANGED <<queue, running, stopping>>
        PROVE  UNCHANGED Abstract!poolVars
    BY <2>5 DEF Abstract!poolVars
  <2> QED
    BY <2>1, <2>2, <2>3, <2>4, <2>5
       DEF Next, CallerStep, WorkerStep, NotifyOne, NotifyAll, Join, Detach,
           StopReturns, Sleep, Leave, SpuriousWakeup, vars, Abstract!PoolNext
<1> QED
  BY <1>1, <1>2, CoreInit, CoreStep, PTL
     DEF Spec, ImplementsJobQueue, Abstract!PoolSpec
=============================================================================
