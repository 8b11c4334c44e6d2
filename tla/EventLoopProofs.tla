-------------------------- MODULE EventLoopProofs ---------------------------
(***************************************************************************)
(* LoopInv is an invariant of EventLoop; the theorems about the event loop *)
(* follow.  Most of them need further invariants: about the workers        *)
(* (JoinInv), the completion queue (CompletionInv), the listener           *)
(* (ListenerInv), the jobs (FlightInv), their results (AnswerInv), the     *)
(* responses of each client (DialogueInv), closed connections (OverInv,    *)
(* GoneInv) and the events connections are told of (HeardInv).             *)
(***************************************************************************)
EXTENDS LoopSteps, LoopRequests, ConnectionProofs

(* The leaves are Zenon's; those that need arithmetic or sequences are     *)
(* SMT's, and say so.                                                      *)
USE Zenon

-----------------------------------------------------------------------------
(* LoopInv is inductive.                                                   *)

(* Nothing happens.                                                        *)
LEMMA StutterInv ==
  ASSUME LoopInv, UNCHANGED vars
  PROVE  LoopInv'
  <1>0. TypeOK /\ signals <= raised
    BY DEF LoopInv
  <1>1. /\ UNCHANGED kernelVars /\ UNCHANGED objectVars /\ UNCHANGED workerVars
        /\ UNCHANGED <<pc, batch, finishing, flags>>
        /\ UNCHANGED Objects /\ UNCHANGED Iteration
        /\ signals' = signals /\ raised' = raised
    BY DEF vars, kernelVars, netVars, loopVars, workerVars, poolVars, flags,
           objectVars, Objects, Iteration
  <1>2. KernelType' /\ ObjectType' /\ PhaseType' /\ WorkerType'
    BY <1>0, <1>1, TypeFrame
  <1>3. BatchOK' /\ RescanOK'
    BY <1>1, IterationFrame
  <1> QED
    BY <1>0, <1>1, <1>2, <1>3, PhaseStep

(* Every step preserves LoopInv.                                           *)
LEMMA LoopInvNext ==
  ASSUME Contract, LoopInv, [Next]_vars
  PROVE  LoopInv'
  <1>1. CASE EnvStep
    BY <1>1, SignalInv, ClientInv DEF EnvStep
  <1>2. CASE SettlingStep
    BY <1>2, ConnectionEventInv, ApplyCompletionInv, RescanInv DEF SettlingStep
  <1>3. CASE EpollWait \/ EpollWaitFails \/ drain_wake \/ handle_signals
             \/ ListenerEvent \/ accept_batch \/ SwapCompletions \/ SwapRescans
    BY <1>3, EpollWaitInv, EpollWaitFailsInv, DrainWakeInv,
       HandleSignalsInv, ListenerEventInv, AcceptBatchInv, SwapCompletionsInv,
       SwapRescansInv
  <1>4. CASE reap_finished \/ maybe_begin_drain \/ BeginTick \/ tick
             \/ GoOn \/ LeaveQuietly \/ LeaveOnSecondSignal \/ BudgetExhausted
    BY <1>4, ReapFinishedInv, BeginDrainInv, BeginTickInv, TickInv,
       GoOnInv, LeaveQuietlyInv, ForcedExitInv DEF LeaveOnSecondSignal,
       BudgetExhausted
  <1>5. CASE LastStep
    <2>1. CASE WorkersJoined \/ WorkersDetached
      BY <2>1, JoinedInv DEF WorkersJoined, WorkersDetached
    <2> QED
      BY <2>1, <1>5, StopPoolInv, DestroyInv, ExitInv DEF LastStep
  <1>6. CASE \E w \in Worker : WorkerStep(w)
    BY <1>6, WorkerInv
  <1>7. CASE UNCHANGED vars
    BY <1>7, StutterInv
  <1> QED
    BY <1>1, <1>2, <1>3, <1>4, <1>5, <1>6, <1>7, NextCases DEF OuterStep

(* The loop's tables agree in every state: conns_ and the connections name *)
(* each other, every event and every re-scan is about a connection that    *)
(* exists, reap_ names exactly the finished ones, buffers stay within      *)
(* their limits, and during a drain every connection drains.               *)
THEOREM LoopTablesAgree == Spec => []LoopInv
  <1>1. Init => LoopInv
    BY LoopInvInit
  <1>2. LoopInv /\ [Next]_vars => LoopInv'
    BY LoopInvNext, ConnectionMeetsContract
  <1> QED
    BY <1>1, <1>2, PTL DEF Spec

(* The state of the loop, the kernel and the pool is well-formed: no       *)
(* handler of event_loop.cpp leaves a descriptor, phase or queue entry     *)
(* outside the sets the code means it to be in.                            *)
THEOREM TypeCorrect == Spec => []TypeOK
  <1>1. LoopInv => TypeOK
    BY DEF LoopInv
  <1> QED
    BY <1>1, LoopTablesAgree, PTL

(* Whatever is closed, accepted and reused meanwhile, run() hands no event *)
(* of an epoll_wait() result to a connection other than its own.           *)
THEOREM EventsAreNotMisdelivered == Spec => []EventsReachTheirConnection
  <1>1. LoopInv => EventsReachTheirConnection
    BY DEF LoopInv, BatchOK, EventsReachTheirConnection
  <1> QED
    BY <1>1, LoopTablesAgree, PTL

(* The descriptors in reap_ name finished connections, the re-scan lists   *)
(* name connections that exist, and none that is finished is forgotten.    *)
THEOREM ReapingIsExact == Spec => []ReapIsExact
  <1>1. ASSUME LoopInv PROVE ReapIsExact
    <2>0. Identity /\ ReapOK /\ RescanOK /\ ObjectType
      BY <1>1, TypeParts DEF LoopInv
    <2>1. \A fd \in reap : conns[fd] # NoClient /\ finished(conn[conns[fd]])
      BY ZenonT(30), <2>0 DEF Identity, ReapOK, ObjectType
    <2>2. \A c \in Client : c \in Owned <=> conn[c] # NoConn
      BY <1>1, OwnedFacts
    <2>3. rescan \cup pending \subseteq Owned
      BY <2>0, <2>2 DEF RescanOK, ObjectType
    <2>4. \A c \in Owned : finished(conn[c]) => conn[c].fd \in reap
      BY <2>0, <2>2 DEF ReapOK, Owned
    <2> QED
      BY <2>1, <2>3, <2>4 DEF ReapIsExact
  <1> QED
    BY <1>1, LoopTablesAgree, PTL

-----------------------------------------------------------------------------
(* A drain takes no work: jobs come from callbacks that want input.        *)

(* queue_ changes only by a callback outside a drain, or by a worker.      *)
LEMMA QueueGrows ==
  ASSUME Contract, LoopInv, [Next]_vars, queue' # queue
  PROVE  ~draining \/ \E w \in Worker : WorkerTakes(w)
  <1>0. /\ TypeOK /\ DrainOK /\ Identity /\ BatchOK /\ RescanOK
        /\ ObjectType /\ PhaseType
    BY TypeParts DEF LoopInv
  <1>1. ASSUME NEW c \in Client, conn[c] # NoConn, NEW k, Settle(c, k),
               k.job # NoJob => want_read(conn[c])
        PROVE  ~draining
    BY <1>0, <1>1 DEF Settle, poolVars, DrainOK, want_read
  <1>2. ASSUME NEW e \in batch.events, ConnectionEvent(e)
        PROVE  ~draining
    <2> DEFINE c == conns[e.fd]
               k == Callback(c, e.ev)
    <2>1. c \in Client /\ c # NoClient /\ conn[c] # NoConn
      BY SMT, <1>0, LoopAssumption DEF PhaseType, Event, BatchOK, Identity
    <2>2. Settle(c, k)
      BY <2>1, <1>2 DEF ConnectionEvent
    <2>3. k.job # NoJob => want_read(conn[c])
      <3>1. e.ev \in SUBSET {"in", "out", "hup", "err"}
        BY <1>0 DEF PhaseType, Event
      <3> QED
        BY <3>1, <2>1, CallbackKeeps
    <2> HIDE DEF c, k
    <2> QED
      BY <2>1, <2>2, <2>3, <1>1
  <1>3. ASSUME ApplyCompletion
        PROVE  ~draining
    <2> DEFINE r == Head(finishing)
               c == r.conn
               k == on_worker_result(Here(c), r.response, r.seq)
    <2>1. conn[c] # NoConn /\ Settle(c, k)
      BY <1>3 DEF ApplyCompletion, poolVars
    <2>2. r \in Completion
      BY <1>0, <1>3, SeqHeadTail DEF PhaseType, ApplyCompletion
    <2>3. c \in Client /\ r.response \in Response /\ r.seq \in Nat
      BY <2>2 DEF Completion
    <2>4. Sound(Here(c)) /\ Here(c).job = NoJob
      BY <2>1, <2>3, HereIsSound
    <2>5. k.job = NoJob
      BY <2>3, <2>4 DEF Contract, ResultContract, Sound
    <2> HIDE DEF r, c, k
    <2> QED
      BY <2>1, <2>3, <2>5, <1>1
  <1>4. ASSUME NEW c \in Client, Rescan(c)
        PROVE  ~draining
    <2>1. c \in pending /\ want_read(conn[c])
      BY <1>4 DEF Rescan, poolVars
    <2>2. conn[c] # NoConn
      BY <2>1, <1>0 DEF RescanOK
    <2> QED
      BY <2>1, <2>2, <1>0 DEF DrainOK, want_read
  <1>5. CASE SettlingStep
    BY <1>2, <1>3, <1>4, <1>5 DEF SettlingStep
  <1>6. CASE EnvStep \/ OuterStep \/ UNCHANGED vars
    BY <1>0, <1>6, EnvFrame, OuterFrame DEF vars, workerVars, poolVars
  <1>7. CASE LastStep
    BY <1>7 DEF LastStep, StopPool, Pool!Close, WorkersJoined, WorkersDetached,
       Joined, Destroy, Exit, workerVars, poolVars
  <1>8. ASSUME NEW w \in Worker, WorkerStep(w)
        PROVE  WorkerTakes(w)
    BY <1>8 DEF WorkerStep, post_completion, Wake, Pool!Finish, poolVars
  <1> QED
    BY <1>5, <1>6, <1>7, <1>8, NextCases

(* From begin_drain() on no request reaches try_submit(): whatever the     *)
(* callbacks of the drain read, parse or finish, the pool's queue only     *)
(* shrinks.                                                                *)
THEOREM DrainingTakesNoWork == Spec => DrainTakesNoWork
  <1>1. ASSUME LoopInv, [Next]_vars
        PROVE  [Len(queue') > Len(queue) => ~draining]_vars
    <2>1. queue \in Seq(Job)
      BY <1>1, TypeParts DEF LoopInv, WorkerType
    <2>2. ASSUME NEW w \in Worker, WorkerTakes(w)
          PROVE  ~(Len(queue') > Len(queue))
      <3>1. queue # <<>> /\ queue' = Tail(queue)
        BY <2>2 DEF WorkerTakes, Pool!Start
      <3>2. Len(Tail(queue)) = Len(queue) - 1 /\ Len(queue) \in Nat
        BY <3>1, <2>1, SeqHeadTail, SeqElements
      <3> QED
        BY SMT, <3>1, <3>2
    <2>3. Len(queue) \in Nat
      BY <2>1, SeqElements
    <2> QED
      BY SMT, <2>2, <2>3, <1>1, QueueGrows, ConnectionMeetsContract
  <1> QED
    BY <1>1, LoopTablesAgree, PTL DEF Spec, DrainTakesNoWork

(* A worker between the push and the wakeup holds its job; the join waits. *)
LEMMA JoinHolds == Spec => []JoinInv
  <1>1. Init => JoinInv
    BY DEF Init, JoinInv
  <1>2. TypeOK /\ JoinInv /\ [Next]_vars => JoinInv'
    BY JoinInvNext
  <1> QED
    BY <1>1, <1>2, TypeCorrect, PTL DEF Spec

(* The completion queue of a destroyed EventLoop is out of every worker's  *)
(* reach, unless stop_forced() detached it: run() returns only after the   *)
(* last job's wakeup.                                                      *)
THEOREM OnlyDetachedWorkersOutlive == Spec => []OnlyDetachedOutlive
  <1>1. JoinInv => OnlyDetachedOutlive
    BY DEF JoinInv, OnlyDetachedOutlive
  <1> QED
    BY <1>1, JoinHolds, PTL

(* The loop never sleeps on a result: when epoll_wait() blocks with one in *)
(* completions_, the eventfd is readable or about to be written.           *)
THEOREM NoCompletionStranded == Spec => []CompletionNotStranded
  <1>1. Init => CompletionInv
    BY DEF Init, CompletionInv
  <1>2. TypeOK /\ CompletionInv /\ [Next]_vars => CompletionInv'
    BY CompletionInvNext
  <1>3. CompletionInv => CompletionNotStranded
    BY DEF CompletionInv, CompletionNotStranded, InBatch
  <1> QED
    BY <1>1, <1>2, <1>3, TypeCorrect, PTL DEF Spec

(* The edge-triggered listener does not go quiet, whatever accept_batch()  *)
(* runs into - its cap, a refused or aborted client, no descriptor -       *)
(* except for an accept4() error it neither expects nor retries.           *)
THEOREM ListenerStaysAudible ==
  "accept" \notin Faults => (Spec => []ListenerNotQuiet)
  <1> SUFFICES ASSUME "accept" \notin Faults
               PROVE  Spec => []ListenerNotQuiet
    OBVIOUS
  <1>1. Init => ListenerInv
    BY DEF Init, ListenerInv
  <1>2. TypeOK /\ ListenerInv /\ [Next]_vars => ListenerInv'
    BY ListenerInvNext
  <1>3. ListenerInv => ListenerNotQuiet
    BY DEF ListenerInv, ListenerNotQuiet
  <1> QED
    BY <1>1, <1>2, <1>3, TypeCorrect, PTL DEF Spec

(* A connection that can still answer has at most one request between      *)
(* submit() and on_worker_result(): in the pool's queue, at a worker, in   *)
(* completions_ or being applied, never in two of them; it is the one      *)
(* inflight_seq_ names, and in_flight_ is set exactly when there is one.   *)
THEOREM RequestsAreNeitherLostNorDoubled == Spec => []InFlightIsExact
  <1>1. Init => FlightInv
    BY FlightInvInit
  <1>2. LoopInv /\ JoinInv /\ FlightInv /\ [Next]_vars => FlightInv'
    BY FlightInvNext, ConnectionMeetsContract
  <1>3. FlightInv => InFlightIsExact
    BY FlightIsExact
  <1> QED
    BY <1>1, <1>2, <1>3, LoopTablesAgree, JoinHolds, PTL DEF Spec

-----------------------------------------------------------------------------
(* What clients are sent, and when connections are closed.                 *)

(* Results answer their jobs, and only a drain leaves finished connections *)
(* for a tick to meet.                                                     *)
LEMMA ResultsAnswer == Spec => [](AnswerInv /\ OverInv)
  <1>0. Results(<<>>)
    BY SMT DEF Results
  <1>1. Init => AnswerInv /\ OverInv
    BY <1>0 DEF Init, AnswerInv, OverInv
  <1>2. TypeOK /\ AnswerInv /\ OverInv /\ [Next]_vars => AnswerInv' /\ OverInv'
    BY AnswerInvNext, OverInvNext
  <1> QED
    BY <1>1, <1>2, TypeCorrect, PTL DEF Spec

LEMMA DialoguesHold == Spec => []DialogueInv
  <1>1. Init => DialogueInv
    BY DialogueInvInit
  <1>2. LoopInv /\ (AnswerInv /\ OverInv) /\ DialogueInv /\ [Next]_vars => DialogueInv'
    BY DialogueInvNext, ConnectionMeetsContract
  <1> QED
    BY <1>1, <1>2, LoopTablesAgree, ResultsAnswer, PTL DEF Spec

(* What a client reads, what is in its socket and what out_ holds are the  *)
(* answers to its own requests, in their order, without gap or repetition, *)
(* and nothing follows a response that closes: however handlers overtake   *)
(* each other, sockets fill up and descriptors are reused.                 *)
THEOREM ResponsesStayInOrder == Spec => []ResponsesInOrder
  <1>1. LoopInv /\ DialogueInv => ResponsesInOrder
    BY DialogueGives
  <1> QED
    BY <1>1, LoopTablesAgree, DialoguesHold, PTL

(* in_ and out_ of a connection are bounded, whatever max_request_bytes,   *)
(* the output threshold, the client's pipelining and its pace.             *)
THEOREM BuffersStayBounded == Spec => []BuffersBounded
  <1>1. LoopInv /\ DialogueInv => BuffersBounded
    BY DialogueGives
  <1> QED
    BY <1>1, LoopTablesAgree, DialoguesHold, PTL

(* reap(), a tick and the end of a drain close a connection only when each *)
(* request taken from it has its answer in the kernel, unless the peer is  *)
(* dead or stalls with output pending, or the shutdown is forced; provided *)
(* epoll_wait() itself does not fail.                                      *)
THEOREM ConnectionsCloseCleanly ==
  "wait" \notin Faults => (Spec => CloseIsClean)
  <1> SUFFICES ASSUME "wait" \notin Faults
               PROVE  Spec => CloseIsClean
    OBVIOUS
  <1>1. Init => GoneInv
    BY DEF Init, GoneInv
  <1>2. LoopInv /\ GoneInv /\ [Next]_vars => GoneInv'
    BY GoneInvNext
  <1>3. Spec => []GoneInv
    BY <1>1, <1>2, LoopTablesAgree, PTL DEF Spec
  <1>4. LoopInv /\ LoopInv' /\ (AnswerInv /\ OverInv) /\ DialogueInv /\ GoneInv
        /\ [Next]_vars =>
          [\A c \in Client : conn[c] # NoConn /\ conn'[c] = NoConn =>
             \/ sock[c].gone # "no" \/ forced'
             \/ pc = "tick" /\ conn[c].out # <<>>
             \/ Answers(c)' >= conn[c].next_seq - 1]_vars
    BY ClosesCleanly, ConnectionMeetsContract
  <1> QED
    BY <1>3, <1>4, LoopTablesAgree, ResultsAnswer, DialoguesHold, PTL
       DEF Spec, CloseIsClean

-----------------------------------------------------------------------------
(* Edge-triggered readiness: what no event announces is not waited for.    *)

LEMMA ConnectionsHear == "mod" \notin Faults => (Spec => []HeardInv)
  <1> SUFFICES ASSUME "mod" \notin Faults
               PROVE  Spec => []HeardInv
    OBVIOUS
  <1>1. Init => HeardInv
    BY HeardInvInit
  <1>2. LoopInv /\ (AnswerInv /\ OverInv) /\ HeardInv /\ [Next]_vars => HeardInv'
    BY HeardInvNext, ConnectionMeetsContract
  <1> QED
    BY <1>1, <1>2, LoopTablesAgree, ResultsAnswer, PTL DEF Spec

(* When epoll_wait() blocks, a connection that wants input has EPOLLIN     *)
(* armed and no input left in in_, and whatever its socket holds, or the   *)
(* death of its peer, has an event pending: set_interest() and the re-scan *)
(* make up for every edge spent while EPOLLIN was off.  Only a failed      *)
(* EPOLL_CTL_MOD, which the code logs and goes on from, is excepted.       *)
THEOREM InputIsNeverStranded ==
  "mod" \notin Faults => (Spec => []InputNotStranded)
  <1> SUFFICES ASSUME "mod" \notin Faults
               PROVE  Spec => []InputNotStranded
    OBVIOUS
  <1>1. LoopInv /\ HeardInv => InputNotStranded
    BY HeardGives
  <1> QED
    BY <1>1, LoopTablesAgree, ConnectionsHear, PTL

(* When epoll_wait() blocks, what is left in out_ has EPOLLOUT armed, and  *)
(* an event pending if the socket can take some of it.  With an idle       *)
(* timeout it fails, by the 408 of a tick: the run tick_output.            *)
THEOREM OutputIsNeverStranded ==
  "mod" \notin Faults /\ ~IdleTimeout => (Spec => []OutputNotStranded)
  <1> SUFFICES ASSUME "mod" \notin Faults, ~IdleTimeout
               PROVE  Spec => []OutputNotStranded
    OBVIOUS
  <1>1. LoopInv /\ HeardInv => OutputNotStranded
    BY HeardGives
  <1> QED
    BY <1>1, LoopTablesAgree, ConnectionsHear, PTL
=============================================================================
