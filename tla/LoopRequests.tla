---------------------------- MODULE LoopRequests ----------------------------
(***************************************************************************)
(* Requests and responses.  FlightInv: a request is in one place at a      *)
(* time, and its connection knows.  DialogueInv: what a client is sent is  *)
(* in order, and what a connection buffers is bounded.  GoneInv, and when  *)
(* connections are closed.                                                 *)
(***************************************************************************)
EXTENDS LoopInvariant

(* The leaves are Zenon's; those that need arithmetic or sequences are     *)
(* SMT's, and say so.                                                      *)
USE Zenon

-----------------------------------------------------------------------------
(* Where jobs are.  A job of a connection sits in one spot; the connection *)
(* knows of it, while it is alive; nobody unaccepted has one; and results  *)
(* taken over by drain_completions() are applied before anything else.     *)
FlightInv ==
  /\ \A p, q \in Spots : At(p).conn = At(q).conn => p = q
  /\ \A c \in Client : conn[c] # NoConn /\ conn[c].alive =>
       /\ \A p \in Spots : At(p).conn = c =>
            conn[c].in_flight /\ At(p).seq = conn[c].inflight_seq
       /\ conn[c].in_flight => \E p \in Spots : At(p).conn = c
  /\ \A c \in Client : phase[c] \in {"new", "backlog"} =>
       \A p \in Spots : At(p).conn # c
  /\ finishing # <<>> => pc = "completions"

(* The spots, and what is in them.                                         *)
LEMMA SpotFacts ==
  /\ \A p : p \in Spots <=>
       \/ \E i \in 1..Len(queue) : p = <<"queue", i>>
       \/ \E w \in Worker \ posted : running[w] # NoJob /\ p = <<"worker", w>>
       \/ \E i \in 1..Len(finishing) : p = <<"finishing", i>>
       \/ \E i \in 1..Len(completions) : p = <<"completions", i>>
  /\ \A i : /\ At(<<"queue", i>>) = queue[i]
            /\ At(<<"worker", i>>) = running[i]
            /\ At(<<"finishing", i>>) = finishing[i]
            /\ At(<<"completions", i>>) = completions[i]
  BY DEF Spots, At

(* The same of the next state.                                             *)
LEMMA SpotFactsNext ==
  /\ \A p : p \in Spots' <=>
       \/ \E i \in 1..Len(queue') : p = <<"queue", i>>
       \/ \E w \in Worker \ posted' : running'[w] # NoJob /\ p = <<"worker", w>>
       \/ \E i \in 1..Len(finishing') : p = <<"finishing", i>>
       \/ \E i \in 1..Len(completions') : p = <<"completions", i>>
  /\ \A i : /\ At(<<"queue", i>>)' = queue'[i]
            /\ At(<<"worker", i>>)' = running'[i]
            /\ At(<<"finishing", i>>)' = finishing'[i]
            /\ At(<<"completions", i>>)' = completions'[i]
  BY DEF Spots, At

(* Every spot of the next state has its content from one of this state;    *)
(* the contents of the spots in lost are gone.                             *)
Relocates(f, lost) ==
  /\ \A p \in Spots' : /\ f[p] \in Spots \ lost
                       /\ At(f[p]).conn = At(p).conn'
                       /\ At(f[p]).seq = At(p).seq'
  /\ \A p, q \in Spots' : f[p] = f[q] => p = q
  /\ \A q \in Spots \ lost : \E p \in Spots' : f[p] = q

(* What a step may do to FlightInv's other half, where no job is added.    *)
LEMMA FlightStep ==
  ASSUME FlightInv, NEW f, NEW lost, Relocates(f, lost),
         \A c \in Client : phase'[c] \in {"new", "backlog"} =>
           phase[c] \in {"new", "backlog"},
         \A c \in Client : conn'[c] # NoConn /\ conn'[c].alive =>
           \/ phase[c] = "backlog" /\ ~conn'[c].in_flight
           \/ /\ conn[c] # NoConn /\ SameRequest(conn[c], conn'[c])
              /\ \A p \in lost : At(p).conn # c
           \/ /\ conn[c] # NoConn /\ ~conn'[c].in_flight
              /\ \E p \in lost \cap Spots : At(p).conn = c,
         finishing' # <<>> => pc' = "completions"
  PROVE  FlightInv'
  <1>a. /\ \A p \in Spots' : /\ f[p] \in Spots /\ f[p] \notin lost
                             /\ At(f[p]).conn = At(p).conn'
                             /\ At(f[p]).seq = At(p).seq'
        /\ \A p, q \in Spots' : f[p] = f[q] => p = q
        /\ \A q \in Spots : q \in lost \/ \E p \in Spots' : f[p] = q
    BY DEF Relocates
  <1>b. \A p, q \in Spots : At(p).conn = At(q).conn => p = q
    BY DEF FlightInv
  <1>1. ASSUME NEW p \in Spots', NEW q \in Spots', At(p).conn' = At(q).conn'
        PROVE  p = q
    <2>1. At(f[p]).conn = At(f[q]).conn /\ f[p] \in Spots /\ f[q] \in Spots
      BY <1>a, <1>1
    <2> QED
      BY SMT, <2>1, <1>a, <1>b
  <1>2. ASSUME NEW c \in Client, phase'[c] \in {"new", "backlog"}, NEW p \in Spots'
        PROVE  At(p).conn' # c
    <2>1. f[p] \in Spots /\ At(f[p]).conn = At(p).conn'
      BY <1>a
    <2> QED
      BY SMT, <2>1, <1>2 DEF FlightInv
  <1>3. ASSUME NEW c \in Client, conn'[c] # NoConn, conn'[c].alive
        PROVE  /\ \A p \in Spots' : At(p).conn' = c =>
                    conn'[c].in_flight /\ At(p).seq' = conn'[c].inflight_seq
               /\ conn'[c].in_flight => \E p \in Spots' : At(p).conn' = c
    <2>1. CASE phase[c] = "backlog" /\ ~conn'[c].in_flight
      <3>1. \A p \in Spots : At(p).conn # c
        BY <2>1 DEF FlightInv
      <3> QED
        BY SMT, <2>1, <3>1, <1>a
    <2>2. CASE /\ conn[c] # NoConn /\ SameRequest(conn[c], conn'[c])
               /\ \A p \in lost : At(p).conn # c
      <3>1. /\ conn[c].alive /\ conn'[c].in_flight = conn[c].in_flight
            /\ conn'[c].in_flight => conn'[c].inflight_seq = conn[c].inflight_seq
        BY <2>2, <1>3 DEF SameRequest
      <3>2. /\ \A p \in Spots : At(p).conn = c =>
                 conn[c].in_flight /\ At(p).seq = conn[c].inflight_seq
            /\ conn[c].in_flight => \E p \in Spots : At(p).conn = c
        BY <2>2, <3>1 DEF FlightInv
      <3>3. ASSUME NEW p \in Spots', At(p).conn' = c
            PROVE  conn'[c].in_flight /\ At(p).seq' = conn'[c].inflight_seq
        <4>1. f[p] \in Spots /\ At(f[p]).conn = c /\ At(f[p]).seq = At(p).seq'
          BY <1>a, <3>3
        <4> QED
          BY <4>1, <3>1, <3>2
      <3>4. ASSUME conn'[c].in_flight
            PROVE  \E p \in Spots' : At(p).conn' = c
        <4>1. PICK q \in Spots : At(q).conn = c
          BY <3>1, <3>2, <3>4
        <4>2. q \notin lost
          BY <4>1, <2>2
        <4> QED
          BY SMT, <4>1, <4>2, <1>a
      <3> QED
        BY <3>3, <3>4
    <2>3. CASE /\ conn[c] # NoConn /\ ~conn'[c].in_flight
               /\ \E p \in lost \cap Spots : At(p).conn = c
      <3>1. PICK q \in Spots : q \in lost /\ At(q).conn = c
        BY <2>3
      <3>2. \A p \in Spots' : At(p).conn' # c
        BY SMT, <3>1, <1>a, <1>b
      <3> QED
        BY <2>3, <3>2
    <2> QED
      BY <1>3, <2>1, <2>2, <2>3
  <1> QED
    BY <1>1, <1>2, <1>3 DEF FlightInv

(* Nothing moves.                                                          *)
LEMMA NothingMoves ==
  ASSUME UNCHANGED <<queue, running, posted, finishing, completions>>
  PROVE  Relocates([p \in Spots |-> p], {})
  <1>1. Spots' = Spots /\ \A p : At(p)' = At(p)
    BY DEF Spots, At
  <1> QED
    BY <1>1 DEF Relocates

(* A step that moves no job.                                               *)
LEMMA QuietFlight ==
  ASSUME FlightInv, UNCHANGED <<queue, running, posted, finishing, completions>>,
         \A c \in Client : phase'[c] \in {"new", "backlog"} =>
           phase[c] \in {"new", "backlog"},
         \A c \in Client : conn'[c] # NoConn /\ conn'[c].alive =>
           \/ phase[c] = "backlog" /\ ~conn'[c].in_flight
           \/ conn[c] # NoConn /\ SameRequest(conn[c], conn'[c]),
         finishing = <<>> \/ pc' = pc
  PROVE  FlightInv'
  <1>1. Relocates([p \in Spots |-> p], {})
    BY NothingMoves
  <1>2. finishing' # <<>> => pc' = "completions"
    BY DEF FlightInv
  <1> QED
    BY SMT, <1>1, <1>2, FlightStep

(* A worker takes the first job: the others move up.                       *)
LEMMA TakeRelocates ==
  ASSUME TypeOK, \A v \in posted : running[v] # NoJob,
         NEW w \in Worker, WorkerTakes(w)
  PROVE  \E f : Relocates(f, {})
  <1> DEFINE f == [p \in Spots' |-> IF p = <<"worker", w>> THEN <<"queue", 1>>
                                    ELSE IF p[1] = "queue" THEN <<"queue", p[2] + 1>>
                                    ELSE p]
  <1>0. queue \in Seq(Job) /\ running \in [Worker -> Job \cup {NoJob}]
    BY TypeParts DEF WorkerType
  <1>1. /\ queue # <<>> /\ queue' = Tail(queue) /\ w \notin posted
        /\ running[w] = NoJob /\ running' = [running EXCEPT ![w] = Head(queue)]
        /\ UNCHANGED <<posted, finishing, completions>>
    BY DEF WorkerTakes, Pool!Start, loopVars
  <1>2. /\ Len(queue) \in Nat /\ Len(queue) > 0 /\ Len(queue') = Len(queue) - 1
        /\ Head(queue) = queue[1] /\ Head(queue) # NoJob
        /\ \A i \in 1..Len(queue') : queue'[i] = queue[i + 1]
    BY SMT, <1>0, <1>1, SeqHeadTail, SeqElements, ConnectionAssumption
  <1>3. running'[w] = queue[1] /\ \A v \in Worker : v # w => running'[v] = running[v]
    BY <1>0, <1>1, <1>2
  <1>4. ASSUME NEW p \in Spots'
        PROVE  /\ f[p] \in Spots /\ At(f[p]) = At(p)'
               /\ \/ p = <<"worker", w>> /\ f[p] = <<"queue", 1>>
                  \/ \E i \in 1..Len(queue') :
                       p = <<"queue", i>> /\ f[p] = <<"queue", i + 1>>
                  \/ /\ f[p] = p /\ p # <<"worker", w>>
                     /\ \A i : p # <<"queue", i>>
    <2>1. CASE p = <<"worker", w>>
      <3>1. f[p] = <<"queue", 1>>
        BY <2>1
      <3> QED
        BY SMT, <3>1, <2>1, <1>2, <1>3, SpotFacts, SpotFactsNext
    <2>2. ASSUME NEW i \in 1..Len(queue'), p = <<"queue", i>>
          PROVE  f[p] = <<"queue", i + 1>> /\ f[p] \in Spots /\ At(f[p]) = At(p)'
      <3>1. f[p] = <<"queue", i + 1>>
        BY <2>2
      <3>2. i + 1 \in 1..Len(queue) /\ queue'[i] = queue[i + 1]
        BY SMT, <1>2
      <3>3. At(p)' = queue'[i] /\ At(<<"queue", i + 1>>) = queue[i + 1]
        BY <2>2, SpotFacts, SpotFactsNext
      <3>4. <<"queue", i + 1>> \in Spots
        BY <3>2, SpotFacts
      <3> HIDE DEF f
      <3> QED
        BY <3>1, <3>2, <3>3, <3>4
    <2>3. CASE p # <<"worker", w>> /\ \A i \in 1..Len(queue') : p # <<"queue", i>>
      <3>1. /\ p \in Spots /\ At(p) = At(p)' /\ p[1] # "queue"
        BY SMT, <2>3, <1>1, <1>3, SpotFacts, SpotFactsNext
      <3>2. f[p] = p
        BY <2>3, <3>1
      <3> QED
        BY SMT, <3>1, <3>2, <2>3
    <2> QED
      BY <2>1, <2>2, <2>3
  <1>5. ASSUME NEW q \in Spots
        PROVE  \E p \in Spots' : f[p] = q
    <2>1. CASE q = <<"queue", 1>>
      <3>1. <<"worker", w>> \in Spots'
        BY <1>1, <1>2, <1>3, SpotFactsNext
      <3> QED
        BY <3>1, <2>1
    <2>2. ASSUME NEW i \in 1..Len(queue), q = <<"queue", i>>, i # 1
          PROVE  \E p \in Spots' : f[p] = q
      <3>1. <<"queue", i - 1>> \in Spots'
        BY SMT, <2>2, <1>2, SpotFactsNext
      <3>2. f[<<"queue", i - 1>>] = q
        BY SMT, <3>1, <2>2
      <3> QED
        BY <3>1, <3>2
    <2>3. CASE \A i \in 1..Len(queue) : q # <<"queue", i>>
      <3>1. q \in Spots' /\ q # <<"worker", w>> /\ q[1] # "queue"
        BY SMT, <2>3, <1>1, <1>3, SpotFacts, SpotFactsNext
      <3> QED
        BY <3>1
    <2> QED
      BY <2>1, <2>2, <2>3
  <1> HIDE DEF f
  <1>6. \A p, q \in Spots' : f[p] = f[q] => p = q
    BY SMT, <1>2, <1>4
  <1>7. Relocates(f, {})
    BY <1>4, <1>5, <1>6 DEF Relocates
  <1> QED
    BY <1>7

(* post_completion() turns the worker's job into the last completion.      *)
LEMMA PostRelocates ==
  ASSUME TypeOK, NEW w \in Worker, post_completion(w)
  PROVE  \E f : Relocates(f, {})
  <1>0. completions \in Seq(Completion) /\ Len(completions) \in Nat
    BY TypeParts, SeqElements DEF WorkerType
  <1>1. PICK r : /\ completions' = Append(completions, r)
                 /\ r.conn = running[w].conn /\ r.seq = running[w].seq
    BY SMT DEF post_completion
  <1>2. PICK n : n = Len(completions) + 1
    OBVIOUS
  <1> DEFINE f == [p \in Spots' |-> IF p = <<"completions", n>> THEN <<"worker", w>>
                                    ELSE p]
  <1>3. /\ running[w] # NoJob /\ w \notin posted /\ posted' = posted \cup {w}
        /\ UNCHANGED <<queue, running, finishing>>
    BY DEF post_completion, loopVars, poolVars
  <1>4. /\ Len(completions') = n /\ completions'[n] = r /\ n \in Nat /\ n > 0
        /\ \A i \in 1..Len(completions) : completions'[i] = completions[i]
        /\ \A i : i \in 1..n <=> i \in 1..Len(completions) \/ i = n
    BY SMT, <1>0, <1>1, <1>2
  <1>5. /\ <<"worker", w>> \in Spots /\ <<"worker", w>> \notin Spots'
        /\ At(<<"worker", w>>) = running[w]
    BY SMT, <1>3, SpotFacts, SpotFactsNext
  <1>6. /\ <<"completions", n>> \in Spots' /\ <<"completions", n>> \notin Spots
        /\ At(<<"completions", n>>)' = r
    BY SMT, <1>0, <1>2, <1>4, SpotFacts, SpotFactsNext
  <1>7. ASSUME NEW p, p # <<"completions", n>>, p # <<"worker", w>>
        PROVE  p \in Spots' <=> p \in Spots
    <2>1. (\E i \in 1..Len(completions') : p = <<"completions", i>>)
            <=> \E i \in 1..Len(completions) : p = <<"completions", i>>
      BY <1>4, <1>7
    <2>2. (\E v \in Worker \ posted' : running'[v] # NoJob /\ p = <<"worker", v>>)
            <=> \E v \in Worker \ posted : running[v] # NoJob /\ p = <<"worker", v>>
      BY <1>3, <1>7
    <2> QED
      BY <1>3, <2>1, <2>2, SpotFacts, SpotFactsNext
  <1>8. ASSUME NEW p \in Spots, p # <<"worker", w>>
        PROVE  At(p)' = At(p)
    BY SMT, <1>3, <1>4, <1>8, SpotFacts, SpotFactsNext
  <1>9. Relocates(f, {})
    BY <1>1, <1>5, <1>6, <1>7, <1>8 DEF Relocates
  <1> QED
    BY <1>9

(* The wakeup moves no job: the worker's is in completions_ already.       *)
LEMMA WakeRelocates ==
  ASSUME TypeOK, NEW w \in Worker, Wake(w)
  PROVE  \E f : Relocates(f, {})
  <1>0. running \in [Worker -> Job \cup {NoJob}]
    BY TypeParts DEF WorkerType
  <1>1. /\ w \in posted /\ posted' = posted \ {w}
        /\ running' = [running EXCEPT ![w] = NoJob]
        /\ UNCHANGED <<queue, finishing, completions>>
    BY DEF Wake, Pool!Finish, loopVars
  <1>2. running'[w] = NoJob /\ \A v \in Worker : v # w => running'[v] = running[v]
    BY <1>0, <1>1
  <1>3. \A p : p \in Spots' <=> p \in Spots
    BY <1>1, <1>2, SpotFacts, SpotFactsNext
  <1>4. \A p \in Spots : At(p)' = At(p)
    BY SMT, <1>1, <1>2, SpotFacts, SpotFactsNext
  <1>5. Relocates([p \in Spots |-> p], {})
    BY <1>3, <1>4 DEF Relocates
  <1> QED
    BY <1>5

(* The swap takes over every completion, and finds no older one.           *)
LEMMA SwapRelocates ==
  ASSUME FlightInv, SwapCompletions
  PROVE  \E f : Relocates(f, {})
  <1> DEFINE f == [p \in Spots' |-> IF p[1] = "finishing" THEN <<"completions", p[2]>>
                                    ELSE p]
  <1>1. /\ finishing = <<>> /\ finishing' = completions /\ completions' = <<>>
        /\ UNCHANGED <<queue, running, posted>>
    BY DEF SwapCompletions, FlightInv, poolVars
  <1>2. /\ \A i \in 1..Len(completions) :
             /\ <<"finishing", i>> \in Spots' /\ <<"completions", i>> \in Spots
             /\ At(<<"finishing", i>>)' = At(<<"completions", i>>)
             /\ f[<<"finishing", i>>] = <<"completions", i>>
        /\ \A i : <<"finishing", i>> \notin Spots
        /\ \A i : <<"completions", i>> \notin Spots'
    BY SMT, <1>1, SpotFacts, SpotFactsNext
  <1>3. ASSUME NEW p, \A i \in 1..Len(completions) :
                        p # <<"finishing", i>> /\ p # <<"completions", i>>
        PROVE  /\ p \in Spots' <=> p \in Spots
               /\ p \in Spots => At(p)' = At(p) /\ f[p] = p
    BY SMT, <1>1, <1>3, SpotFacts, SpotFactsNext
  <1> HIDE DEF f
  <1>4. ASSUME NEW p \in Spots'
        PROVE  /\ f[p] \in Spots /\ At(f[p]) = At(p)'
               /\ \/ \E i \in 1..Len(completions) :
                       p = <<"finishing", i>> /\ f[p] = <<"completions", i>>
                  \/ f[p] = p /\ \A i \in 1..Len(completions) : p # <<"completions", i>>
    <2>1. CASE \E i \in 1..Len(completions) : p = <<"finishing", i>>
      BY <2>1, <1>2
    <2>2. CASE \A i \in 1..Len(completions) : p # <<"finishing", i>>
      BY <2>2, <1>2, <1>3
    <2> QED
      BY <2>1, <2>2
  <1>5. \A p, q \in Spots' : f[p] = f[q] => p = q
    BY SMT, <1>4
  <1>6. ASSUME NEW q \in Spots
        PROVE  \E p \in Spots' : f[p] = q
    BY <1>2, <1>3
  <1>7. Relocates(f, {})
    BY <1>4, <1>5, <1>6 DEF Relocates
  <1> QED
    BY <1>7

(* A result is taken off the list that drain_completions() works on.       *)
LEMMA ApplyRelocates ==
  ASSUME TypeOK, finishing # <<>>, finishing' = Tail(finishing),
         UNCHANGED <<queue, running, posted, completions>>
  PROVE  \E f : Relocates(f, {<<"finishing", 1>>})
  <1> DEFINE f == [p \in Spots' |-> IF p[1] = "finishing" THEN <<"finishing", p[2] + 1>>
                                    ELSE p]
             n == Len(finishing)
  <1>1. /\ n \in Nat /\ n > 0 /\ Len(finishing') = n - 1
        /\ \A i \in 1..(n - 1) : finishing'[i] = finishing[i + 1]
    BY SMT, TypeParts, SeqHeadTail, SeqElements DEF PhaseType
  <1>2. ASSUME NEW i \in 1..(n - 1)
        PROVE  /\ <<"finishing", i>> \in Spots' /\ <<"finishing", i + 1>> \in Spots
               /\ At(<<"finishing", i>>)' = At(<<"finishing", i + 1>>)
               /\ f[<<"finishing", i>>] = <<"finishing", i + 1>>
    <2>1. i + 1 \in 1..n /\ i \in 1..Len(finishing')
      BY SMT, <1>1
    <2>2. <<"finishing", i>> \in Spots' /\ <<"finishing", i + 1>> \in Spots
      BY <2>1, SpotFacts, SpotFactsNext
    <2>3. At(<<"finishing", i>>)' = At(<<"finishing", i + 1>>)
      BY SMT, <1>1, SpotFacts, SpotFactsNext
    <2>4. f[<<"finishing", i>>] = <<"finishing", i + 1>>
      BY <2>2
    <2> QED
      BY <2>2, <2>3, <2>4
  <1>3. ASSUME NEW p, \A i \in 1..n : p # <<"finishing", i>>
        PROVE  /\ p \in Spots' <=> p \in Spots
               /\ p \in Spots => At(p)' = At(p) /\ f[p] = p
    BY SMT, <1>1, <1>3, SpotFacts, SpotFactsNext
  <1>4. ASSUME NEW p \in Spots'
        PROVE  /\ f[p] \in Spots /\ At(f[p]) = At(p)'
               /\ \/ \E i \in 1..(n - 1) :
                       p = <<"finishing", i>> /\ f[p] = <<"finishing", i + 1>>
                  \/ f[p] = p /\ \A i \in 1..n : p # <<"finishing", i>>
    <2> HIDE DEF f
    <2>1. CASE \E i \in 1..(n - 1) : p = <<"finishing", i>>
      BY <2>1, <1>2
    <2>2. CASE \A i \in 1..(n - 1) : p # <<"finishing", i>>
      <3>1. \A i \in 1..n : p # <<"finishing", i>>
        BY <2>2, <1>1, SpotFactsNext
      <3> QED
        BY <3>1, <1>3
    <2> QED
      BY <2>1, <2>2
  <1> HIDE DEF f
  <1>5. \A p, q \in Spots' : f[p] = f[q] => p = q
    <2>1. \A i, j \in 1..(n - 1) :
            <<"finishing", i + 1>> = <<"finishing", j + 1>> => i = j
      BY SMT, <1>1
    <2>2. \A i \in 1..(n - 1) : i + 1 \in 1..n
      BY SMT, <1>1
    <2> QED
      BY <1>4, <2>1, <2>2
  <1>6. \A p \in Spots' : f[p] # <<"finishing", 1>>
    <2>1. 1 \in 1..n /\ \A i \in 1..(n - 1) : <<"finishing", i + 1>> # <<"finishing", 1>>
      BY SMT, <1>1
    <2> QED
      BY ZenonT(30), <1>4, <2>1
  <1>7. ASSUME NEW q \in Spots, q # <<"finishing", 1>>
        PROVE  \E p \in Spots' : f[p] = q
    <2>1. ASSUME NEW i \in 1..n, q = <<"finishing", i>>
          PROVE  \E p \in Spots' : f[p] = q
      <3>1. i - 1 \in 1..(n - 1) /\ (i - 1) + 1 = i
        BY SMT, <1>1, <1>7, <2>1
      <3> QED
        BY <3>1, <2>1, <1>2
    <2> QED
      BY <2>1, <1>3
  <1>8. Relocates(f, {<<"finishing", 1>>})
    BY <1>4, <1>5, <1>6, <1>7 DEF Relocates
  <1> QED
    BY <1>8

(* run() drops the completions nobody will apply.                          *)
LEMMA DropRelocates ==
  ASSUME completions' = <<>>, UNCHANGED <<queue, running, posted, finishing>>
  PROVE  \E f, lost : Relocates(f, lost)
  <1>1. Spots' \subseteq Spots /\ \A p \in Spots' : At(p)' = At(p)
    BY SMT, SpotFacts, SpotFactsNext
  <1>2. Relocates([p \in Spots |-> p], Spots \ Spots')
    BY <1>1 DEF Relocates
  <1> QED
    BY <1>2

(* Clients and signals move no job and touch no connection.                *)
LEMMA EnvFlight ==
  ASSUME TypeOK, FlightInv, EnvStep
  PROVE  FlightInv'
  <1>1. UNCHANGED <<conn, pc, queue, running, posted, finishing, completions>>
    BY EnvFrame DEF loopVars, workerVars, poolVars
  <1>2. \A c \in Client : phase'[c] \in {"new", "backlog"} =>
          phase[c] \in {"new", "backlog"}
    <2>1. phase \in [Client -> {"new", "backlog", "open", "closed"}]
      BY TypeParts DEF KernelType
    <2>2. phase' = phase \/ \E c \in Client : Connect(c)
      BY DEF EnvStep, ClientStep, RaiseSignal, Send, HalfClose, Vanish, Read, netVars
    <2> QED
      BY <2>1, <2>2 DEF Connect
  <1> QED
    BY <1>1, <1>2, QuietFlight DEF SameRequest

(* A worker moves a job, and touches no connection.                        *)
LEMMA WorkerFlight ==
  ASSUME TypeOK, JoinInv, FlightInv, NEW w \in Worker, WorkerStep(w)
  PROVE  FlightInv'
  <1>1. PICK f : Relocates(f, {})
    BY TakeRelocates, PostRelocates, WakeRelocates DEF WorkerStep, JoinInv
  <1>2. UNCHANGED <<pc, finishing, conn, phase>>
    BY DEF WorkerStep, WorkerTakes, post_completion, Wake, loopVars, kernelVars,
       netVars
  <1>3. finishing' # <<>> => pc' = "completions"
    BY <1>2 DEF FlightInv
  <1> QED
    BY SMT, <1>1, <1>2, <1>3, FlightStep DEF SameRequest

(* accept_batch() admits connections that have asked for nothing yet.      *)
LEMMA AcceptFlight ==
  ASSUME LoopInv, FlightInv, accept_batch
  PROVE  FlightInv'
  <1>0. /\ TypeOK /\ KernelType /\ ObjectType /\ Identity
    BY TypeParts DEF LoopInv
  <1>1. pc = "accept" /\ finishing = <<>>
    BY DEF accept_batch, AcceptDrained, AcceptNoDescriptor, AcceptBatchFull,
       AcceptError, AcceptAborted, reject_connection, AddFails, Admit, Accepting,
       FlightInv
  <1>2. UNCHANGED <<queue, running, posted, completions>>
    BY <1>0, AcceptFrame DEF workerVars, poolVars
  <1>3. ASSUME NEW r, LeaveAccept(r)
        PROVE  FlightInv'
    <2>1. UNCHANGED <<conn, phase, finishing>>
      BY <1>3 DEF LeaveAccept, kernelVars, netVars
    <2> QED
      BY <2>1, <1>1, <1>2, QuietFlight DEF SameRequest
  <1>4. ASSUME NEW d, NEW s, Dismiss(d, s)
        PROVE  FlightInv'
    <2>1. UNCHANGED <<conn, finishing>> /\ phase' = [phase EXCEPT ![d] = "closed"]
      BY <1>4 DEF Dismiss
    <2>2. \A c \in Client : phase'[c] \in {"new", "backlog"} =>
            phase[c] \in {"new", "backlog"}
      BY <2>1, <1>0 DEF KernelType
    <2> QED
      BY <2>1, <2>2, <1>1, <1>2, QuietFlight DEF SameRequest
  <1>5. ASSUME NEW fd \in Fd, Admit(fd)
        PROVE  FlightInv'
    <2> DEFINE d == Head(backlog)
    <2>1. /\ backlog # <<>> /\ conn' = [conn EXCEPT ![d] = NewConn(fd)]
          /\ phase' = [phase EXCEPT ![d] = "open"] /\ finishing' = finishing
      BY <1>5 DEF Admit
    <2>2. d \in Client /\ phase[d] = "backlog"
      BY SMT, <2>1, <1>0, SeqHeadTail, SeqElements DEF KernelType, Identity
    <2> HIDE DEF d
    <2>3. ~NewConn(fd).in_flight
      BY DEF NewConn
    <2>4. /\ conn'[d] = NewConn(fd) /\ \A c \in Client : c # d => conn'[c] = conn[c]
          /\ \A c \in Client : phase'[c] \in {"new", "backlog"} =>
               phase[c] \in {"new", "backlog"}
      BY <2>1, <2>2, <1>0 DEF ObjectType, KernelType
    <2>5. \A c \in Client : conn'[c] # NoConn /\ conn'[c].alive =>
            \/ phase[c] = "backlog" /\ ~conn'[c].in_flight
            \/ conn[c] # NoConn /\ SameRequest(conn[c], conn'[c])
      BY <2>2, <2>3, <2>4 DEF SameRequest
    <2> QED
      BY <2>1, <2>4, <2>5, <1>1, <1>2, QuietFlight
  <1>6. CASE AcceptDrained \/ AcceptNoDescriptor \/ AcceptBatchFull \/ AcceptError
    BY <1>3, <1>6 DEF AcceptDrained, AcceptNoDescriptor, AcceptBatchFull, AcceptError
  <1>7. CASE AcceptAborted \/ reject_connection \/ AddFails
    BY <1>4, <1>7 DEF AcceptAborted, reject_connection, AddFails
  <1> QED
    BY <1>5, <1>6, <1>7 DEF accept_batch

-----------------------------------------------------------------------------
(* A request is in one place at a time, and its connection knows.          *)

(* Reap(fds) destroys connections or leaves their requests alone.          *)
LEMMA ReapFlight ==
  ASSUME LoopInv, FlightInv, NEW fds \in SUBSET Fd, NEW now, Reap(fds),
         conn' = [c \in Client |-> IF Survives(c, fds) THEN now[c] ELSE NoConn],
         \A c \in Client : conn[c] # NoConn => SameRequest(conn[c], now[c]),
         finishing = <<>>,
         UNCHANGED <<queue, running, posted, finishing, completions>>
  PROVE  FlightInv'
  <1>1. \A c \in Client : phase'[c] \in {"new", "backlog"} =>
          phase[c] \in {"new", "backlog"}
    BY DEF Reap
  <1>2. \A c \in Client : conn'[c] # NoConn =>
          conn[c] # NoConn /\ SameRequest(conn[c], conn'[c])
    BY OwnedFacts
  <1> QED
    BY <1>1, <1>2, QuietFlight

(* reap() and close_all().                                                 *)
LEMMA CloseFlight ==
  ASSUME LoopInv, FlightInv, finishing = <<>>,
         reap_finished \/ (ForcedExit /\ AtCheck)
  PROVE  FlightInv'
  <1>0. reap \in SUBSET Fd /\ \A c \in Client : SameRequest(conn[c], conn[c])
    BY TypeParts DEF LoopInv, ObjectType, SameRequest
  <1>1. CASE reap_finished
    BY <1>0, <1>1, ReapFlight DEF reap_finished, workerVars, poolVars
  <1>2. CASE ForcedExit
    <2>1. /\ Reap(Fd) /\ conn' = [c \in Client |-> NoConn]
          /\ UNCHANGED <<queue, running, posted, finishing, completions>>
      BY <1>2 DEF ForcedExit, close_all, workerVars, poolVars
    <2>2. \A c \in Client : phase'[c] \in {"new", "backlog"} =>
            phase[c] \in {"new", "backlog"}
      BY <2>1 DEF Reap
    <2> QED
      BY <2>1, <2>2, QuietFlight
  <1> QED
    BY <1>1, <1>2

(* A tick answers no request and forgets none.                             *)
LEMMA TickFlight ==
  ASSUME Contract, LoopInv, FlightInv, tick
  PROVE  FlightInv'
  <1>0. reap \in SUBSET Fd /\ pc = "tick" /\ finishing = <<>>
    BY TypeParts DEF LoopInv, ObjectType, tick, FlightInv
  <1>1. PICK idle \in SUBSET Owned :
          LET now == [c \in Owned |-> on_tick(Here(c), c \in idle)]
              fds == reap \cup FdsOf({c \in Owned : finished(now[c].c)})
          IN  /\ Reap(fds)
              /\ conn' = [c \in Client |-> IF Survives(c, fds) THEN now[c].c
                                           ELSE NoConn]
    BY DEF tick
  <1> DEFINE now == [c \in Owned |-> on_tick(Here(c), c \in idle)]
             fds == reap \cup FdsOf({c \in Owned : finished(now[c].c)})
             then == [c \in Client |-> now[c].c]
  <1>2. fds \in SUBSET Fd
    BY <1>0 DEF FdsOf
  <1>3. ASSUME NEW c \in Client, conn[c] # NoConn
        PROVE  SameRequest(conn[c], then[c])
    <2>1. c \in Owned /\ Sound(Here(c)) /\ Here(c).c = conn[c] /\ Here(c) \in K
      BY <1>3, OwnedFacts, HereIsSound DEF Sound
    <2>2. then[c] = on_tick(Here(c), c \in idle).c /\ (c \in idle) \in BOOLEAN
      BY SMT, <2>1
    <2> QED
      BY <2>1, <2>2 DEF Contract, TickContract
  <1>4. conn' = [c \in Client |-> IF Survives(c, fds) THEN then[c] ELSE NoConn]
    BY SMT, <1>1
  <1>5. Reap(fds) /\ UNCHANGED <<queue, running, posted, finishing, completions>>
    BY <1>1 DEF tick, workerVars, poolVars
  <1> HIDE DEF fds, then
  <1> QED
    BY <1>0, <1>2, <1>3, <1>4, <1>5, ReapFlight

(* A drain forgets no request either.                                      *)
LEMMA DrainFlight ==
  ASSUME Contract, LoopInv, FlightInv, maybe_begin_drain
  PROVE  FlightInv'
  <1>1. /\ pc = "drain" /\ finishing = <<>> /\ phase' = phase
        /\ conn' = [c \in Client |-> IF c \in Owned THEN begin_draining(conn[c])
                                     ELSE conn[c]]
        /\ UNCHANGED <<queue, running, posted, finishing, completions>>
    BY DEF maybe_begin_drain, FlightInv, kernelVars, netVars, workerVars, poolVars
  <1>2. ASSUME NEW c \in Client, conn'[c] # NoConn
        PROVE  conn[c] # NoConn /\ SameRequest(conn[c], conn'[c])
    <2>1. CASE conn[c] = NoConn
      BY <2>1, <1>1, <1>2, OwnedFacts
    <2>2. CASE conn[c] # NoConn
      <3>1. conn'[c] = begin_draining(conn[c])
        BY <2>2, <1>1, OwnedFacts
      <3>2. conn[c] \in ConnState /\ InputBounded(conn[c])
        BY <2>2, TypeParts DEF LoopInv, ObjectType, Bounded
      <3> QED
        BY <2>2, <3>1, <3>2 DEF Contract, DrainingContract
    <2> QED
      BY <2>1, <2>2
  <1> QED
    BY <1>1, <1>2, QuietFlight

-----------------------------------------------------------------------------
(* Every step leaves each request in one place.                            *)

(* The phases of an iteration, together.                                   *)
LEMMA OuterFlight ==
  ASSUME Contract, LoopInv, FlightInv, OuterStep
  PROVE  FlightInv'
  <1>0. TypeOK
    BY DEF LoopInv
  <1>1. CASE SwapCompletions
    <2>1. PICK f : Relocates(f, {})
      BY <1>1, SwapRelocates
    <2>2. pc' = "completions" /\ UNCHANGED <<conn, phase>>
      BY <1>1 DEF SwapCompletions, kernelVars, netVars
    <2> QED
      BY SMT, <2>1, <2>2, FlightStep DEF SameRequest
  <1>2. CASE \/ EpollWait \/ EpollWaitFails \/ drain_wake \/ handle_signals
             \/ ListenerEvent \/ SwapRescans \/ BeginTick \/ GoOn \/ LeaveQuietly
    <2>1. finishing = <<>> /\ UNCHANGED <<conn, phase, finishing, queue, running,
                                          posted, completions>>
      <3>1. CASE EpollWait \/ EpollWaitFails \/ drain_wake \/ handle_signals
        BY <3>1 DEF EpollWait, EpollWaitFails, drain_wake, handle_signals,
           FlightInv, kernelVars, netVars, workerVars, poolVars
      <3>2. CASE \/ ListenerEvent \/ SwapRescans \/ BeginTick \/ GoOn
                 \/ LeaveQuietly
        BY <3>2 DEF ListenerEvent, SwapRescans, BeginTick, GoOn, LeaveQuietly,
           AtCheck, FlightInv, kernelVars, netVars, workerVars, poolVars
      <3> QED
        BY <1>2, <3>1, <3>2
    <2> QED
      BY <2>1, QuietFlight DEF SameRequest
  <1>3. CASE reap_finished \/ LeaveOnSecondSignal \/ BudgetExhausted
    <2>1. finishing = <<>>
      BY <1>3 DEF reap_finished, LeaveOnSecondSignal, BudgetExhausted, AtCheck,
         FlightInv
    <2> QED
      BY <2>1, <1>3, CloseFlight DEF LeaveOnSecondSignal, BudgetExhausted
  <1> QED
    BY <1>1, <1>2, <1>3, AcceptFlight, TickFlight, DrainFlight DEF OuterStep

(* The way out: the completions that are dropped belong to nobody then.    *)
LEMMA LastFlight ==
  ASSUME LoopInv, FlightInv, LastStep
  PROVE  FlightInv'
  <1>0. finishing = <<>> /\ finishing' = finishing
    BY DEF FlightInv, LastStep, StopPool, WorkersJoined, WorkersDetached, Joined,
       Destroy, Exit
  <1>1. CASE StopPool \/ Exit
    <2>1. UNCHANGED <<conn, phase, queue, running, posted, completions>>
      BY <1>1 DEF StopPool, Exit, Pool!Close, kernelVars, netVars, workerVars,
         poolVars
    <2> QED
      BY <2>1, <1>0, QuietFlight DEF SameRequest
  <1>2. CASE Destroy
    <2>1. /\ UNCHANGED <<conn, queue, running, posted, completions>>
          /\ \A c \in Client : phase'[c] \in {"new", "backlog"} =>
               phase[c] \in {"new", "backlog"}
      BY <1>2 DEF Destroy, workerVars, poolVars
    <2> QED
      BY <2>1, <1>0, QuietFlight DEF SameRequest
  <1>3. CASE WorkersJoined \/ WorkersDetached
    <2>1. /\ completions' = <<>> /\ UNCHANGED <<queue, running, posted>>
          /\ conn' = [c \in Client |-> NoConn] /\ Reap(Fd)
      BY <1>3 DEF WorkersJoined, WorkersDetached, Joined, close_all, poolVars
    <2>2. PICK f, lost : Relocates(f, lost)
      BY <2>1, <1>0, DropRelocates
    <2>3. \A c \in Client : phase'[c] \in {"new", "backlog"} =>
            phase[c] \in {"new", "backlog"}
      BY <2>1 DEF Reap
    <2> QED
      BY <2>1, <2>2, <2>3, <1>0, FlightStep
  <1> QED
    BY <1>1, <1>2, <1>3 DEF LastStep

(* A callback settles.  If it hands a job over, its connection had wanted  *)
(* input, so it had no other.                                              *)
LEMMA SettleFlight ==
  ASSUME LoopInv, FlightInv, NEW c \in Client, conn[c] # NoConn, NEW k,
         Keeps(Here(c), k), HandedOver(Here(c), k, c),
         k.job # NoJob => want_read(conn[c]), Settle(c, k),
         UNCHANGED <<pc, phase, posted, finishing, completions>>
  PROVE  FlightInv'
  <1>0. /\ ObjectType /\ WorkerType /\ Here(c).c = conn[c] /\ Here(c).job = NoJob
        /\ Sound(k)
    BY TypeParts, HereIsSound DEF LoopInv, Keeps
  <1>1. /\ conn' = [conn EXCEPT ![c] = conn'[c]] /\ SameRequest(k.c, conn'[c])
        /\ conn'[c] # NoConn
    BY SMTT(30), <1>0, SettleFacts, LoopAssumption DEF Settled
  <1>2. \A d \in Client : d # c => conn'[d] = conn[d]
    BY <1>0, <1>1 DEF ObjectType
  <1>3. CASE k.job = NoJob
    <2>1. UNCHANGED <<queue, running>>
      BY <1>3 DEF Settle, poolVars
    <2>2. SameRequest(conn[c], conn'[c])
      BY <1>0, <1>1, <1>3 DEF HandedOver, SameRequest
    <2>3. \A d \in Client : conn'[d] # NoConn =>
            conn[d] # NoConn /\ SameRequest(conn[d], conn'[d])
      BY <1>2, <2>2 DEF SameRequest
    <2> QED
      BY <2>1, <2>3, QuietFlight
  <1>4. CASE k.job # NoJob
    <2>1. PICK n : n = Len(queue) + 1
      OBVIOUS
    <2> DEFINE new == <<"queue", n>>
    <2>2. /\ queue' = Append(queue, k.job) /\ running' = running
          /\ k.job \in Job /\ queue \in Seq(Job) /\ Len(queue) \in Nat
      BY <1>0, <1>4, ParcelTypes, SeqElements DEF Settle, Pool!Submit, WorkerType, Sound
    <2>3. /\ Len(queue') = n /\ queue'[n] = k.job /\ n \in Nat /\ n > 0
          /\ \A i \in 1..Len(queue) : queue'[i] = queue[i]
          /\ \A i : i \in 1..n <=> i \in 1..Len(queue) \/ i = n
      BY SMT, <2>1, <2>2
    <2>4. new \in Spots' /\ new \notin Spots /\ At(new)' = k.job
      BY SMTT(30), <2>1, <2>2, <2>3, SpotFacts, SpotFactsNext
    <2>5. ASSUME NEW p, p # new
          PROVE  p \in Spots' <=> p \in Spots
      <3>1. (\E i \in 1..Len(queue') : p = <<"queue", i>>)
              <=> \E i \in 1..Len(queue) : p = <<"queue", i>>
        BY <2>3, <2>5
      <3> QED
        BY SMTT(30), <3>1, <2>2, SpotFacts, SpotFactsNext
    <2>6. ASSUME NEW p \in Spots
          PROVE  At(p)' = At(p)
      BY SMT, <2>2, <2>3, SpotFacts, SpotFactsNext
    <2> HIDE DEF new
    <2>7. conn[c].alive /\ ~conn[c].in_flight
      BY <1>4 DEF want_read
    <2>8. \A p \in Spots : At(p).conn # c
      BY <2>7 DEF FlightInv
    <2>9. /\ k.job.conn = c
          /\ k.c.alive => k.c.in_flight /\ k.c.inflight_seq = k.job.seq
      BY <1>0, <1>4 DEF HandedOver
    <2>10. conn'[c].alive => conn'[c].in_flight /\ conn'[c].inflight_seq = k.job.seq
      BY <1>1, <2>9 DEF SameRequest
    <2>11. \A p, q \in Spots' : At(p).conn' = At(q).conn' => p = q
      BY SMTT(30), <2>4, <2>5, <2>6, <2>8, <2>9 DEF FlightInv
    <2>12. ASSUME NEW d \in Client, phase[d] \in {"new", "backlog"}, NEW p \in Spots'
           PROVE  At(p).conn' # d
      <3>1. d # c
        BY <2>12 DEF LoopInv, Identity
      <3> QED
        BY SMTT(30), <3>1, <2>4, <2>5, <2>6, <2>9, <2>12 DEF FlightInv
    <2>13. ASSUME NEW d \in Client, conn'[d] # NoConn, conn'[d].alive
           PROVE  /\ \A p \in Spots' : At(p).conn' = d =>
                       conn'[d].in_flight /\ At(p).seq' = conn'[d].inflight_seq
                  /\ conn'[d].in_flight => \E p \in Spots' : At(p).conn' = d
      <3>1. CASE d = c
        BY <3>1, <2>4, <2>5, <2>6, <2>8, <2>9, <2>10, <2>13
      <3>2. CASE d # c
        BY SMTT(30), <3>2, <1>2, <2>4, <2>5, <2>6, <2>9, <2>13 DEF FlightInv
      <3> QED
        BY <3>1, <3>2
    <2>14. finishing' # <<>> => pc' = "completions"
      BY DEF FlightInv
    <2> QED
      BY <2>11, <2>12, <2>13, <2>14 DEF FlightInv
  <1> QED
    BY <1>3, <1>4

(* A result ends the request it answers, if the connection still exists.   *)
LEMMA ApplyFlight ==
  ASSUME Contract, LoopInv, FlightInv, ApplyCompletion
  PROVE  FlightInv'
  <1> DEFINE r == Head(finishing)
             c == r.conn
             k == on_worker_result(Here(c), r.response, r.seq)
             first == <<"finishing", 1>>
  <1>0. ObjectType /\ PhaseType /\ TypeOK
    BY TypeParts DEF LoopInv
  <1>1. /\ finishing # <<>> /\ finishing' = Tail(finishing)
        /\ pc = "completions" /\ UNCHANGED <<pc, phase, posted, completions>>
    BY DEF ApplyCompletion, netVars
  <1>2. /\ r \in Completion /\ r = finishing[1] /\ Len(finishing) \in Nat
        /\ Len(finishing) > 0
    BY SMT, <1>0, <1>1, SeqHeadTail, SeqElements DEF PhaseType
  <1>3. c \in Client /\ r.response \in Response /\ r.seq \in Nat
    BY <1>2 DEF Completion
  <1>4. first \in Spots /\ At(first) = r
    BY SMT, <1>2, SpotFacts
  <1>5. \A p \in Spots : p # first => At(p).conn # c
    BY SMT, <1>4 DEF FlightInv
  <1>6. CASE conn[c] = NoConn
    <2>1. UNCHANGED <<conn, queue, running>>
      BY <1>6 DEF ApplyCompletion, poolVars
    <2>2. PICK f : Relocates(f, {first})
      BY <2>1, <1>0, <1>1, ApplyRelocates
    <2> HIDE DEF r, first
    <2>3. \A d \in Client : conn'[d] # NoConn =>
            /\ conn[d] # NoConn /\ SameRequest(conn[d], conn'[d])
            /\ \A p \in {first} : At(p).conn # d
      BY <2>1, <1>4, <1>6 DEF SameRequest
    <2> QED
      BY <2>2, <2>3, <1>1, FlightStep
  <1>7. CASE conn[c] # NoConn
    <2>1. Sound(Here(c)) /\ Here(c).c = conn[c] /\ Here(c).job = NoJob
      BY <1>3, <1>7, HereIsSound
    <2>2. Settle(c, k)
      BY <1>7 DEF ApplyCompletion
    <2>3. /\ Sound(k) /\ k.job = NoJob
          /\ k.c.alive => conn[c].alive
                           /\ (conn[c].in_flight /\ r.seq = conn[c].inflight_seq
                                 => ~k.c.in_flight)
      BY <2>1, <1>3 DEF Contract, ResultContract, Sound, Keeps
    <2> HIDE DEF k
    <2>4. UNCHANGED <<queue, running>>
      BY <2>2, <2>3 DEF Settle, poolVars
    <2>5. /\ conn' = [conn EXCEPT ![c] = conn'[c]] /\ SameRequest(k.c, conn'[c])
      BY <2>2, <2>3, <1>0, <1>3, SettleFacts DEF Settled
    <2>6. \A d \in Client : d # c => conn'[d] = conn[d]
      BY <2>5, <1>0 DEF ObjectType
    <2>7. PICK f : Relocates(f, {first})
      BY <2>4, <1>0, <1>1, ApplyRelocates
    <2> HIDE DEF r, c, first
    <2>8. conn'[c].alive => ~conn'[c].in_flight
      <3> SUFFICES ASSUME conn'[c].alive PROVE ~conn'[c].in_flight
        OBVIOUS
      <3>1. k.c.alive /\ conn'[c].in_flight = k.c.in_flight
        BY <2>5 DEF SameRequest
      <3>2. conn[c].in_flight /\ r.seq = conn[c].inflight_seq
        BY <3>1, <2>3, <1>3, <1>4, <1>7 DEF FlightInv, c
      <3> QED
        BY <3>1, <3>2, <2>3
    <2>9. \A d \in Client : conn'[d] # NoConn /\ conn'[d].alive =>
            \/ /\ conn[d] # NoConn /\ SameRequest(conn[d], conn'[d])
               /\ \A p \in {first} : At(p).conn # d
            \/ /\ conn[d] # NoConn /\ ~conn'[d].in_flight
               /\ \E p \in {first} \cap Spots : At(p).conn = d
      BY <2>6, <2>8, <1>4, <1>7 DEF SameRequest, c
    <2> QED
      BY SMT, <2>7, <2>9, <1>1, FlightStep
  <1> QED
    BY <1>6, <1>7

(* The callbacks, together.                                                *)
LEMMA SettlingFlight ==
  ASSUME Contract, LoopInv, FlightInv, SettlingStep
  PROVE  FlightInv'
  <1>0. BatchOK /\ Identity /\ RescanOK /\ ObjectType /\ PhaseType
    BY TypeParts DEF LoopInv
  <1>1. ASSUME NEW e \in batch.events, ConnectionEvent(e)
        PROVE  FlightInv'
    <2> DEFINE c == conns[e.fd]
               k == Callback(c, e.ev)
    <2>1. /\ c \in Client /\ c # NoClient /\ conn[c] # NoConn
          /\ e.ev \in SUBSET {"in", "out", "hup", "err"}
      BY SMT, <1>0, LoopAssumption DEF PhaseType, Event, BatchOK, Identity
    <2>2. Settle(c, k) /\ UNCHANGED <<pc, phase, posted, finishing, completions>>
      BY <2>1, <1>1 DEF ConnectionEvent, netVars
    <2>3. /\ Keeps(Here(c), k) /\ HandedOver(Here(c), k, c)
          /\ k.job # NoJob => want_read(conn[c])
      BY <2>1, CallbackKeeps
    <2> HIDE DEF c, k
    <2> QED
      BY <2>1, <2>2, <2>3, SettleFlight
  <1>2. ASSUME NEW c \in Client, Rescan(c)
        PROVE  FlightInv'
    <2> DEFINE k == on_readable(Here(c), c, Pool!Accepts)
    <2>1. conn[c] # NoConn /\ want_read(conn[c])
      BY <1>0, <1>2 DEF Rescan, RescanOK
    <2>2. Settle(c, k) /\ UNCHANGED <<pc, phase, posted, finishing, completions>>
      BY <2>1, <1>2 DEF Rescan, netVars
    <2>3. Sound(Here(c)) /\ Here(c).job = NoJob /\ Pool!Accepts \in BOOLEAN
      BY <2>1, HereIsSound DEF Pool!Accepts
    <2>4. Keeps(Here(c), k) /\ HandedOver(Here(c), k, c)
      BY <2>3 DEF Contract, ReadableContract, Sound
    <2> HIDE DEF k
    <2> QED
      BY <2>1, <2>2, <2>4, SettleFlight
  <1> QED
    BY <1>1, <1>2, ApplyFlight DEF SettlingStep

(* At first there is no job.                                               *)
LEMMA FlightInvInit == Init => FlightInv
  <1> SUFFICES ASSUME Init PROVE FlightInv
    OBVIOUS
  <1>1. Spots = {}
    BY SMT, SeqEmpty DEF Init, Spots, Pool!PoolInit
  <1>2. finishing = <<>> /\ \A c \in Client : conn[c] = NoConn
    BY DEF Init
  <1> QED
    BY <1>1, <1>2 DEF FlightInv

(* Every step preserves FlightInv.                                         *)
LEMMA FlightInvNext ==
  ASSUME Contract, LoopInv, JoinInv, FlightInv, [Next]_vars
  PROVE  FlightInv'
  <1>0. TypeOK
    BY DEF LoopInv
  <1>1. CASE UNCHANGED vars
    <2>1. UNCHANGED <<conn, phase, pc, queue, running, posted, finishing, completions>>
      BY <1>1 DEF vars, kernelVars, netVars, loopVars, workerVars, poolVars
    <2> QED
      BY <2>1, QuietFlight DEF SameRequest
  <1> QED
    BY <1>0, <1>1, NextCases, EnvFlight, WorkerFlight, OuterFlight,
       LastFlight, SettlingFlight

(* FlightInv says what InFlightIsExact says, and more.                     *)
LEMMA FlightIsExact == FlightInv => InFlightIsExact
  <1> SUFFICES ASSUME FlightInv, NEW c \in Client, conn[c] # NoConn, conn[c].alive
               PROVE  IF conn[c].in_flight
                      THEN \E p \in Spots : /\ Underway(c) = {p}
                                            /\ At(p).seq = conn[c].inflight_seq
                      ELSE Underway(c) = {}
    BY DEF InFlightIsExact
  <1>1. CASE conn[c].in_flight
    <2>1. PICK p \in Spots : At(p).conn = c
      BY <1>1 DEF FlightInv
    <2>2. At(p).seq = conn[c].inflight_seq /\ \A q \in Spots : At(q).conn = c => q = p
      BY <2>1 DEF FlightInv
    <2> QED
      BY <1>1, <2>1, <2>2 DEF Underway
  <1>2. CASE ~conn[c].in_flight
    BY SMT, <1>2 DEF FlightInv, Underway
  <1> QED
    BY <1>1, <1>2

-----------------------------------------------------------------------------
(* What clients read, and what connections buffer.                         *)

(* Three sequences in a row.                                               *)
Groups(S) == \A s, t, u \in Seq(S) : (s \o t) \o u = s \o (t \o u)

LEMMA SeqGroups == \A S : Groups(S)
  BY SMTT(30) DEF Groups

(* The head of one goes to the end of the one before it.                   *)
LEMMA SeqMoves ==
  ASSUME NEW S, NEW s \in Seq(S), NEW t \in Seq(S), t # <<>>
  PROVE  Append(s, Head(t)) \o Tail(t) = s \o t
  <1>1. Head(t) \in S /\ Tail(t) \in Seq(S)
    BY SeqHeadTail
  <1>2. PICK x, u : x = Head(t) /\ u = Tail(t)
    OBVIOUS
  <1>3. x \in S /\ u \in Seq(S) /\ <<x>> \in Seq(S)
    BY SMT, <1>1, <1>2
  <1>4. Append(s, x) = s \o <<x>>
    BY SMTT(30), <1>3
  <1>5. t = <<x>> \o u
    BY SMTT(30), <1>2
  <1>6. (s \o <<x>>) \o u = s \o (<<x>> \o u)
    <2>1. PICK y : y = <<x>>
      OBVIOUS
    <2>2. y \in Seq(S) /\ Groups(S)
      BY <2>1, <1>3, SeqGroups
    <2> QED
      BY <2>1, <2>2, <1>3 DEF Groups
  <1> QED
    BY <1>2, <1>4, <1>5, <1>6

(* Nothing, and the beginning of what is in order, is in order.            *)
LEMMA InOrderFacts ==
  ASSUME NEW id
  PROVE  /\ InOrder(<<>>, id)
         /\ \A s, t \in Seq(Response) : InOrder(s \o t, id) => InOrder(s, id)
         /\ \A r : r.of = NoJob => InOrder(<<r>>, id)
  <1>1. InOrder(<<>>, id)
    BY SMT DEF InOrder
  <1>2. ASSUME NEW r, r.of = NoJob
        PROVE  InOrder(<<r>>, id)
    BY SMT, <1>2 DEF InOrder
  <1>3. ASSUME NEW s \in Seq(Response), NEW t \in Seq(Response), InOrder(s \o t, id)
        PROVE  InOrder(s, id)
    <2> DEFINE u == s \o t
    <2>1. /\ Len(s) \in Nat /\ Len(u) \in Nat /\ Len(s) <= Len(u)
          /\ \A i \in 1..Len(s) : u[i] = s[i]
      BY SMTT(30)
    <2>2. InOrder(u, id)
      BY <1>3
    <2> HIDE DEF u
    <2>3. ASSUME NEW i \in 1..Len(s)
          PROVE  i \in 1..Len(u) /\ FinalsTo(u, i) = FinalsTo(s, i)
      <3>1. i \in 1..Len(u) /\ \A j \in 1..i : j \in 1..Len(s)
        BY SMT, <2>1
      <3>2. {j \in 1..i : Final(u[j])} = {j \in 1..i : Final(s[j])}
        BY <3>1, <2>1 DEF Final
      <3> QED
        BY <3>1, <3>2 DEF FinalsTo
    <2>4. \A i \in 1..(Len(s) - 1) : i \in 1..(Len(u) - 1) /\ i \in 1..Len(s)
      BY SMT, <2>1
    <2> QED
      BY <2>1, <2>2, <2>3, <2>4 DEF InOrder
  <1> QED
    BY <1>1, <1>2, <1>3

(* What c has been sent is in order.  Its connection, if it has one, keeps *)
(* it so and is within its bounds, and is dead only if its peer is.  While *)
(* c waits to be accepted it has got nothing.                              *)
Dialogue(c) ==
  /\ IF conn[c] = NoConn THEN InOrder(sock[c].got \o sock[c].snd, c)
     ELSE /\ Orderly(Here(c), c) /\ Tidy(Here(c), script[c])
          /\ conn[c].alive \/ sock[c].gone # "no"
  /\ phase[c] \in {"new", "backlog"} =>
       sock[c].got = <<>> /\ OneExpect(sock[c].rcv \o script[c])

(* That of every client; and an error is reported only of a dead peer.     *)
DialogueInv == /\ \A c \in Client : Dialogue(c)
               /\ \A e \in batch.events : "err" \in e.ev => sock[e.of].gone # "no"

(* At first nobody has been sent anything.                                 *)
LEMMA DialogueInvInit == Init => DialogueInv
  <1> SUFFICES ASSUME Init PROVE DialogueInv
    OBVIOUS
  <1>a. batch.events = {}
    BY DEF Init
  <1> SUFFICES ASSUME NEW c \in Client PROVE Dialogue(c)
    BY <1>a DEF DialogueInv
  <1>0. conn[c] = NoConn /\ sock[c] = NewSock /\ script[c] \in Scripts
    BY DEF Init
  <1>1. /\ sock[c].got = <<>> /\ sock[c].snd = <<>> /\ sock[c].rcv = <<>>
        /\ script[c] \in Seq(Segment) /\ OneExpect(script[c])
    <2>1. sock[c].got = <<>> /\ sock[c].snd = <<>> /\ sock[c].rcv = <<>>
      BY SMT, <1>0 DEF NewSock
    <2> QED
      BY <2>1, <1>0, LoopAssumption
  <1>2. sock[c].rcv \o script[c] = script[c]
    BY SMT, <1>1
  <1>3. sock[c].got \o sock[c].snd = <<>>
    BY SMT, <1>1
  <1> QED
    BY <1>0, <1>1, <1>2, <1>3, InOrderFacts DEF Dialogue

(* A client whose state a step leaves alone.                               *)
LEMMA DialogueFrame ==
  ASSUME NEW c, Dialogue(c), conn'[c] = conn[c], sock'[c] = sock[c],
         script'[c] = script[c],
         phase'[c] \in {"new", "backlog"} => phase[c] \in {"new", "backlog"}
  PROVE  Dialogue(c)'
  <1>1. Here(c)' = Here(c)
    BY DEF Here
  <1> QED
    BY <1>1 DEF Dialogue

(* A step that leaves them all alone.                                      *)
LEMMA QuietDialogue ==
  ASSUME DialogueInv, UNCHANGED <<conn, sock, script>>,
         \A c \in Client : phase'[c] \in {"new", "backlog"} =>
           phase[c] \in {"new", "backlog"},
         batch'.events \subseteq batch.events
  PROVE  DialogueInv'
  <1>1. \A c \in Client : Dialogue(c)'
    BY DialogueFrame DEF DialogueInv
  <1> QED
    BY <1>1 DEF DialogueInv

(* A step that is about one client.                                        *)
LEMMA DialogueStep ==
  ASSUME DialogueInv, NEW c, Dialogue(c)',
         sock[c].gone # "no" => sock'[c].gone # "no",
         \A d \in Client : d # c =>
           /\ conn'[d] = conn[d] /\ sock'[d] = sock[d]
           /\ script'[d] = script[d] /\ phase'[d] = phase[d],
         batch'.events \subseteq batch.events,
         \A e \in batch.events : e.of \in Client
  PROVE  DialogueInv'
  <1>1. \A d \in Client : Dialogue(d)'
    BY DialogueFrame DEF DialogueInv
  <1>2. \A d \in Client : sock[d].gone # "no" => sock'[d].gone # "no"
    OBVIOUS
  <1> QED
    BY <1>1, <1>2 DEF DialogueInv

(* Two ways of splitting what follows.                                     *)
Splits(s, t, u, v, w) ==
  /\ s \in Seq(Segment) /\ t \in Seq(Segment) /\ u \in Seq(Segment)
  /\ v \in Seq(Segment) /\ w \in Seq(Segment) /\ t \o u = v \o w

SameWhole(s, t, u, v, w) == (s \o t) \o u = (s \o v) \o w

LEMMA SeqSplits ==
  ASSUME NEW s, NEW t, NEW u, NEW v, NEW w, Splits(s, t, u, v, w)
  PROVE  SameWhole(s, t, u, v, w)
  <1>1. Groups(Segment)
    BY SeqGroups
  <1>2. (s \o t) \o u = s \o (t \o u)
    BY ZenonT(30), <1>1 DEF Groups, Splits
  <1>3. (s \o v) \o w = s \o (v \o w)
    BY ZenonT(30), <1>1 DEF Groups, Splits
  <1>4. s \o (t \o u) = s \o (v \o w)
    BY DEF Splits
  <1> QED
    BY SMT, <1>2, <1>3, <1>4 DEF SameWhole

(* The same connection, with the same to send and to receive.              *)
LEMMA AlikeDialogue ==
  ASSUME NEW k, NEW m, NEW id, NEW unsent, NEW rest,
         Orderly(k, id), Tidy(k, unsent), Alike(k.c, m.c), Sent(m) = Sent(k),
         Splits(m.c.in, m.s.rcv, rest, k.s.rcv, unsent)
  PROVE  Orderly(m, id) /\ Tidy(m, rest)
  <1>1. Numbered(k.c, Sent(k)) => Numbered(m.c, Sent(k))
    BY DEF Alike, Numbered
  <1>2. Orderly(m, id)
    BY <1>1 DEF Orderly, Alike
  <1>3. SameWhole(m.c.in, m.s.rcv, rest, k.s.rcv, unsent)
    BY SeqSplits
  <1> QED
    BY <1>2, <1>3 DEF Tidy, OutputBounded, Alike, SameWhole

(* The client sends, reads or goes; or its peer's kernel does.             *)
LEMMA SocketDialogue ==
  ASSUME NEW c \in Client, Dialogue(c), NEW s \in SockState, NEW rest \in Seq(Segment),
         sock[c] \in SockState, script[c] \in Seq(Segment),
         conn[c] \in ConnState \cup {NoConn},
         conn'[c] = conn[c], phase'[c] = phase[c],
         sock'[c] = s, script'[c] = rest,
         s.got \o s.snd = sock[c].got \o sock[c].snd,
         s.rcv \o rest = sock[c].rcv \o script[c],
         sock[c].gone # "no" => s.gone # "no",
         phase[c] \in {"new", "backlog"} => s.got = sock[c].got
  PROVE  Dialogue(c)'
  <1>1. CASE conn[c] = NoConn
    BY <1>1 DEF Dialogue
  <1>2. CASE conn[c] # NoConn
    <2>1. PICK m : m = [c |-> conn[c], s |-> s, job |-> NoJob]
      OBVIOUS
    <2>2. m.c = conn[c] /\ m.s = s /\ Here(c).c = conn[c] /\ Here(c).s = sock[c]
      BY <2>1 DEF Here
    <2>3. Here(c)' = m
      BY <2>1 DEF Here
    <2>4. /\ conn[c].in \in Seq(Segment) /\ s.rcv \in Seq(Segment)
          /\ sock[c].rcv \in Seq(Segment)
      BY <1>2 DEF ConnState, SockState
    <2>5. Splits(m.c.in, m.s.rcv, rest, Here(c).s.rcv, script[c])
      BY <2>2, <2>4 DEF Splits
    <2>6. Sent(m) = Sent(Here(c))
      BY <2>2 DEF Sent
    <2>7. Alike(Here(c).c, m.c)
      BY <2>2 DEF Alike
    <2>8. Orderly(m, c) /\ Tidy(m, rest)
      BY <1>2, <2>5, <2>6, <2>7, AlikeDialogue DEF Dialogue
    <2> QED
      BY <1>2, <2>3, <2>8 DEF Dialogue
  <1> QED
    BY <1>1, <1>2

(* Clients and signals keep what is said of every client.                  *)
LEMMA EnvDialogue ==
  ASSUME LoopInv, DialogueInv, EnvStep
  PROVE  DialogueInv'
  <1>0. /\ KernelType /\ ObjectType /\ PhaseType
        /\ \A e \in batch.events : e.of \in Client
    BY TypeParts DEF LoopInv, PhaseType, Event
  <1>1. conn' = conn /\ batch' = batch
    BY EnvFrame DEF loopVars
  <1>2. CASE RaiseSignal
    BY <1>1, <1>2, QuietDialogue DEF RaiseSignal
  <1>3. ASSUME NEW c \in Client, Connect(c)
        PROVE  DialogueInv'
    <2>1. \A d \in Client : phase'[d] \in {"new", "backlog"} =>
            phase[d] \in {"new", "backlog"}
      BY <1>0, <1>3 DEF Connect, KernelType
    <2> QED
      BY <2>1, <1>1, <1>3, QuietDialogue DEF Connect
  <1>4. ASSUME NEW c \in Client, NEW s \in SockState, NEW rest \in Seq(Segment),
               sock' = [sock EXCEPT ![c] = s], script' = [script EXCEPT ![c] = rest],
               phase' = phase,
               s.got \o s.snd = sock[c].got \o sock[c].snd,
               s.rcv \o rest = sock[c].rcv \o script[c],
               sock[c].gone # "no" => s.gone # "no",
               phase[c] \in {"new", "backlog"} => s.got = sock[c].got
        PROVE  DialogueInv'
    <2>1. /\ sock[c] \in SockState /\ script[c] \in Seq(Segment)
          /\ conn[c] \in ConnState \cup {NoConn}
          /\ sock'[c] = s /\ script'[c] = rest
          /\ \A d \in Client : d # c => sock'[d] = sock[d] /\ script'[d] = script[d]
      BY <1>0, <1>4 DEF KernelType, ObjectType
    <2>2. Dialogue(c)'
      BY <2>1, <1>1, <1>4, SocketDialogue DEF DialogueInv
    <2> QED
      BY <2>1, <2>2, <1>0, <1>1, <1>4, DialogueStep
  <1>5. ASSUME NEW c \in Client
        PROVE  /\ script' = script => script' = [script EXCEPT ![c] = script[c]]
               /\ sock[c] \in SockState /\ script[c] \in Seq(Segment)
               /\ sock[c].rcv \in Seq(Segment) /\ sock[c].got \in Seq(Response)
               /\ sock[c].snd \in Seq(Response)
    BY <1>0 DEF KernelType, SockState
  <1>6. ASSUME NEW c \in Client, Send(c)
        PROVE  DialogueInv'
    <2> DEFINE more == Append(sock[c].rcv, Head(script[c]))
               s == [sock[c] EXCEPT !.rcv = more]
    <2>1. /\ script[c] # <<>> /\ script' = [script EXCEPT ![c] = Tail(script[c])]
          /\ sock' = [sock EXCEPT ![c] = s] /\ phase' = phase
      BY <1>0, <1>6 DEF Send, KernelType
    <2>2. Tail(script[c]) \in Seq(Segment) /\ Head(script[c]) \in Segment
      BY <2>1, <1>5, SeqHeadTail
    <2>3. more \in Seq(Segment)
      BY <2>2, <1>5, SeqAppend
    <2>4. more \o Tail(script[c]) = sock[c].rcv \o script[c]
      <3>1. \A s1, t1 \in Seq(Segment) :
              t1 # <<>> => Append(s1, Head(t1)) \o Tail(t1) = s1 \o t1
        BY SeqMoves
      <3> QED
        BY <3>1, <2>1, <1>5
    <2> HIDE DEF more
    <2>5. /\ s \in SockState /\ s.rcv = more /\ s.got = sock[c].got
          /\ s.snd = sock[c].snd /\ s.gone = sock[c].gone
      BY <2>3, <1>5 DEF SockState
    <2> HIDE DEF s
    <2> QED
      BY <2>1, <2>2, <2>4, <2>5, <1>4
  <1>7. ASSUME NEW c \in Client, HalfClose(c)
        PROVE  DialogueInv'
    <2> DEFINE s == [sock[c] EXCEPT !.fin = TRUE]
    <2>1. sock' = [sock EXCEPT ![c] = s] /\ script' = script /\ phase' = phase
      BY <1>0, <1>7 DEF HalfClose, KernelType, netVars
    <2>2. /\ s \in SockState /\ s.rcv = sock[c].rcv /\ s.got = sock[c].got
          /\ s.snd = sock[c].snd /\ s.gone = sock[c].gone
      BY <1>5 DEF SockState
    <2> HIDE DEF s
    <2> QED
      BY <2>1, <2>2, <1>4, <1>5
  <1>8. ASSUME NEW c \in Client, Vanish(c)
        PROVE  DialogueInv'
    <2>1. PICK g \in {"hup", "err"} : sock' = [sock EXCEPT ![c].gone = g]
      BY <1>8 DEF Vanish
    <2> DEFINE s == [sock[c] EXCEPT !.gone = g]
    <2>2. sock' = [sock EXCEPT ![c] = s] /\ script' = script /\ phase' = phase
      BY <2>1, <1>0, <1>8 DEF Vanish, KernelType, netVars
    <2>3. /\ s \in SockState /\ s.rcv = sock[c].rcv /\ s.got = sock[c].got
          /\ s.snd = sock[c].snd /\ s.gone # "no"
      BY <1>5 DEF SockState
    <2> HIDE DEF s
    <2> QED
      BY <2>2, <2>3, <1>4, <1>5
  <1>9. ASSUME NEW c \in Client, Read(c)
        PROVE  DialogueInv'
    <2> DEFINE got1 == Append(sock[c].got, Head(sock[c].snd))
               s == [sock[c] EXCEPT !.got = got1, !.snd = Tail(sock[c].snd)]
    <2>1. /\ sock[c].snd # <<>> /\ sock' = [sock EXCEPT ![c] = s]
          /\ script' = script /\ phase' = phase
      BY <1>0, <1>9 DEF Read, KernelType, netVars
    <2>2. Head(sock[c].snd) \in Response /\ Tail(sock[c].snd) \in Seq(Response)
      BY <2>1, <1>5, SeqHeadTail
    <2>3. got1 \in Seq(Response)
      BY <2>2, <1>5, SeqAppend
    <2>4. got1 \o Tail(sock[c].snd) = sock[c].got \o sock[c].snd
      <3>1. \A s1, t1 \in Seq(Response) :
              t1 # <<>> => Append(s1, Head(t1)) \o Tail(t1) = s1 \o t1
        BY SeqMoves
      <3> QED
        BY <3>1, <2>1, <1>5
    <2>5. phase[c] \notin {"new", "backlog"}
      BY <2>1 DEF LoopInv, Bounded
    <2> HIDE DEF got1
    <2>6. /\ s \in SockState /\ s.rcv = sock[c].rcv /\ s.got = got1
          /\ s.snd = Tail(sock[c].snd) /\ s.gone = sock[c].gone
      BY <2>2, <2>3, <1>5 DEF SockState
    <2> HIDE DEF s
    <2> QED
      BY <2>1, <2>4, <2>5, <2>6, <1>4, <1>5
  <1> QED
    BY <1>2, <1>3, <1>6, <1>7, <1>8, <1>9 DEF EnvStep, ClientStep

-----------------------------------------------------------------------------
(* DialogueInv.  First the callbacks.                                      *)

(* Nothing done serves, and so do two methods in a row.                    *)
LEMMA ServesItself ==
  ASSUME NEW k, NEW id
  PROVE  Serves(k, k, id)
  BY DEF Serves, Proceeds

LEMMA ServesTransitive ==
  ASSUME NEW k, NEW m, NEW n, NEW id, Serves(k, m, id), Serves(m, n, id)
  PROVE  Serves(k, n, id)
  <1>1. Proceeds(k, n)
    BY DEF Serves, Proceeds
  <1>2. k.c.alive /\ ~n.c.alive => k.s.gone # "no"
    BY DEF Serves, Proceeds
  <1> QED
    BY <1>1, <1>2 DEF Serves

(* An event's callback: an error is reported only of a dead peer.          *)
LEMMA CallbackServes ==
  ASSUME Contract, LoopInv, NEW c \in Client, conn[c] # NoConn,
         NEW ev \in SUBSET {"in", "out", "hup", "err"},
         "err" \in ev => sock[c].gone # "no"
  PROVE  Serves(Here(c), Callback(c, ev), c)
  <1>1. Sound(Here(c)) /\ Here(c).s = sock[c]
    BY HereIsSound
  <1>2. /\ Pool!Accepts \in BOOLEAN /\ Here(c) \in K
        /\ ReadableContract /\ WritableContract /\ HangupContract
    BY <1>1 DEF Pool!Accepts, Contract, Sound
  <1> DEFINE k == IF "in" \in ev THEN on_readable(Here(c), c, Pool!Accepts)
                  ELSE Here(c)
  <1>3. CASE ev \cap {"err", "hup"} # {}
    <2>1. Callback(c, ev) = on_hangup(Here(c), ev)
      BY <1>3 DEF Callback
    <2> QED
      BY <2>1, <1>1, <1>2 DEF HangupContract
  <1>4. CASE ev \cap {"err", "hup"} = {}
    <2>1. Sound(k) /\ Serves(Here(c), k, c)
      <3>1. CASE "in" \in ev
        BY <3>1, <1>1, <1>2 DEF ReadableContract, Keeps
      <3>2. CASE "in" \notin ev
        BY <3>2, <1>1, ServesItself
      <3> QED
        BY <3>1, <3>2
    <2>2. Callback(c, ev) = k \/ Callback(c, ev) = on_writable(k)
      BY <1>4 DEF Callback
    <2> HIDE DEF k
    <2>3. Serves(k, on_writable(k), c)
      BY <2>1, <1>2 DEF WritableContract, Sound
    <2> QED
      BY <2>1, <2>2, <2>3, ServesTransitive
  <1> QED
    BY <1>3, <1>4

(* A callback that serves, and what follows it.                            *)
LEMMA SettleDialogue ==
  ASSUME LoopInv, DialogueInv, NEW c \in Client, conn[c] # NoConn, NEW k,
         Sound(k), Serves(Here(c), k, c), Settle(c, k), UNCHANGED netVars,
         batch'.events \subseteq batch.events
  PROVE  DialogueInv'
  <1>0. /\ KernelType /\ ObjectType /\ Identity
        /\ \A e \in batch.events : e.of \in Client
    BY TypeParts DEF LoopInv, PhaseType, Event
  <1>1. /\ k.c \in ConnState /\ k.s \in SockState /\ Here(c).c = conn[c]
        /\ Here(c).s = sock[c] /\ script[c] \in Seq(Segment)
        /\ conn \in [Client -> ConnState \cup {NoConn}]
        /\ sock \in [Client -> SockState]
    BY <1>0, ParcelTypes, HereIsSound DEF Sound, KernelType, ObjectType
  <1>2. Alike(k.c, conn'[c]) /\ Settled(c, k)
    BY <1>0, SettleAlike, SettleFacts
  <1>3. /\ sock' = [sock EXCEPT ![c] = k.s] /\ script' = script /\ phase' = phase
    BY DEF Settle, netVars
  <1>4. /\ conn' = [conn EXCEPT ![c] = conn'[c]] /\ conn'[c] \in ConnState
    BY <1>2 DEF Settled
  <1>5. /\ sock'[c] = k.s /\ conn'[c] # NoConn
        /\ \A d \in Client : d # c => conn'[d] = conn[d] /\ sock'[d] = sock[d]
    BY <1>1, <1>3, <1>4, LoopAssumption
  <1>6. Dialogue(c) /\ phase[c] = "open"
    BY <1>0 DEF DialogueInv, Identity
  <1>7. Orderly(k, c) /\ Tidy(k, script[c]) /\ k.s.gone = sock[c].gone
    BY <1>1, <1>6 DEF Dialogue, Serves, Proceeds
  <1>8. conn'[c].alive \/ k.s.gone # "no"
    BY <1>1, <1>2, <1>6, <1>7 DEF Dialogue, Serves, Alike
  <1>9. PICK m : m = [c |-> conn'[c], s |-> k.s, job |-> NoJob]
    OBVIOUS
  <1>10. m.c = conn'[c] /\ m.s = k.s /\ Here(c)' = m
    BY <1>5, <1>9 DEF Here
  <1>11. Splits(m.c.in, m.s.rcv, script[c], k.s.rcv, script[c])
    BY <1>1, <1>4, <1>10 DEF Splits, ConnState, SockState
  <1>12. Sent(m) = Sent(k) /\ Alike(k.c, m.c)
    BY <1>2, <1>10 DEF Sent, Alike
  <1>13. Orderly(m, c) /\ Tidy(m, script[c])
    BY <1>7, <1>11, <1>12, AlikeDialogue
  <1>14. Dialogue(c)'
    BY <1>3, <1>5, <1>6, <1>8, <1>10, <1>13 DEF Dialogue
  <1> QED
    BY <1>0, <1>3, <1>5, <1>7, <1>14, DialogueStep

(* Every callback.                                                         *)
LEMMA SettlingDialogue ==
  ASSUME Contract, LoopInv, AnswerInv, DialogueInv, SettlingStep
  PROVE  DialogueInv'
  <1>0. /\ TypeOK /\ BatchOK /\ Identity /\ RescanOK /\ ObjectType /\ PhaseType
    BY TypeParts DEF LoopInv
  <1>1. ASSUME UNCHANGED <<sock, conn>>, UNCHANGED netVars,
               batch'.events \subseteq batch.events
        PROVE  DialogueInv'
    BY <1>1, QuietDialogue DEF netVars
  <1>2. ASSUME NEW e \in batch.events, ConnectionEvent(e)
        PROVE  DialogueInv'
    <2> DEFINE c == conns[e.fd]
               k == Callback(c, e.ev)
    <2>1. c = e.of /\ c \in Client /\ c # NoClient /\ conn[c] # NoConn
      BY SMT, <1>0, LoopAssumption DEF PhaseType, Event, BatchOK, Identity
    <2>2. Settle(c, k) /\ batch' = [batch EXCEPT !.events = @ \ {e}]
          /\ UNCHANGED netVars
      BY <2>1, <1>2 DEF ConnectionEvent
    <2>3. batch'.events \subseteq batch.events
      BY <2>2, <1>0 DEF PhaseType
    <2>4. /\ e.ev \in SUBSET {"in", "out", "hup", "err"}
          /\ "err" \in e.ev => sock[c].gone # "no"
      BY <2>1, <1>0 DEF PhaseType, Event, DialogueInv
    <2>5. Keeps(Here(c), k) /\ Serves(Here(c), k, c)
      BY <2>1, <2>4, CallbackKeeps, CallbackServes
    <2> HIDE DEF c, k
    <2> QED
      BY <2>1, <2>2, <2>3, <2>5, SettleDialogue DEF Keeps
  <1>3. ASSUME ApplyCompletion
        PROVE  DialogueInv'
    <2> DEFINE r == Head(finishing)
               c == r.conn
               k == on_worker_result(Here(c), r.response, r.seq)
    <2>1. finishing # <<>> /\ UNCHANGED netVars /\ batch' = batch
      BY <1>3 DEF ApplyCompletion
    <2>2. r \in Completion /\ Answering(r.response, c, r.seq)
      BY <2>1, <1>0, SeqHeadTail, ResultFacts DEF PhaseType, AnswerInv
    <2>3. c \in Client /\ r.response \in Response /\ r.seq \in Nat
      BY <2>2 DEF Completion
    <2>4. CASE conn[c] = NoConn
      BY <2>1, <2>4, <1>1, <1>3 DEF ApplyCompletion
    <2>5. CASE conn[c] # NoConn
      <3>1. Sound(Here(c)) /\ Settle(c, k)
        BY <2>3, <2>5, <1>3, HereIsSound DEF ApplyCompletion
      <3>2. Keeps(Here(c), k) /\ Serves(Here(c), k, c)
        BY <3>1, <2>2, <2>3 DEF Contract, ResultContract, Sound
      <3> HIDE DEF r, c, k
      <3> QED
        BY <3>1, <3>2, <2>1, <2>3, <2>5, SettleDialogue DEF Keeps
    <2> QED
      BY <2>4, <2>5
  <1>4. ASSUME NEW c \in Client, Rescan(c)
        PROVE  DialogueInv'
    <2> DEFINE k == on_readable(Here(c), c, Pool!Accepts)
    <2>1. c \in pending /\ UNCHANGED netVars /\ batch' = batch
      BY <1>4 DEF Rescan
    <2>2. conn[c] # NoConn /\ Settle(c, k)
      BY <2>1, <1>0, <1>4 DEF RescanOK, Rescan
    <2>3. Sound(Here(c)) /\ Pool!Accepts \in BOOLEAN
      BY <2>2, HereIsSound DEF Pool!Accepts
    <2>4. Keeps(Here(c), k) /\ Serves(Here(c), k, c)
      BY <2>3 DEF Contract, ReadableContract, Sound
    <2> HIDE DEF k
    <2> QED
      BY <2>1, <2>2, <2>4, SettleDialogue DEF Keeps
  <1> QED
    BY <1>2, <1>3, <1>4 DEF SettlingStep

(* What the kernel has of a connection that is closed is in order.         *)
LEMMA ClosedInOrder ==
  ASSUME NEW k \in K, NEW id, Orderly(k, id)
  PROVE  InOrder(k.s.got \o k.s.snd, id)
  <1>1. /\ k.s.got \in Seq(Response) /\ k.s.snd \in Seq(Response)
        /\ k.c.out \in Seq(Response)
    BY ParcelTypes DEF SockState, ConnState
  <1>2. k.s.got \o k.s.snd \in Seq(Response)
    BY SMT, <1>1
  <1> QED
    BY <1>1, <1>2, InOrderFacts DEF Orderly, Sent

(* Connections are closed, and nothing else happens to any.                *)
LEMMA CloseDialogue ==
  ASSUME LoopInv, DialogueInv, UNCHANGED <<sock, script, batch>>,
         \A c \in Client : conn'[c] = conn[c] \/ conn'[c] = NoConn,
         \A c \in Client : phase'[c] \in {"new", "backlog"} =>
           phase[c] \in {"new", "backlog"}
  PROVE  DialogueInv'
  <1>1. ASSUME NEW c \in Client
        PROVE  Dialogue(c)'
    <2>1. CASE conn'[c] = conn[c]
      BY <2>1, DialogueFrame DEF DialogueInv
    <2>2. CASE conn'[c] = NoConn /\ conn[c] # NoConn
      <3>1. Here(c) \in K /\ Here(c).s = sock[c] /\ Orderly(Here(c), c)
        BY <2>2, HereIsSound DEF Sound, DialogueInv, Dialogue
      <3>2. InOrder(sock[c].got \o sock[c].snd, c)
        BY <3>1, ClosedInOrder
      <3> QED
        BY <3>2, <2>2 DEF Dialogue, DialogueInv
    <2> QED
      BY <2>1, <2>2
  <1> QED
    BY <1>1 DEF DialogueInv

(* on_tick() meets no connection that finished by itself: only the drain's *)
(* beginning finishes any between the reaping and the tick.                *)
LEMMA TickMeets ==
  ASSUME LoopInv, OverInv, pc = "tick", NEW c \in Client, conn[c] # NoConn
  PROVE  finished(conn[c]) => conn[c].draining
  BY DEF LoopInv, OverInv, BeforeTick, ReapOK, DrainOK

LEMMA TickDialogue ==
  ASSUME Contract, LoopInv, OverInv, DialogueInv, tick
  PROVE  DialogueInv'
  <1>0. KernelType /\ Identity
    BY TypeParts DEF LoopInv
  <1>1. pc = "tick" /\ script' = script /\ batch' = batch
    BY DEF tick
  <1>2. \A c \in Client : phase'[c] \in {"new", "backlog"} =>
          phase[c] \in {"new", "backlog"} /\ conn[c] = NoConn
    <2>1. \E fds : Reap(fds)
      BY DEF tick
    <2>2. \A c \in Client : phase'[c] = phase[c] \/ phase'[c] = "closed"
      BY <2>1 DEF Reap
    <2> QED
      BY SMT, <2>2, <1>0 DEF Identity
  <1>3. ASSUME NEW c \in Client
        PROVE  Dialogue(c)' /\ (sock[c].gone # "no" => sock'[c].gone # "no")
    <2>1. CASE conn[c] = NoConn
      <3>1. conn'[c] = conn[c] /\ sock'[c] = sock[c]
        BY <2>1, TickCases
      <3> QED
        BY <3>1, <1>1, <1>2, DialogueFrame DEF DialogueInv
    <2>2. CASE conn[c] # NoConn
      <3>1. PICK idle \in BOOLEAN : Ticked(c, on_tick(Here(c), idle))
        BY <2>2, TickCases
      <3>2. PICK m : m = on_tick(Here(c), idle)
        OBVIOUS
      <3>3. /\ Sound(Here(c)) /\ Here(c).c = conn[c] /\ Here(c).s = sock[c]
            /\ (finished(conn[c]) => conn[c].draining)
            /\ Orderly(Here(c), c) /\ Tidy(Here(c), script[c])
            /\ script[c] \in Seq(Segment) /\ phase'[c] \notin {"new", "backlog"}
        <4>1. Sound(Here(c)) /\ Here(c).c = conn[c] /\ Here(c).s = sock[c]
          BY <2>2, HereIsSound
        <4>2. finished(conn[c]) => conn[c].draining
          BY <2>2, <1>1, TickMeets
        <4>3. Orderly(Here(c), c) /\ Tidy(Here(c), script[c])
          BY <2>2 DEF DialogueInv, Dialogue
        <4>4. script[c] \in Seq(Segment) /\ phase'[c] \notin {"new", "backlog"}
          BY <2>2, <1>0, <1>2 DEF KernelType
        <4> QED
          BY <4>1, <4>2, <4>3, <4>4
      <3>4. /\ Sound(m) /\ Orderly(m, c) /\ Tidy(m, script[c])
            /\ m.s.gone = sock[c].gone
        <4>1. TickContract /\ Here(c) \in K
          BY <3>3 DEF Contract, Sound
        <4>2. /\ Sound(m) /\ Proceeds(Here(c), m)
              /\ \A unsent \in Seq(Segment) : Tidy(Here(c), unsent) => Tidy(m, unsent)
          BY <4>1, <3>2, <3>3 DEF TickContract
        <4>3. Orderly(Here(c), c) => Orderly(m, c)
          BY <4>1, <3>2, <3>3 DEF TickContract
        <4> QED
          BY <4>2, <4>3, <3>3 DEF Proceeds
      <3>5. Ticked(c, m) /\ m \in K
        BY <3>1, <3>2, <3>4 DEF Sound
      <3>6. CASE conn'[c] = NoConn
        <4>1. InOrder(m.s.got \o m.s.snd, c)
          BY <3>4, <3>5, ClosedInOrder
        <4> QED
          BY <4>1, <3>3, <3>4, <3>5, <3>6 DEF Dialogue, Ticked
      <3>7. CASE conn'[c] # NoConn
        <4>1. conn'[c] = m.c /\ sock'[c] = m.s /\ ~finished(m.c)
          BY <3>5, <3>7 DEF Ticked
        <4>2. PICK n : n = [c |-> m.c, s |-> m.s, job |-> NoJob]
          OBVIOUS
        <4>3. n.c = m.c /\ n.s = m.s /\ Here(c)' = n
          BY <4>1, <4>2 DEF Here
        <4>4. Orderly(n, c) /\ Tidy(n, script[c])
          BY <4>3, <3>4 DEF Orderly, Tidy, Sent
        <4> QED
          BY <4>1, <4>3, <4>4, <3>3, <3>4, <3>7, <1>1 DEF Dialogue, finished
      <3> QED
        BY <3>6, <3>7
    <2> QED
      BY <2>1, <2>2
  <1>4. \A e \in batch.events : e.of \in Client
    BY TypeParts DEF LoopInv, PhaseType, Event
  <1> QED
    BY <1>1, <1>3, <1>4 DEF DialogueInv

(* Draining closes what is idle, which keeps all of that.                  *)
LEMMA DrainDialogue ==
  ASSUME Contract, LoopInv, DialogueInv, maybe_begin_drain
  PROVE  DialogueInv'
  <1>1. /\ sock' = sock /\ script' = script /\ batch' = batch /\ phase' = phase
        /\ conn' = [c \in Client |-> IF c \in Owned THEN begin_draining(conn[c])
                                     ELSE conn[c]]
    BY DEF maybe_begin_drain, kernelVars, netVars
  <1>2. ASSUME NEW c \in Client
        PROVE  Dialogue(c)'
    <2>1. CASE conn[c] = NoConn
      <3>1. conn'[c] = conn[c]
        BY <1>1, <2>1, OwnedFacts
      <3> QED
        BY <3>1, <1>1, DialogueFrame DEF DialogueInv
    <2>2. CASE conn[c] # NoConn
      <3>1. conn'[c] = begin_draining(conn[c])
        BY <1>1, <2>2, OwnedFacts
      <3>2. /\ Sound(Here(c)) /\ Here(c).c = conn[c] /\ Here(c).s = sock[c]
            /\ Here(c).job = NoJob /\ conn[c] \in ConnState
            /\ InputBounded(conn[c]) /\ script[c] \in Seq(Segment)
        BY <2>2, HereIsSound, TypeParts DEF Sound, LoopInv, KernelType
      <3>3. PICK m : m = [Here(c) EXCEPT !.c = conn'[c]]
        OBVIOUS
      <3>4. /\ Serves(Here(c), m, c) /\ conn'[c] \in ConnState
            /\ conn'[c].alive = conn[c].alive
        BY <3>1, <3>2, <3>3 DEF Contract, DrainingContract, Sound
      <3>5. m.c = conn'[c] /\ m.s = sock[c] /\ Here(c)' = m
        BY <3>3, <1>1 DEF Here
      <3>6. conn'[c] # NoConn
        BY <3>4, LoopAssumption
      <3>7. Orderly(m, c) /\ Tidy(m, script[c])
        BY <2>2, <3>2, <3>4 DEF DialogueInv, Dialogue, Serves
      <3> QED
        BY <2>2, <3>4, <3>5, <3>6, <3>7, <1>1 DEF Dialogue, DialogueInv
    <2> QED
      BY <2>1, <2>2
  <1> QED
    BY <1>1, <1>2 DEF DialogueInv

(* Refused or lost clients have been sent a refusal at most.               *)
LEMMA DismissDialogue ==
  ASSUME LoopInv, DialogueInv, backlog # <<>>, NEW c, c = Head(backlog), NEW s,
         Dismiss(c, s), s.gone = sock[c].gone, InOrder(s.got \o s.snd, c)
  PROVE  DialogueInv'
  <1>0. /\ KernelType /\ ObjectType /\ TypeOK /\ Identity
        /\ \A e \in batch.events : e.of \in Client
    BY TypeParts DEF LoopInv, PhaseType, Event
  <1>1. /\ phase' = [phase EXCEPT ![c] = "closed"] /\ sock' = [sock EXCEPT ![c] = s]
        /\ script' = script /\ conn' = conn /\ batch' = batch
    BY DEF Dismiss
  <1>2. c \in Client /\ conn[c] = NoConn
    BY <1>0, HeadOfBacklog
  <1>3. /\ phase'[c] = "closed" /\ sock'[c] = s
        /\ \A d \in Client : d # c => phase'[d] = phase[d] /\ sock'[d] = sock[d]
    BY <1>0, <1>1, <1>2 DEF KernelType
  <1>4. Dialogue(c)'
    BY <1>1, <1>2, <1>3 DEF Dialogue
  <1> QED
    BY <1>0, <1>1, <1>3, <1>4, DialogueStep

(* A new connection has nothing to say yet, and nothing to answer.         *)
LEMMA AdmitDialogue ==
  ASSUME Contract, LoopInv, DialogueInv, NEW fd \in Fd, Admit(fd)
  PROVE  DialogueInv'
  <1>a. PICK c : c = Head(backlog)
    OBVIOUS
  <1>0. /\ KernelType /\ ObjectType /\ TypeOK /\ Identity /\ Bounded
        /\ \A e \in batch.events : e.of \in Client
    BY TypeParts DEF LoopInv, PhaseType, Event
  <1>1. /\ backlog # <<>> /\ phase' = [phase EXCEPT ![c] = "open"]
        /\ conn' = [conn EXCEPT ![c] = NewConn(fd)]
        /\ script' = script /\ sock' = sock /\ batch' = batch
    BY <1>a DEF Admit
  <1>2. c \in Client /\ phase[c] = "backlog"
    BY <1>0, <1>1, <1>a, HeadOfBacklog
  <1>3. /\ phase'[c] = "open" /\ conn'[c] = NewConn(fd)
        /\ \A d \in Client : d # c => phase'[d] = phase[d] /\ conn'[d] = conn[d]
    BY <1>0, <1>1, <1>2 DEF KernelType, ObjectType
  <1>4. /\ sock[c].got = <<>> /\ sock[c].snd = <<>>
        /\ OneExpect(sock[c].rcv \o script[c])
        /\ sock[c].rcv \in Seq(Segment) /\ script[c] \in Seq(Segment)
    BY <1>0, <1>2 DEF DialogueInv, Dialogue, Bounded, KernelType, SockState
  <1>5. PICK n : n = NewConn(fd)
    OBVIOUS
  <1>6. /\ n.alive = TRUE /\ n.in_flight = FALSE /\ n.close_after = FALSE
        /\ n.next_seq = 1 /\ n.in = <<>> /\ n.out = <<>> /\ n # NoConn
    BY <1>5, NewConnFacts, LoopAssumption DEF NewConn
  <1>7. PICK m : m = [c |-> n, s |-> sock[c], job |-> NoJob]
    OBVIOUS
  <1>8. m.c = n /\ m.s = sock[c] /\ Here(c)' = m
    BY <1>1, <1>3, <1>5, <1>7 DEF Here
  <1>9. Sent(m) = <<>>
    <2>1. Sent(m) = (<<>> \o <<>>) \o <<>>
      BY <1>4, <1>6, <1>8 DEF Sent
    <2>2. (<<>> \o <<>>) \o <<>> = <<>>
      BY SMT
    <2> QED
      BY <2>1, <2>2
  <1>10. Numbered(n, <<>>)
    <2>1. Len(<<>>) = 0 /\ FinalsTo(<<>>, 0) = 0 /\ 1..0 = {}
      BY SMT, SeqEmpty DEF Contract, CountContract
    <2> QED
      BY SMT, <2>1, <1>6 DEF Numbered
  <1>11. Orderly(m, c)
    BY <1>8, <1>9, <1>10, InOrderFacts DEF Orderly
  <1>12. OutputBounded(n)
    BY SMT, <1>6, SeqEmpty, ConnectionAssumption DEF OutputBounded
  <1>13. <<>> \o sock[c].rcv = sock[c].rcv
    BY SMT, <1>4
  <1>14. Tidy(m, script[c])
    BY <1>4, <1>6, <1>8, <1>12, <1>13 DEF Tidy
  <1>15. Dialogue(c)'
    BY <1>1, <1>3, <1>5, <1>6, <1>8, <1>11, <1>14 DEF Dialogue
  <1> QED
    BY <1>0, <1>1, <1>3, <1>15, DialogueStep

(* All of accept_batch().                                                  *)
LEMMA AcceptDialogue ==
  ASSUME Contract, LoopInv, DialogueInv, accept_batch
  PROVE  DialogueInv'
  <1>0. TypeOK /\ Identity /\ Bounded /\ KernelType
    BY TypeParts DEF LoopInv
  <1>1. CASE AcceptDrained \/ AcceptNoDescriptor \/ AcceptBatchFull \/ AcceptError
    <2>1. UNCHANGED <<conn, sock, script, phase, batch>>
      BY <1>1 DEF AcceptDrained, AcceptNoDescriptor, AcceptBatchFull,
                  AcceptError, LeaveAccept, kernelVars, netVars
    <2> QED
      BY <2>1, QuietDialogue
  <1>2. ASSUME backlog # <<>>
        PROVE  /\ InOrder(sock[Head(backlog)].got \o sock[Head(backlog)].snd,
                          Head(backlog))
               /\ sock[Head(backlog)].got = <<>> /\ sock[Head(backlog)].snd = <<>>
               /\ sock[Head(backlog)] \in SockState
    <2>1. PICK c : c = Head(backlog)
      OBVIOUS
    <2>2. c \in Client /\ phase[c] = "backlog" /\ conn[c] = NoConn
      BY <2>1, <1>0, <1>2, HeadOfBacklog
    <2> QED
      BY <2>1, <2>2, <1>0 DEF DialogueInv, Dialogue, Bounded, KernelType
  <1>3. CASE AcceptAborted \/ AddFails
    <2>1. backlog # <<>> /\ Dismiss(Head(backlog), sock[Head(backlog)])
      BY <1>3 DEF AcceptAborted, AddFails
    <2> QED
      BY <2>1, <1>2, DismissDialogue
  <1>4. CASE reject_connection
    <2> DEFINE c == Head(backlog)
               refusal == [status |-> "503", of |-> NoJob, body |-> TRUE,
                           close |-> TRUE]
               t == [sock[c] EXCEPT !.snd = Append(sock[c].snd, refusal)]
               s == IF sock[c].gone # "no" THEN sock[c] ELSE t
    <2>1. backlog # <<>> /\ Dismiss(c, s)
      BY <1>4 DEF reject_connection
    <2>2. /\ InOrder(sock[c].got \o sock[c].snd, c)
          /\ sock[c].got = <<>> /\ sock[c].snd = <<>> /\ sock[c] \in SockState
      BY <2>1, <1>2
    <2>3. refusal.of = NoJob
      OBVIOUS
    <2> HIDE DEF refusal, c
    <2>4. t.got = <<>> /\ t.snd = Append(<<>>, refusal) /\ t.gone = sock[c].gone
      BY <2>2 DEF SockState
    <2>5. <<>> \o Append(<<>>, refusal) = <<refusal>>
      BY SMT
    <2>6. InOrder(t.got \o t.snd, c)
      BY <2>3, <2>4, <2>5, InOrderFacts
    <2>7. s = sock[c] \/ s = t
      OBVIOUS
    <2> HIDE DEF s, t
    <2>8. s.gone = sock[c].gone /\ InOrder(s.got \o s.snd, c)
      BY <2>2, <2>4, <2>6, <2>7
    <2> QED
      BY <2>1, <2>8, DismissDialogue DEF c
  <1>5. CASE \E fd \in Fd : Admit(fd)
    BY <1>5, AdmitDialogue
  <1> QED
    BY <1>1, <1>3, <1>4, <1>5 DEF accept_batch

(* epoll_wait() reports an error of a dead peer only.                      *)
LEMMA EpollWaitDialogue ==
  ASSUME LoopInv, DialogueInv, EpollWait
  PROVE  DialogueInv'
  <1>0. ObjectType /\ KernelType /\ Identity
    BY TypeParts DEF LoopInv
  <1>1. /\ batch'.events = {[fd |-> conn[c].fd, of |-> c, ev |-> Reported(c)] :
                            c \in {d \in ready : Reported(d) # {}}}
        /\ UNCHANGED <<script, sock, phase, conn>>
    BY DEF EpollWait
  <1>2. ASSUME NEW c \in ready, "err" \in Reported(c)
        PROVE  sock[c].gone # "no"
    <2>0. c \in Client /\ conn[c] # NoConn /\ conn[c] \in ConnState \cup {NoConn}
      BY <1>0, <1>2 DEF KernelType, ObjectType, Identity
    <2>1. conn[c].applied_mask \in SUBSET {"in", "out"}
      BY <2>0, MemberTypes
    <2> QED
      BY <2>1, <1>2 DEF Reported
  <1>3. ASSUME NEW e \in batch'.events, "err" \in e.ev
        PROVE  sock[e.of].gone # "no"
    <2>1. PICK c \in ready : e = [fd |-> conn[c].fd, of |-> c, ev |-> Reported(c)]
      BY <1>1
    <2>2. e.of = c /\ e.ev = Reported(c)
      BY <2>1
    <2> QED
      BY <2>2, <1>2, <1>3
  <1>4. \A c \in Client : Dialogue(c)'
    BY <1>1, DialogueFrame DEF DialogueInv
  <1> QED
    BY <1>1, <1>3, <1>4 DEF DialogueInv

(* Every step preserves DialogueInv.                                       *)
LEMMA DialogueInvNext ==
  ASSUME Contract, LoopInv, AnswerInv, OverInv, DialogueInv, [Next]_vars
  PROVE  DialogueInv'
  <1>0. KernelType /\ PhaseType
    BY TypeParts DEF LoopInv
  <1>1. ASSUME UNCHANGED <<conn, sock, script, phase>>,
               batch'.events \subseteq batch.events
        PROVE  DialogueInv'
    BY <1>1, QuietDialogue
  <1>2. ASSUME NEW fds, Reap(fds)
        PROVE  \A c \in Client : phase'[c] \in {"new", "backlog"} =>
                 phase[c] \in {"new", "backlog"}
    BY <1>2 DEF Reap
  <1>3. CASE reap_finished
    <2>1. /\ UNCHANGED <<sock, script, batch>> /\ Reap(reap)
          /\ \A c \in Client : conn'[c] = conn[c] \/ conn'[c] = NoConn
      BY <1>3 DEF reap_finished
    <2> QED
      BY <2>1, <1>2, CloseDialogue
  <1>4. ASSUME close_all, UNCHANGED <<sock, script, batch>>
        PROVE  DialogueInv'
    <2>1. Reap(Fd) /\ \A c \in Client : conn'[c] = NoConn
      BY <1>4 DEF close_all
    <2> QED
      BY <2>1, <1>2, <1>4, CloseDialogue
  <1>5. CASE LeaveOnSecondSignal \/ BudgetExhausted
    BY <1>4, <1>5 DEF LeaveOnSecondSignal, BudgetExhausted, ForcedExit
  <1>6. CASE WorkersJoined \/ WorkersDetached
    BY <1>4, <1>6 DEF WorkersJoined, WorkersDetached, Joined
  <1>7. CASE Destroy
    <2>1. UNCHANGED <<conn, sock, script, batch>>
      BY <1>7 DEF Destroy
    <2>2. \A c \in Client : phase'[c] \in {"new", "backlog"} =>
            phase[c] \in {"new", "backlog"}
      BY <1>7 DEF Destroy
    <2> QED
      BY <2>1, <2>2, QuietDialogue
  <1>8. CASE drain_wake \/ handle_signals \/ ListenerEvent
    <2>1. /\ UNCHANGED <<conn, sock, script, phase>>
          /\ \E sp : batch' = [batch EXCEPT !.special = @ \ {sp}]
      BY <1>8 DEF drain_wake, handle_signals, ListenerEvent, kernelVars, netVars
    <2>2. batch'.events = batch.events
      BY <2>1, <1>0 DEF PhaseType
    <2> QED
      BY <2>1, <2>2, <1>1
  <1>9. CASE EpollWaitFails \/ SwapCompletions \/ SwapRescans
             \/ BeginTick \/ GoOn \/ LeaveQuietly
    <2>1. UNCHANGED <<conn, sock, script, phase, batch>>
      BY <1>9 DEF EpollWaitFails, SwapCompletions, SwapRescans, BeginTick, GoOn,
         LeaveQuietly, kernelVars, netVars
    <2> QED
      BY <2>1, <1>1
  <1>10. CASE OuterStep
    BY <1>3, <1>5, <1>8, <1>9, <1>10, EpollWaitDialogue, AcceptDialogue,
       DrainDialogue, TickDialogue DEF OuterStep
  <1>11. CASE LastStep
    <2>1. CASE StopPool \/ Exit
      <3>1. UNCHANGED <<conn, sock, script, phase, batch>>
        BY <2>1 DEF StopPool, Exit, kernelVars, netVars
      <3> QED
        BY <3>1, <1>1
    <2> QED
      BY <2>1, <1>6, <1>7, <1>11 DEF LastStep
  <1>12. ASSUME NEW w \in Worker, WorkerStep(w)
         PROVE  DialogueInv'
    <2>1. UNCHANGED <<conn, sock, script, phase, batch>>
      BY <1>12 DEF WorkerStep, WorkerTakes, post_completion, Wake, loopVars,
         kernelVars, netVars
    <2> QED
      BY <2>1, <1>1
  <1>13. CASE UNCHANGED vars
    <2>1. UNCHANGED <<conn, sock, script, phase, batch>>
      BY <1>13 DEF vars, loopVars, kernelVars, netVars
    <2> QED
      BY <2>1, <1>1
  <1> QED
    BY <1>10, <1>11, <1>12, <1>13, EnvDialogue, SettlingDialogue, NextCases

(* Streams are in order, and buffers within their bounds.                  *)
LEMMA DialogueGives ==
  ASSUME LoopInv, DialogueInv
  PROVE  ResponsesInOrder /\ BuffersBounded
  <1>1. ASSUME NEW c \in Client
        PROVE  InOrder(Stream(c), c)
    <2>1. CASE conn[c] = NoConn
      <3>1. sock[c].got \in Seq(Response) /\ sock[c].snd \in Seq(Response)
        BY TypeParts DEF LoopInv, KernelType, SockState
      <3>2. (sock[c].got \o sock[c].snd) \o <<>> = sock[c].got \o sock[c].snd
        BY SMT, <3>1
      <3> QED
        BY <2>1, <3>2 DEF Stream, DialogueInv, Dialogue
    <2>2. CASE conn[c] # NoConn
      <3>1. Stream(c) = Sent(Here(c))
        BY <2>2, HereIsSound DEF Stream, Sent
      <3> QED
        BY <2>2, <3>1 DEF DialogueInv, Dialogue, Orderly
    <2> QED
      BY <2>1, <2>2
  <1>2. ASSUME NEW c \in Client, conn[c] # NoConn
        PROVE  Len(conn[c].out) <= MaxOutput + 1 /\ InputBounded(conn[c])
    <2>1. /\ OutputBounded(conn[c]) /\ conn[c].out \in Seq(Response)
          /\ InputBounded(conn[c])
      BY <1>2, HereIsSound DEF DialogueInv, Dialogue, Tidy, ConnState, LoopInv,
         Bounded
    <2>2. Len(conn[c].out) \in Nat
      BY <2>1, SeqElements
    <2>3. Len(conn[c].out) <= MaxOutput + 1
      BY SMT, <2>1, <2>2, ConnectionAssumption DEF OutputBounded
    <2> QED
      BY <2>1, <2>3
  <1> QED
    BY <1>1, <1>2 DEF ResponsesInOrder, BuffersBounded, InputBounded

-----------------------------------------------------------------------------
(* When connections are closed.                                            *)

(* run() has left its loop with no connection, unless epoll_wait() failed. *)
GoneInv == pc \in {"stop", "join", "tryjoin"} => \A c \in Client : conn[c] = NoConn

LEMMA GoneInvNext ==
  ASSUME LoopInv, "wait" \notin Faults, GoneInv, [Next]_vars
  PROVE  GoneInv'
  <1>0. PhaseType
    BY TypeParts DEF LoopInv
  <1>1. CASE UNCHANGED <<pc, conn>>
    BY <1>1 DEF GoneInv
  <1>2. CASE pc' \notin {"stop", "join", "tryjoin"}
    BY <1>2 DEF GoneInv
  <1>3. CASE LeaveQuietly
    <2>1. Owned = {} /\ conn' = conn
      BY <1>3 DEF LeaveQuietly, Quiet
    <2> QED
      BY <2>1, OwnedFacts DEF GoneInv
  <1>4. CASE LeaveOnSecondSignal \/ BudgetExhausted
    BY <1>4 DEF LeaveOnSecondSignal, BudgetExhausted, ForcedExit, close_all, GoneInv
  <1>5. CASE StopPool
    BY <1>5 DEF StopPool, GoneInv
  <1>6. \/ UNCHANGED <<pc, conn>> \/ pc' \notin {"stop", "join", "tryjoin"}
        \/ LeaveQuietly \/ LeaveOnSecondSignal \/ BudgetExhausted \/ StopPool
    <2>1. CASE EnvStep \/ UNCHANGED vars
      BY <2>1, EnvFrame DEF vars, loopVars
    <2>2. CASE SettlingStep
      BY <2>2, SettlingFrame
    <2>3. CASE OuterStep
      <3>1. CASE drain_wake \/ handle_signals
        BY <3>1 DEF drain_wake, handle_signals
      <3>2. CASE EpollWait \/ EpollWaitFails \/ ListenerEvent \/ SwapRescans
                 \/ SwapCompletions
        BY <3>2 DEF EpollWait, EpollWaitFails, ListenerEvent, SwapRescans,
           SwapCompletions
      <3>3. CASE reap_finished \/ maybe_begin_drain \/ BeginTick \/ tick \/ GoOn
        BY <3>3 DEF reap_finished, maybe_begin_drain, BeginTick, tick, GoOn
      <3>4. CASE accept_batch
        <4>1. accepting.back \in {"events", "tick"}
          BY <1>0 DEF PhaseType
        <4>2. pc' = "accept" \/ pc' = accepting.back
          BY <3>4 DEF accept_batch, AcceptDrained, AcceptNoDescriptor,
             AcceptBatchFull, AcceptError, AcceptAborted, reject_connection,
             AddFails, Admit, LeaveAccept, Dismiss, Accepting
        <4> QED
          BY <4>1, <4>2
      <3> QED
        BY <2>3, <3>1, <3>2, <3>3, <3>4 DEF OuterStep
    <2>4. CASE LastStep
      BY <2>4 DEF LastStep, WorkersJoined, WorkersDetached, Joined, Destroy, Exit
    <2>5. ASSUME NEW w \in Worker, WorkerStep(w)
          PROVE  UNCHANGED <<pc, conn>>
      BY <2>5 DEF WorkerStep, WorkerTakes, post_completion, Wake, loopVars
    <2> QED
      BY <2>1, <2>2, <2>3, <2>4, <2>5, NextCases
  <1> QED
    BY <1>1, <1>2, <1>3, <1>4, <1>5, <1>6

(* A finished connection that lives has its answers in the kernel.         *)
Answered(s, n) == FinalsTo(s.got \o s.snd, Len(s.got \o s.snd)) >= n - 1

LEMMA FinishedAnswers ==
  ASSUME Contract, NEW k \in K, NEW id, Orderly(k, id), k.c.alive, finished(k.c)
  PROVE  Answered(k.s, k.c.next_seq)
  <1>1. /\ k.s.got \in Seq(Response) /\ k.s.snd \in Seq(Response)
        /\ k.c.out = <<>> /\ ~k.c.in_flight /\ k.c.next_seq \in Nat
    BY ParcelTypes DEF SockState, ConnState, finished
  <1>2. PICK sent : sent = k.s.got \o k.s.snd
    OBVIOUS
  <1>3. sent \in Seq(Response) /\ Sent(k) = sent \o <<>>
    BY SMT, <1>1, <1>2 DEF Sent
  <1>4. sent \o <<>> = sent /\ Len(sent) \in Nat
    BY SMT, <1>3
  <1>5. Numbered(k.c, sent)
    BY <1>3, <1>4 DEF Orderly
  <1>6. FinalsTo(sent, Len(sent)) \in Nat
    BY <1>3 DEF Contract, CountContract
  <1>7. FinalsTo(sent, Len(sent)) >= k.c.next_seq - 1
    BY SMT, <1>1, <1>5, <1>6 DEF Numbered
  <1> QED
    BY <1>2, <1>7 DEF Answered

(* A connection that is closed has answered, unless its peer is dead or    *)
(* stalls at a tick.                                                       *)
LEMMA ReapIsClean ==
  ASSUME Contract, LoopInv, DialogueInv, reap_finished, NEW c \in Client,
         conn[c] # NoConn, conn'[c] = NoConn
  PROVE  sock[c].gone # "no" \/ Answered(sock'[c], conn[c].next_seq)
  <1>1. /\ sock' = sock
        /\ conn'[c] = IF Survives(c, reap) THEN conn[c] ELSE NoConn
    BY DEF reap_finished
  <1>2. reap \in SUBSET Fd /\ ReapOK
    BY TypeParts DEF LoopInv, ObjectType
  <1>3. finished(conn[c])
    BY <1>1, <1>2, OwnedFacts DEF ReapOK
  <1>4. /\ Here(c) \in K /\ Here(c).c = conn[c] /\ Here(c).s = sock[c]
        /\ Orderly(Here(c), c) /\ (conn[c].alive \/ sock[c].gone # "no")
    BY HereIsSound DEF Sound, DialogueInv, Dialogue
  <1>5. CASE ~conn[c].alive
    BY <1>4, <1>5
  <1>6. CASE conn[c].alive
    BY <1>1, <1>3, <1>4, <1>6, FinishedAnswers
  <1> QED
    BY <1>5, <1>6

LEMMA TickIsClean ==
  ASSUME Contract, LoopInv, OverInv, DialogueInv, tick, NEW c \in Client,
         conn[c] # NoConn, conn'[c] = NoConn
  PROVE  \/ sock[c].gone # "no" \/ conn[c].out # <<>>
         \/ Answered(sock'[c], conn[c].next_seq)
  <1>1. PICK idle \in BOOLEAN : Ticked(c, on_tick(Here(c), idle))
    BY TickCases
  <1>2. PICK m : m = on_tick(Here(c), idle)
    OBVIOUS
  <1>3. /\ Sound(Here(c)) /\ Here(c) \in K /\ Here(c).c = conn[c]
        /\ Here(c).s = sock[c] /\ Orderly(Here(c), c)
        /\ (conn[c].alive \/ sock[c].gone # "no")
    BY HereIsSound DEF Sound, DialogueInv, Dialogue
  <1>4. finished(conn[c]) => conn[c].draining
    BY TickMeets DEF tick
  <1>5. TickContract
    BY DEF Contract
  <1>6. /\ Sound(m) /\ m.c.next_seq = conn[c].next_seq
        /\ finished(conn[c]) /\ conn[c].draining => finished(m.c)
    BY <1>2, <1>3, <1>5 DEF TickContract
  <1>7. Orderly(m, c)
    BY <1>2, <1>3, <1>4, <1>5 DEF TickContract
  <1>8. conn[c].alive /\ ~m.c.alive => sock[c].gone # "no" \/ conn[c].out # <<>>
    BY <1>2, <1>3, <1>5 DEF TickContract
  <1>9. sock'[c] = m.s /\ finished(m.c) /\ m \in K
    <2>1. m.c # NoConn
      BY <1>6, ParcelTypes, LoopAssumption DEF Sound
    <2> QED
      BY <2>1, <1>1, <1>2, <1>4, <1>6 DEF Ticked, Sound
  <1>10. CASE ~m.c.alive
    BY <1>3, <1>8, <1>10
  <1>11. CASE m.c.alive
    BY <1>6, <1>7, <1>9, <1>11, FinishedAnswers
  <1> QED
    BY <1>10, <1>11

(* Every step closes only like that.  (A connection is open, in the        *)
(* kernel's terms, for as long as it exists.)                              *)
LEMMA ClosesCleanly ==
  ASSUME Contract, LoopInv, LoopInv', OverInv, DialogueInv, GoneInv, [Next]_vars,
         NEW c \in Client, conn[c] # NoConn, conn'[c] = NoConn
  PROVE  \/ sock[c].gone # "no" \/ forced'
         \/ pc = "tick" /\ conn[c].out # <<>>
         \/ Answers(c)' >= conn[c].next_seq - 1
  <1>0. Identity /\ ObjectType
    BY TypeParts DEF LoopInv
  <1>1. phase[c] = "open" /\ phase'[c] # "open"
    BY <1>0 DEF Identity, LoopInv
  <1>2. Answered(sock'[c], conn[c].next_seq) => Answers(c)' >= conn[c].next_seq - 1
    BY DEF Answered, Answers
  <1>3. CASE reap_finished
    BY <1>2, <1>3, ReapIsClean
  <1>4. CASE tick
    BY <1>2, <1>4, TickIsClean DEF tick
  <1>5. CASE LeaveOnSecondSignal \/ BudgetExhausted
    BY <1>5 DEF LeaveOnSecondSignal, BudgetExhausted, ForcedExit
  <1>6. CASE WorkersJoined \/ WorkersDetached
    BY <1>6 DEF WorkersJoined, WorkersDetached, GoneInv
  <1>7. CASE accept_batch
    <2>1. CASE \E fd \in Fd : Admit(fd)
      <3>1. PICK fd \in Fd : conn' = [conn EXCEPT ![Head(backlog)] = NewConn(fd)]
        BY <2>1 DEF Admit
      <3>2. conn'[c] = conn[c] \/ conn'[c] = NewConn(fd)
        BY <3>1, <1>0 DEF ObjectType
      <3> QED
        BY <3>2, NewConnFacts, LoopAssumption
    <2>2. CASE conn' = conn
      BY <2>2
    <2> QED
      BY <2>1, <2>2, <1>7 DEF accept_batch, AcceptDrained, AcceptNoDescriptor,
         AcceptBatchFull, AcceptError, AcceptAborted, reject_connection, AddFails,
         LeaveAccept, Dismiss
  <1>8. CASE conn' = conn \/ phase' = phase
    BY <1>1, <1>8
  <1>9. \/ reap_finished \/ tick \/ LeaveOnSecondSignal \/ BudgetExhausted
        \/ WorkersJoined \/ WorkersDetached \/ accept_batch
        \/ conn' = conn \/ phase' = phase
    <2>1. CASE EnvStep \/ UNCHANGED vars
      BY <2>1, EnvFrame DEF vars, loopVars
    <2>2. CASE SettlingStep
      BY <2>2, SettlingFrame DEF netVars
    <2>3. CASE OuterStep
      <3>1. CASE EpollWait \/ EpollWaitFails \/ drain_wake \/ handle_signals
                 \/ ListenerEvent \/ SwapRescans \/ SwapCompletions
        BY <3>1 DEF EpollWait, EpollWaitFails, drain_wake, handle_signals,
           ListenerEvent, SwapRescans, SwapCompletions
      <3>2. CASE maybe_begin_drain \/ BeginTick \/ GoOn \/ LeaveQuietly
        BY <3>2 DEF maybe_begin_drain, BeginTick, GoOn, LeaveQuietly, kernelVars,
           netVars
      <3> QED
        BY <2>3, <3>1, <3>2 DEF OuterStep
    <2>4. CASE LastStep
      BY <2>4 DEF LastStep, StopPool, Destroy, Exit
    <2>5. ASSUME NEW w \in Worker, WorkerStep(w)
          PROVE  conn' = conn
      BY <2>5 DEF WorkerStep, WorkerTakes, post_completion, Wake, loopVars
    <2> QED
      BY <2>1, <2>2, <2>3, <2>4, <2>5, NextCases
  <1> QED
    BY <1>3, <1>4, <1>5, <1>6, <1>7, <1>8, <1>9
=============================================================================
