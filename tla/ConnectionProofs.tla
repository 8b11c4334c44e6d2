-------------------------- MODULE ConnectionProofs --------------------------
(***************************************************************************)
(* Connection keeps its contract, whatever the limits, buffers and         *)
(* segments: every method preserves the types of the members, the bound on *)
(* the input, the bound of the socket's buffer, the descriptor, the drain  *)
(* flag and the mask, and a finished connection stays finished; responses  *)
(* stay in order and bounded, and what can be read or written has been.    *)
(***************************************************************************)
EXTENDS ConnectionContract, FiniteSetTheorems, SequenceTheorems,
        WellFoundedInduction, TLAPS

(* The leaves are Zenon's; those that need arithmetic or sequences are     *)
(* SMT's, and say so.                                                      *)
USE Zenon

-----------------------------------------------------------------------------
(* The types of a Connection's members, one by one.                        *)
LEMMA ConnFields ==
  ASSUME NEW c \in ConnState
  PROVE  /\ c.fd \in Fd /\ c.alive \in BOOLEAN /\ c.close_after \in BOOLEAN
         /\ c.draining \in BOOLEAN /\ c.peer_eof \in BOOLEAN
         /\ c.in_flight \in BOOLEAN /\ c.inflight_seq \in Nat
         /\ c.next_seq \in Nat /\ c.last_head \in BOOLEAN
         /\ c.in \in Seq(Segment) /\ c.consumed \in Nat
         /\ c.out \in Seq(Response) /\ c.applied_mask \in SUBSET {"in", "out"}
         /\ Len(c.in) \in Nat /\ Len(c.out) \in Nat
  BY LenProperties DEF ConnState

(* The same for the connection, its socket and the job it hands over.      *)
LEMMA KFields ==
  ASSUME NEW k \in K
  PROVE  /\ k.c \in ConnState /\ k.s \in SockState /\ k.job \in Job \cup {NoJob}
         /\ k.s.rcv \in Seq(Segment) /\ k.s.snd \in Seq(Response)
         /\ k.s.got \in Seq(Response) /\ k.s.fin \in BOOLEAN
         /\ Len(k.s.rcv) \in Nat /\ Len(k.s.snd) \in Nat
  BY LenProperties DEF K, SockState

-----------------------------------------------------------------------------
(* Sequences of responses.                                                 *)

(* A sequence cut in two and joined again behind another.                  *)
LEMMA CutJoins ==
  ASSUME NEW S, NEW s \in Seq(S), NEW t \in Seq(S), NEW n \in 0..Len(t)
  PROVE  (s \o SubSeq(t, 1, n)) \o SubSeq(t, n + 1, Len(t)) = s \o t
  <1>1. Len(t) \in Nat
    BY LenProperties
  <1>2. /\ 1 \in 1..(Len(t) + 1) /\ n \in (1 - 1)..Len(t)
        /\ Len(t) \in n..Len(t) /\ n \in Nat /\ n <= Len(t)
    BY SMT, <1>1
  <1>3. SubSeq(t, 1, n) \o SubSeq(t, n + 1, Len(t)) = SubSeq(t, 1, Len(t))
    BY <1>2, ConcatAdjacentSubSeq
  <1>4. SubSeq(t, 1, n) \in Seq(S) /\ SubSeq(t, n + 1, Len(t)) \in Seq(S)
    BY SMT, <1>1, <1>2, SubSeqProperties, ElementOfSeq
  <1>5. \A a, b \in Seq(S) : (s \o a) \o b = s \o (a \o b)
    BY SMTT(30), ConcatAssociative
  <1>6. SubSeq(t, 1, Len(t)) = t
    BY SubSeqFull
  <1> DEFINE a == SubSeq(t, 1, n)
             b == SubSeq(t, n + 1, Len(t))
  <1>7. (s \o a) \o b = s \o (a \o b) /\ a \o b = t
    BY <1>3, <1>4, <1>5, <1>6
  <1> HIDE DEF a, b
  <1>8. (s \o a) \o b = s \o t
    BY <1>7
  <1> QED
    BY <1>8 DEF a, b

(* A longer sequence begins with the shorter.                              *)
LEMMA JoinFacts ==
  ASSUME NEW S, NEW s \in Seq(S), NEW t \in Seq(S)
  PROVE  /\ s \o t \in Seq(S) /\ Len(s) \in Nat /\ Len(t) \in Nat
         /\ Len(s \o t) = Len(s) + Len(t) /\ Len(s) <= Len(s \o t)
         /\ \A i \in 1..Len(s) : (s \o t)[i] = s[i]
         /\ \A i \in 1..Len(t) : (s \o t)[Len(s) + i] = t[i]
  BY SMTT(30), ConcatProperties, LenProperties

(* Appending at the end of the second of two.                              *)
LEMMA AppendJoins ==
  ASSUME NEW S, NEW s \in Seq(S), NEW t \in Seq(S), NEW x \in S
  PROVE  /\ s \o Append(t, x) = Append(s \o t, x)
         /\ Append(t, x) \in Seq(S) /\ Len(Append(t, x)) = Len(t) + 1
  <1>1. s \o t \in Seq(S) /\ <<x>> \in Seq(S)
    BY SMT, ConcatProperties
  <1>2. (s \o t) \o <<x>> = s \o (t \o <<x>>)
    BY SMTT(30), <1>1, ConcatAssociative
  <1>3. Append(t, x) = t \o <<x>>
    BY SMTT(30), AppendIsConcat
  <1>4. Append(s \o t, x) = (s \o t) \o <<x>>
    <2> DEFINE u == s \o t
    <2>1. u \in Seq(S)
      BY <1>1
    <2> HIDE DEF u
    <2>2. Append(u, x) = u \o <<x>>
      BY SMTT(30), <2>1, AppendIsConcat
    <2> QED
      BY <2>2 DEF u
  <1>5. Append(t, x) \in Seq(S) /\ Len(Append(t, x)) = Len(t) + 1
    BY SMTT(30), AppendProperties
  <1> QED
    BY <1>2, <1>3, <1>4, <1>5

(* What counts as answered is finite.                                      *)
LEMMA FinalsType ==
  ASSUME NEW all, NEW n \in Nat
  PROVE  /\ IsFiniteSet({i \in 1..n : Final(all[i])})
         /\ FinalsTo(all, n) \in Nat
  <1>1. IsFiniteSet(1..n)
    BY SMT, FS_Interval
  <1>2. IsFiniteSet({i \in 1..n : Final(all[i])})
    BY <1>1, FS_Subset
  <1> QED
    BY <1>2, FS_CardinalityType DEF FinalsTo

(* It depends on the responses up to there only.                           *)
LEMMA FinalsAgree ==
  ASSUME NEW all, NEW more, NEW n \in Nat, \A i \in 1..n : more[i] = all[i]
  PROVE  FinalsTo(more, n) = FinalsTo(all, n)
  <1>1. {i \in 1..n : Final(more[i])} = {i \in 1..n : Final(all[i])}
    BY DEF Final
  <1> QED
    BY <1>1 DEF FinalsTo

(* One more response.                                                      *)
LEMMA FinalsNext ==
  ASSUME NEW all, NEW n \in Nat
  PROVE  FinalsTo(all, n + 1)
           = FinalsTo(all, n) + (IF Final(all[n + 1]) THEN 1 ELSE 0)
  <1> DEFINE S == {i \in 1..n : Final(all[i])}
             T == {i \in 1..(n + 1) : Final(all[i])}
  <1>1. IsFiniteSet(S) /\ Cardinality(S) \in Nat
    BY FinalsType DEF FinalsTo
  <1>2. n + 1 \notin 1..n /\ 1..(n + 1) = (1..n) \cup {n + 1}
    BY SMT
  <1>3. T = IF Final(all[n + 1]) THEN S \cup {n + 1} ELSE S
    BY <1>2
  <1>4. Cardinality(S \cup {n + 1}) = Cardinality(S) + 1
    BY <1>1, <1>2, FS_AddElement
  <1> HIDE DEF S, T
  <1>5. Cardinality(T) = Cardinality(S) + (IF Final(all[n + 1]) THEN 1 ELSE 0)
    BY SMT, <1>1, <1>3, <1>4
  <1> QED
    BY <1>5 DEF FinalsTo, S, T

(* all is the beginning of more.                                           *)
Begins(all, more) == /\ all \in Seq(Response) /\ more \in Seq(Response)
                     /\ Len(all) <= Len(more)
                     /\ \A i \in 1..Len(all) : more[i] = all[i]

(* The beginning of an orderly stream is orderly.                          *)
LEMMA InOrderBegins ==
  ASSUME NEW all, NEW more, Begins(all, more), NEW id, InOrder(more, id)
  PROVE  InOrder(all, id)
  <1>0. /\ Len(all) \in Nat /\ Len(more) \in Nat /\ Len(all) <= Len(more)
        /\ \A i \in 1..Len(all) : more[i] = all[i]
    BY LenProperties DEF Begins
  <1>1. ASSUME NEW i \in 1..Len(all)
        PROVE  /\ i \in 1..Len(more) /\ i \in Nat
               /\ FinalsTo(more, i) = FinalsTo(all, i)
    <2>1. i \in Nat /\ i \in 1..Len(more) /\ \A j \in 1..i : j \in 1..Len(all)
      BY SMT, <1>0
    <2>2. \A j \in 1..i : more[j] = all[j]
      BY <2>1, <1>0
    <2> QED
      BY <2>1, <2>2, FinalsAgree
  <1>2. \A i \in 1..(Len(all) - 1) : i \in 1..(Len(more) - 1) /\ i \in 1..Len(all)
    BY SMT, <1>0
  <1> QED
    BY <1>0, <1>1, <1>2 DEF InOrder

(* No response closes the connection.                                      *)
NoneCloses(all) == \A i \in 1..Len(all) : ~all[i].close

(* An orderly stream and the next answer.                                  *)
LEMMA InOrderAppend ==
  ASSUME NEW all \in Seq(Response), NEW r \in Response, NEW id,
         InOrder(all, id), NoneCloses(all), Final(r),
         r.of # NoJob => /\ r.of.conn = id
                         /\ r.of.seq = FinalsTo(all, Len(all)) + 1
  PROVE  LET more == Append(all, r)
         IN  /\ InOrder(more, id)
             /\ FinalsTo(more, Len(more)) = FinalsTo(all, Len(all)) + 1
             /\ ~r.close => NoneCloses(more)
  <1> DEFINE more == Append(all, r)
             n == Len(all)
  <1>0. /\ n \in Nat /\ more \in Seq(Response) /\ Len(more) = n + 1
        /\ (\A i \in 1..n : more[i] = all[i]) /\ more[n + 1] = r
    BY SMTT(30), LenProperties, AppendProperties
  <1> HIDE DEF more
  <1>1. FinalsTo(more, n) = FinalsTo(all, n)
    BY <1>0, FinalsAgree
  <1>2. FinalsTo(more, n + 1) = FinalsTo(all, n) + 1
    <2>1. Final(more[n + 1])
      BY <1>0
    <2>2. FinalsTo(more, n + 1)
            = FinalsTo(more, n) + (IF Final(more[n + 1]) THEN 1 ELSE 0)
      BY <1>0, FinalsNext
    <2> QED
      BY <2>1, <2>2, <1>1
  <1>3. \A i \in 1..(n + 1) : i \in 1..n \/ i = n + 1
    BY SMT, <1>0
  <1>4. ASSUME NEW i \in 1..n
        PROVE  FinalsTo(more, i) = FinalsTo(all, i)
    <2>1. i \in Nat /\ \A j \in 1..i : j \in 1..n
      BY SMT, <1>0
    <2>2. \A j \in 1..i : more[j] = all[j]
      BY <2>1, <1>0
    <2> QED
      BY <2>1, <2>2, FinalsAgree
  <1>5. \A i \in 1..(n + 1) : more[i].of # NoJob =>
          more[i].of.conn = id /\ more[i].of.seq = FinalsTo(more, i)
    BY <1>0, <1>2, <1>3, <1>4 DEF InOrder
  <1>6. 1..(Len(more) - 1) = 1..n
    BY SMT, <1>0
  <1>7. \A i \in 1..n : ~more[i].close
    BY <1>0 DEF NoneCloses
  <1>8. InOrder(more, id)
    BY <1>0, <1>5, <1>6, <1>7 DEF InOrder
  <1>9. ~r.close => NoneCloses(more)
    BY <1>0, <1>3, <1>7 DEF NoneCloses
  <1> QED
    BY <1>0, <1>2, <1>8, <1>9 DEF more

(* An orderly stream and any number of interim responses.                  *)
LEMMA InOrderInterim ==
  ASSUME NEW all \in Seq(Response), NEW n \in Nat, NEW id,
         InOrder(all, id), NoneCloses(all)
  PROVE  LET more == all \o [i \in 1..n |-> Continue]
         IN  /\ InOrder(more, id)
             /\ FinalsTo(more, Len(more)) = FinalsTo(all, Len(all))
             /\ NoneCloses(more)
  <1> DEFINE new == [i \in 1..n |-> Continue]
             more == all \o new
             l == Len(all)
  <1>1. Continue \in Response /\ ~Final(Continue) /\ ~Continue.close
        /\ Continue.of = NoJob
    BY DEF Continue, Response, Final
  <1>2. new \in Seq(Response) /\ Len(new) = n /\ \A i \in 1..n : new[i] = Continue
    BY SMT, <1>1
  <1>3. l \in Nat
    BY LenProperties
  <1> HIDE DEF new
  <1>4. /\ more \in Seq(Response) /\ Len(more) = l + n
        /\ \A i \in 1..(l + n) : more[i] = IF i <= l THEN all[i] ELSE new[i - l]
    BY <1>2, ConcatProperties
  <1> HIDE DEF more, l
  <1>5. \A i \in 1..(l + n) : i \in 1..l \/ (~(i <= l) /\ i - l \in 1..n)
    BY SMT, <1>2, <1>3
  <1>6. \A i \in 1..l : i \in 1..(l + n) /\ i <= l
    BY SMT, <1>2, <1>3
  <1>7. /\ \A i \in 1..l : more[i] = all[i]
        /\ \A i \in 1..(l + n) : i \in 1..l \/ more[i] = Continue
    BY <1>2, <1>4, <1>5, <1>6
  <1>8. ASSUME NEW i \in 1..l
        PROVE  FinalsTo(more, i) = FinalsTo(all, i)
    <2>1. i \in Nat /\ \A j \in 1..i : j \in 1..l
      BY SMT, <1>3
    <2>2. \A j \in 1..i : more[j] = all[j]
      BY <2>1, <1>7
    <2> QED
      BY <2>1, <2>2, FinalsAgree
  <1>9. NoneCloses(more)
    BY <1>1, <1>4, <1>7 DEF NoneCloses, l
  <1>10. \A i \in 1..(Len(more) - 1) : i \in 1..Len(more)
    BY SMT, <1>2, <1>3, <1>4
  <1>11. InOrder(more, id)
    BY <1>1, <1>4, <1>7, <1>8, <1>9, <1>10 DEF InOrder, NoneCloses, l
  <1>12. {i \in 1..(l + n) : Final(more[i])} = {i \in 1..l : Final(all[i])}
    BY <1>1, <1>6, <1>7
  <1>13. FinalsTo(more, Len(more)) = FinalsTo(all, Len(all))
    BY <1>4, <1>12 DEF FinalsTo, l
  <1> QED
    BY <1>9, <1>11, <1>13 DEF more, new

-----------------------------------------------------------------------------
(* The steps the methods are made of, for what a client reads.             *)

(* Tidy, with room for one more answer.                                    *)
Neat(k, unsent) == /\ Len(k.c.out) <= MaxOutput
                   /\ k.c.alive => OneExpect(k.c.in \o k.s.rcv \o unsent)

(* Serves, but for Tidy.                                                   *)
Orders(k, m, id) == /\ Proceeds(k, m)
                    /\ Orderly(k, id) => Orderly(m, id)
                    /\ k.c.alive /\ ~m.c.alive => k.s.gone # "no"

LEMMA OrdersTransitive ==
  ASSUME NEW k, NEW l, NEW m, NEW id, Orders(k, l, id), Orders(l, m, id)
  PROVE  Orders(k, m, id)
  BY DEF Orders, Proceeds

LEMMA ServesParts ==
  ASSUME NEW k, NEW m, NEW id, Orders(k, m, id),
         \A unsent \in Seq(Segment) : Tidy(k, unsent) => Tidy(m, unsent)
  PROVE  Serves(k, m, id)
  BY DEF Orders, Serves

LEMMA NeatIsTidy ==
  ASSUME NEW k \in K, NEW unsent, Neat(k, unsent)
  PROVE  Tidy(k, unsent)
  BY SMT, KFields, ConnFields, ConnectionAssumption DEF Neat, Tidy, OutputBounded

LEMMA TidyInFlight ==
  ASSUME NEW k \in K, NEW unsent, Tidy(k, unsent), k.c.in_flight
  PROVE  Neat(k, unsent)
  BY SMT, KFields, ConnFields, ConnectionAssumption DEF Neat, Tidy, OutputBounded

LEMMA SentType ==
  ASSUME NEW k \in K
  PROVE  Sent(k) \in Seq(Response) /\ Len(Sent(k)) \in Nat
  <1>1. /\ k.s.got \in Seq(Response) /\ k.s.snd \in Seq(Response)
        /\ k.c.out \in Seq(Response)
    BY KFields, ConnFields
  <1>2. k.s.got \o k.s.snd \in Seq(Response)
    BY <1>1, ConcatProperties
  <1>3. Sent(k) \in Seq(Response)
    <2> DEFINE a == k.s.got \o k.s.snd
    <2> HIDE DEF a
    <2>1. a \in Seq(Response)
      BY <1>2 DEF a
    <2>2. a \o k.c.out \in Seq(Response)
      BY <2>1, <1>1, ConcatProperties
    <2> QED
      BY <2>2 DEF Sent, a
  <1> QED
    BY <1>3, LenProperties

(* Output may move to the socket, input into in_; flags may rise.          *)
Moves(c, d) == /\ d.next_seq = c.next_seq /\ d.in_flight = c.in_flight
               /\ d.inflight_seq = c.inflight_seq /\ d.alive = c.alive
               /\ c.close_after => d.close_after
               /\ c.peer_eof => d.peer_eof
               /\ Len(d.out) <= Len(c.out)
SamePeer(s, t) == t.fin = s.fin /\ t.gone = s.gone
Unheard(k, m) == /\ k \in K /\ m \in K
                 /\ Moves(k.c, m.c) /\ SamePeer(k.s, m.s) /\ Sent(m) = Sent(k)
                 /\ m.c.in \o m.s.rcv = k.c.in \o k.s.rcv

LEMMA UnheardFacts ==
  ASSUME NEW k, NEW m, Unheard(k, m)
  PROVE  /\ \A id : Orders(k, m, id)
         /\ \A unsent : /\ Tidy(k, unsent) => Tidy(m, unsent)
                        /\ Neat(k, unsent) => Neat(m, unsent)
  <1>1. ASSUME NEW id PROVE Orders(k, m, id)
    <2>1. Numbered(k.c, Sent(k)) => Numbered(m.c, Sent(m))
      <3>1. /\ m.c.next_seq = k.c.next_seq /\ m.c.in_flight = k.c.in_flight
            /\ m.c.inflight_seq = k.c.inflight_seq /\ Sent(m) = Sent(k)
            /\ k.c.close_after => m.c.close_after
        BY DEF Unheard, Moves
      <3> QED
        BY <3>1 DEF Numbered
    <2>2. Orderly(k, id) => Orderly(m, id)
      BY <2>1 DEF Orderly, Unheard, Moves
    <2> QED
      BY <2>2 DEF Orders, Proceeds, Unheard, Moves, SamePeer
  <1>2. ASSUME NEW unsent
        PROVE  /\ Tidy(k, unsent) => Tidy(m, unsent)
               /\ Neat(k, unsent) => Neat(m, unsent)
    <2>1. /\ Len(m.c.out) \in Nat /\ Len(k.c.out) \in Nat
          /\ Len(m.c.out) <= Len(k.c.out) /\ m.c.in_flight = k.c.in_flight
          /\ m.c.alive = k.c.alive
      BY KFields, ConnFields DEF Unheard, Moves
    <2>2. OutputBounded(k.c) => OutputBounded(m.c)
      BY SMT, <2>1, ConnectionAssumption DEF OutputBounded
    <2>3. Len(k.c.out) <= MaxOutput => Len(m.c.out) <= MaxOutput
      BY SMT, <2>1, ConnectionAssumption
    <2> QED
      BY <2>1, <2>2, <2>3 DEF Tidy, Neat, Unheard
  <1> QED
    BY <1>1, <1>2

(* Orderly stays orderly, and tidy tidy.                                   *)
Smooth(k, m) == /\ \A id : Orders(k, m, id)
                /\ \A unsent : /\ Tidy(k, unsent) => Tidy(m, unsent)
                               /\ Neat(k, unsent) => Neat(m, unsent)

LEMMA UnheardIsSmooth ==
  ASSUME NEW k, NEW m, Unheard(k, m)
  PROVE  Smooth(k, m)
  BY UnheardFacts DEF Smooth

LEMMA SmoothTransitive ==
  ASSUME NEW k, NEW l, NEW m, Smooth(k, l), Smooth(l, m)
  PROVE  Smooth(k, m)
  BY OrdersTransitive DEF Smooth

LEMMA SmoothServes ==
  ASSUME NEW k, NEW m, Smooth(k, m), NEW id
  PROVE  Serves(k, m, id)
  BY ServesParts DEF Smooth

(* The connection dies with its output.                                    *)
Killed(k, m) == /\ k \in K /\ m \in K /\ m.s = k.s
                /\ ~m.c.alive /\ m.c.out = <<>>

LEMMA KilledFacts ==
  ASSUME NEW k, NEW m, Killed(k, m)
  PROVE  /\ \A id : Orderly(k, id) => Orderly(m, id)
         /\ Proceeds(k, m)
         /\ \A id : k.s.gone # "no" => Orders(k, m, id)
         /\ \A unsent : Tidy(m, unsent) /\ Neat(m, unsent)
  <1>0. /\ k \in K /\ m \in K /\ m.s = k.s /\ ~m.c.alive /\ m.c.out = <<>>
    BY DEF Killed
  <1>1. Begins(Sent(m), Sent(k))
    <2> DEFINE a == k.s.got \o k.s.snd
    <2>1. a \in Seq(Response) /\ k.c.out \in Seq(Response)
      BY KFields, ConnFields, ConcatProperties, <1>0
    <2>2. Sent(m) = a \o <<>> /\ Sent(k) = a \o k.c.out
      BY <1>0 DEF Sent
    <2> HIDE DEF a
    <2>3. Sent(m) = a
      BY <2>1, <2>2, ConcatEmptySeq
    <2>4. /\ Sent(k) \in Seq(Response) /\ Len(a) <= Len(Sent(k))
          /\ \A i \in 1..Len(a) : Sent(k)[i] = a[i]
      BY SMTT(30), <2>1, <2>2, JoinFacts
    <2> QED
      BY <2>1, <2>3, <2>4 DEF Begins
  <1>2. \A id : Orderly(k, id) => Orderly(m, id)
    BY <1>0, <1>1, InOrderBegins DEF Orderly
  <1>3. Proceeds(k, m)
    BY <1>0 DEF Proceeds
  <1>4. Len(m.c.out) = 0
    BY SMT, <1>0
  <1>5. Len(m.c.out) <= MaxOutput
    BY SMT, <1>4, ConnectionAssumption
  <1>6. \A unsent : Neat(m, unsent)
    BY <1>0, <1>5 DEF Neat
  <1> QED
    BY <1>0, <1>2, <1>3, <1>6, NeatIsTidy DEF Orders

(* One more answer: to the request in flight, or one that closes.          *)
Replies(k, m, r) ==
  /\ k \in K /\ m \in K /\ r \in Response
  /\ k.c.alive /\ m.c.alive /\ ~m.c.in_flight /\ m.c.next_seq = k.c.next_seq
  /\ k.c.close_after \/ r.close \/ ~k.c.in_flight => m.c.close_after
  /\ m.c.peer_eof = k.c.peer_eof /\ m.c.in = k.c.in
  /\ m.c.out = Append(k.c.out, r) /\ m.s = k.s /\ Final(r)

(* It is due: of all requests, only the one in flight is answered.         *)
Due(k, r, id) == /\ k.c.in_flight \/ ~k.c.close_after
                 /\ r.of # NoJob => /\ k.c.in_flight /\ r.of.conn = id
                                    /\ r.of.seq = k.c.inflight_seq

LEMMA AnswerFacts ==
  ASSUME NEW k, NEW m, NEW r, Replies(k, m, r)
  PROVE  /\ \A id : Due(k, r, id) => Orders(k, m, id)
         /\ Proceeds(k, m)
         /\ \A unsent : Neat(k, unsent) => Tidy(m, unsent)
  <1> DEFINE all == Sent(k)
             more == Sent(m)
             n == FinalsTo(all, Len(all))
  <1>0. /\ k \in K /\ m \in K /\ r \in Response /\ m.s = k.s
        /\ m.c.out = Append(k.c.out, r) /\ k.c.alive /\ m.c.alive
        /\ ~m.c.in_flight /\ m.c.next_seq = k.c.next_seq /\ Final(r)
        /\ k.c.close_after \/ r.close \/ ~k.c.in_flight => m.c.close_after
    BY DEF Replies
  <1>1. /\ all \in Seq(Response) /\ Len(all) \in Nat /\ n \in Nat
        /\ k.c.next_seq \in Nat /\ k.c.inflight_seq \in Nat
        /\ k.c.out \in Seq(Response) /\ Len(k.c.out) \in Nat
    BY <1>0, SentType, FinalsType, KFields, ConnFields
  <1>2. more = Append(all, r)
    <2> DEFINE a == k.s.got \o k.s.snd
    <2>1. a \in Seq(Response)
      BY KFields, ConcatProperties, <1>0
    <2>2. more = a \o Append(k.c.out, r) /\ all = a \o k.c.out
      BY <1>0 DEF Sent
    <2> HIDE DEF a, all, more
    <2>3. k.c.out \in Seq(Response) /\ r \in Response
      BY <1>0, <1>1
    <2>4. a \o Append(k.c.out, r) = Append(a \o k.c.out, r)
      BY SMTT(30), <2>1, <2>3, AppendJoins
    <2> QED
      BY <2>2, <2>4
  <1> HIDE DEF all, more, n
  <1>3. ASSUME NEW id, Orderly(k, id), Due(k, r, id)
        PROVE  Orderly(m, id)
    <2>1. InOrder(all, id) /\ Numbered(k.c, all)
      BY <1>3, <1>0 DEF Orderly, all
    <2>2. /\ NoneCloses(all)
          /\ k.c.next_seq = n + (IF k.c.in_flight THEN 1 ELSE 0) + 1
          /\ k.c.in_flight => k.c.inflight_seq + 1 = k.c.next_seq
      BY <2>1, <1>0, <1>3 DEF Numbered, NoneCloses, n, Due
    <2>3. k.c.in_flight => k.c.inflight_seq = n + 1 /\ k.c.next_seq = n + 2
      BY SMT, <2>2, <1>1
    <2>4. r.of # NoJob => r.of.conn = id /\ r.of.seq = n + 1
      BY <2>3, <1>3 DEF Due
    <2>5. /\ InOrder(more, id) /\ FinalsTo(more, Len(more)) = n + 1
          /\ ~r.close => NoneCloses(more)
      BY <2>1, <2>2, <2>4, <1>0, <1>1, <1>2, InOrderAppend DEF n
    <2>6. ~k.c.in_flight => k.c.next_seq = n + 1
      BY SMT, <2>2, <1>1
    <2>7. /\ k.c.next_seq <= (n + 1) + 0 + 1
          /\ k.c.in_flight => k.c.next_seq = (n + 1) + 0 + 1
      BY SMT, <2>3, <2>6, <1>1
    <2>8. Numbered(m.c, more)
      BY <2>5, <2>7, <1>0 DEF Numbered, NoneCloses
    <2> QED
      BY <2>5, <2>8 DEF Orderly, more
  <1>4. Proceeds(k, m)
    BY DEF Replies, Proceeds
  <1>5. ASSUME NEW unsent, Neat(k, unsent)
        PROVE  Tidy(m, unsent)
    <2>1. Len(m.c.out) = Len(k.c.out) + 1
      BY SMT, <1>0, <1>1, AppendJoins
    <2>2. OutputBounded(m.c)
      BY SMT, <2>1, <1>0, <1>1, <1>5, ConnectionAssumption DEF OutputBounded, Neat
    <2>3. m.c.in = k.c.in /\ m.s.rcv = k.s.rcv
      BY DEF Replies
    <2> QED
      BY <2>2, <2>3, <1>0, <1>5 DEF Tidy, Neat
  <1> QED
    BY <1>0, <1>3, <1>4, <1>5 DEF Orders

(* A request is taken up: the next number is its own.                      *)
Taken(k, m) ==
  /\ k \in K /\ m \in K /\ m.s = k.s
  /\ k.c.alive /\ ~k.c.in_flight /\ ~k.c.close_after
  /\ m.c.alive /\ m.c.in_flight /\ m.c.inflight_seq = k.c.next_seq
  /\ m.c.next_seq = k.c.next_seq + 1 /\ m.c.peer_eof = k.c.peer_eof
  /\ m.c.in = k.c.in /\ m.c.out = k.c.out

LEMMA TakenFacts ==
  ASSUME NEW k, NEW m, Taken(k, m)
  PROVE  /\ \A id : Orders(k, m, id)
         /\ \A unsent : Neat(k, unsent) => Neat(m, unsent)
  <1> DEFINE n == FinalsTo(Sent(k), Len(Sent(k)))
  <1>0. /\ k \in K /\ Sent(m) = Sent(k) /\ k.c.alive /\ ~k.c.in_flight
        /\ ~k.c.close_after /\ m.c.in_flight
        /\ m.c.inflight_seq = k.c.next_seq /\ m.c.next_seq = k.c.next_seq + 1
    BY DEF Taken, Sent
  <1>1. n \in Nat /\ k.c.next_seq \in Nat
    BY <1>0, SentType, FinalsType, KFields, ConnFields
  <1>2. ASSUME Numbered(k.c, Sent(k)) PROVE Numbered(m.c, Sent(m))
    <2>1. /\ k.c.next_seq = n + 0 + 1
          /\ \A i \in 1..Len(Sent(m)) : ~Sent(m)[i].close
      BY <1>0, <1>2 DEF Numbered
    <2>2. m.c.next_seq = n + 1 + 1 /\ m.c.next_seq <= n + 1 + 1
      BY SMT, <2>1, <1>0, <1>1
    <2> QED
      BY <2>1, <2>2, <1>0 DEF Numbered
  <1>3. \A id : Orderly(k, id) => Orderly(m, id)
    BY <1>0, <1>2 DEF Orderly
  <1> QED
    BY <1>3 DEF Taken, Orders, Proceeds, Neat

-----------------------------------------------------------------------------
(* v is u without its first n.                                             *)
Behind(n, u, v) == /\ Len(u) = n + Len(v)
                   /\ \A i \in 1..Len(v) : v[i] = u[n + i]

(* What follows well-formed input is well-formed.                          *)
LEMMA OneExpectBehind ==
  ASSUME NEW u \in Seq(Segment), NEW v \in Seq(Segment), NEW n \in Nat,
         Behind(n, u, v), OneExpect(u)
  PROVE  OneExpect(v)
  <1>0. /\ Len(u) \in Nat /\ Len(v) \in Nat /\ Len(u) = n + Len(v)
        /\ \A i \in 1..Len(v) : v[i] = u[n + i]
    BY LenProperties DEF Behind
  <1>1. ASSUME NEW i \in 1..Len(v), NEW j \in 1..Len(v),
               v[i] = "expect", v[j] = "expect", i < j
        PROVE  \E l \in i..j : v[l] \notin Unfinished
    <2>1. /\ n + i \in 1..Len(u) /\ n + j \in 1..Len(u) /\ n + i < n + j
          /\ \A l \in (n + i)..(n + j) : /\ l - n \in i..j /\ l - n \in 1..Len(v)
                                         /\ n + (l - n) = l
      BY SMT, <1>0, <1>1
    <2>2. u[n + i] = "expect" /\ u[n + j] = "expect"
      BY <1>0, <1>1
    <2>3. PICK l \in (n + i)..(n + j) : u[l] \notin Unfinished
      BY <2>1, <2>2 DEF OneExpect
    <2>4. v[l - n] = u[l]
      BY <2>1, <1>0
    <2> QED
      BY <2>1, <2>3, <2>4
  <1> QED
    BY <1>1 DEF OneExpect

(* ... whatever follows both.                                              *)
LEMMA BehindJoins ==
  ASSUME NEW u \in Seq(Segment), NEW v \in Seq(Segment), NEW n \in Nat,
         Behind(n, u, v), NEW t \in Seq(Segment)
  PROVE  Behind(n, u \o t, v \o t)
  <1>1. /\ Len(u) \in Nat /\ Len(v) \in Nat /\ Len(t) \in Nat
        /\ Len(u \o t) = Len(u) + Len(t) /\ Len(v \o t) = Len(v) + Len(t)
        /\ Len(u) = n + Len(v)
    BY JoinFacts DEF Behind
  <1>2. Len(u \o t) = n + Len(v \o t)
    BY SMT, <1>1
  <1>3. /\ \A i \in 1..Len(v) : (v \o t)[i] = v[i]
        /\ \A i \in 1..Len(t) : (v \o t)[Len(v) + i] = t[i]
    BY SMT, JoinFacts
  <1>4. /\ \A i \in 1..Len(u) : (u \o t)[i] = u[i]
        /\ \A i \in 1..Len(t) : (u \o t)[Len(u) + i] = t[i]
    BY SMT, JoinFacts
  <1>5. ASSUME NEW i \in 1..Len(v \o t)
        PROVE  (v \o t)[i] = (u \o t)[n + i]
    <2>1. CASE i \in 1..Len(v)
      <3>1. n + i \in 1..Len(u)
        BY SMT, <2>1, <1>1
      <3> QED
        BY <2>1, <3>1, <1>3, <1>4 DEF Behind
    <2>2. CASE i \notin 1..Len(v)
      <3> DEFINE j == i - Len(v)
      <3>1. j \in 1..Len(t) /\ Len(v) + j = i /\ Len(u) + j = n + i
        BY SMT, <2>2, <1>1
      <3>2. (v \o t)[Len(v) + j] = t[j] /\ (u \o t)[Len(u) + j] = t[j]
        <4> HIDE DEF j
        <4> QED BY <3>1, <1>3, <1>4
      <3> QED
        BY <3>1, <3>2
    <2> QED
      BY <2>1, <2>2
  <1> QED
    BY <1>2, <1>5 DEF Behind

(* The parser has eaten n segments, with h interim responses.              *)
Eaten(k, m, n, h) ==
  /\ k \in K /\ m \in K /\ m.s = k.s /\ n \in Nat /\ h \in Nat
  /\ k.c.alive /\ ~k.c.in_flight /\ ~k.c.close_after
  /\ m.c.alive /\ ~m.c.in_flight /\ ~m.c.close_after
  /\ m.c.next_seq = k.c.next_seq /\ m.c.peer_eof = k.c.peer_eof
  /\ m.c.out = k.c.out \o [i \in 1..h |-> Continue]
  /\ Behind(n, k.c.in, m.c.in)

LEMMA EatenFacts ==
  ASSUME NEW k, NEW m, NEW n, NEW h, Eaten(k, m, n, h)
  PROVE  /\ \A id : Orders(k, m, id)
         /\ \A unsent \in Seq(Segment) :
              Tidy(k, unsent) /\ h <= 1 /\ Len(k.c.out) < MaxOutput
                => Neat(m, unsent)
  <1> DEFINE all == Sent(k)
             more == Sent(m)
             new == [i \in 1..h |-> Continue]
             f == FinalsTo(all, Len(all))
  <1>0. /\ k \in K /\ m \in K /\ m.s = k.s /\ n \in Nat /\ h \in Nat
        /\ m.c.next_seq = k.c.next_seq /\ m.c.out = k.c.out \o new
        /\ k.c.alive /\ ~k.c.in_flight /\ ~k.c.close_after
        /\ m.c.alive /\ ~m.c.in_flight /\ ~m.c.close_after
        /\ Behind(n, k.c.in, m.c.in)
    BY DEF Eaten
  <1>1. new \in Seq(Response) /\ Len(new) = h
    <2>1. Continue \in Response
      BY DEF Continue, Response
    <2> QED
      BY SMT, <2>1, <1>0
  <1>2. /\ all \in Seq(Response) /\ k.c.out \in Seq(Response)
        /\ k.c.in \in Seq(Segment) /\ m.c.in \in Seq(Segment)
        /\ k.s.rcv \in Seq(Segment) /\ Len(k.c.out) \in Nat
    BY <1>0, SentType, KFields, ConnFields
  <1>3. more = all \o new
    <2> DEFINE a == k.s.got \o k.s.snd
    <2>1. a \in Seq(Response)
      BY KFields, ConcatProperties, <1>0
    <2>2. more = a \o (k.c.out \o new) /\ all = a \o k.c.out
      BY <1>0 DEF Sent
    <2> HIDE DEF a, all, more, new
    <2>3. k.c.out \in Seq(Response) /\ new \in Seq(Response)
      BY <1>1, <1>2
    <2>4. \A b, c \in Seq(Response) : (a \o b) \o c = a \o (b \o c)
      BY SMTT(30), <2>1, ConcatAssociative
    <2>5. (a \o k.c.out) \o new = a \o (k.c.out \o new)
      BY <2>3, <2>4
    <2> QED
      BY <2>2, <2>5
  <1>4. ASSUME NEW id, Orderly(k, id) PROVE Orderly(m, id)
    <2> HIDE DEF all, more
    <2>1. InOrder(all, id) /\ Numbered(k.c, all)
      BY <1>4, <1>0 DEF Orderly, all
    <2>2. NoneCloses(all)
      BY <2>1, <1>0 DEF Numbered, NoneCloses
    <2>3. /\ InOrder(more, id) /\ NoneCloses(more)
          /\ FinalsTo(more, Len(more)) = f
      BY <2>1, <2>2, <1>0, <1>2, <1>3, InOrderInterim
    <2>4. Numbered(m.c, more)
      BY <2>1, <2>3, <1>0 DEF Numbered, NoneCloses
    <2> QED
      BY <2>3, <2>4 DEF Orderly, more
  <1>5. Proceeds(k, m)
    BY DEF Eaten, Proceeds
  <1>6. ASSUME NEW unsent \in Seq(Segment), Tidy(k, unsent), h <= 1,
               Len(k.c.out) < MaxOutput
        PROVE  Neat(m, unsent)
    <2>1. Len(m.c.out) = Len(k.c.out) + h
      <3> HIDE DEF new
      <3>1. \A b, c \in Seq(Response) : Len(b \o c) = Len(b) + Len(c)
        BY SMT, JoinFacts
      <3> QED
        BY <3>1, <1>0, <1>1, <1>2
    <2>2. Len(m.c.out) <= MaxOutput
      BY SMT, <2>1, <1>0, <1>2, <1>6, ConnectionAssumption
    <2> DEFINE u == k.c.in \o k.s.rcv
               v == m.c.in \o k.s.rcv
    <2>3. u \in Seq(Segment) /\ v \in Seq(Segment) /\ Behind(n, u, v)
      BY <1>0, <1>2, BehindJoins, JoinFacts
    <2>4. OneExpect(u \o unsent)
      BY <1>0, <1>6 DEF Tidy
    <2> HIDE DEF u, v
    <2>5. /\ u \o unsent \in Seq(Segment) /\ v \o unsent \in Seq(Segment)
          /\ Behind(n, u \o unsent, v \o unsent)
      BY <2>3, <1>0, BehindJoins, JoinFacts
    <2>6. OneExpect(v \o unsent)
      BY <2>4, <2>5, <1>0, OneExpectBehind
    <2> QED
      BY <2>2, <2>6, <1>0 DEF Neat, v
  <1> QED
    BY <1>0, <1>4, <1>5, <1>6 DEF Orders

-----------------------------------------------------------------------------
(* kill(), flush() and the answers.                                        *)

(* kill() leaves a connection that is finished and stays so.               *)
LEMMA KillFacts ==
  ASSUME NEW c \in ConnState, InputBounded(c)
  PROVE  /\ kill(c) \in ConnState /\ InputBounded(kill(c))
         /\ SameConnection(c, kill(c))
         /\ kill(c).alive = FALSE /\ kill(c).out = <<>> /\ finished(kill(c))
  <1>1. c.consumed \in Nat /\ Len(c.in) \in Nat /\ c.close_after \in BOOLEAN
    BY ConnFields
  <1>2. kill(c) \in ConnState
    BY EmptySeq DEF kill, ConnState
  <1>3. /\ kill(c).alive = FALSE /\ kill(c).close_after = TRUE
        /\ kill(c).in = <<>> /\ kill(c).consumed = c.consumed
        /\ kill(c).fd = c.fd /\ kill(c).draining = c.draining
        /\ kill(c).applied_mask = c.applied_mask /\ kill(c).out = <<>>
    BY DEF kill, ConnState
  <1>4. Len(kill(c).in) = 0
    BY SMT, <1>3
  <1>5. InputBounded(kill(c))
    BY SMT, <1>1, <1>3, <1>4, ConnectionAssumption DEF InputBounded
  <1> QED
    BY <1>2, <1>3, <1>5 DEF SameConnection, finished

(* flush(): part of the output moves to the socket, or the peer is dead.   *)
LEMMA FlushKeeps ==
  ASSUME NEW k, Sound(k)
  PROVE  /\ Keeps(k, flush(k)) /\ flush(k).job = k.job
         /\ SameRequest(k.c, flush(k).c)
         /\ flush(k).c.close_after = k.c.close_after \/ ~flush(k).c.alive
  <1> DEFINE room == SendBuffer - Len(k.s.snd)
             n == IF room < Len(k.c.out) THEN room ELSE Len(k.c.out)
             rest == SubSeq(k.c.out, n + 1, Len(k.c.out))
             sent == k.s.snd \o SubSeq(k.c.out, 1, n)
  <1>0. /\ k \in K /\ k.c \in ConnState /\ k.s \in SockState
        /\ k.s.snd \in Seq(Response) /\ k.c.out \in Seq(Response)
        /\ Len(k.s.snd) \in Nat /\ Len(k.c.out) \in Nat
        /\ Len(k.s.snd) <= SendBuffer
    BY KFields, ConnFields DEF Sound, SocketBounded
  <1>1. CASE k.c.out = <<>> \/ ~k.c.alive
    BY <1>1 DEF flush, Keeps, SameConnection, SameRequest
  <1>2. CASE k.c.out # <<>> /\ k.c.alive /\ k.s.gone # "no"
    <2>1. flush(k) = [k EXCEPT !.c = kill(k.c)]
      BY <1>2, <1>0 DEF flush, K
    <2>2. /\ flush(k) \in K /\ flush(k).c = kill(k.c) /\ flush(k).s = k.s
          /\ flush(k).job = k.job
      BY <2>1, <1>0, KillFacts DEF K, Sound
    <2> QED
      BY <2>2, <1>0, KillFacts DEF Keeps, Sound, SameRequest
  <1>3. CASE k.c.out # <<>> /\ k.c.alive /\ k.s.gone = "no"
    <2>0. room \in Nat
      BY SMT, <1>0, ConnectionAssumption
    <2>1. n \in 0..Len(k.c.out) /\ n <= room /\ n \in Nat
      <3> HIDE DEF room
      <3> QED BY SMT, <2>0, <1>0
    <2>2. rest \in Seq(Response)
      BY SMT, <2>1, <1>0, SubSeqProperties, ElementOfSeq
    <2>3. /\ SubSeq(k.c.out, 1, n) \in Seq(Response)
          /\ Len(SubSeq(k.c.out, 1, n)) = n
      BY SMT, <2>1, <1>0, SubSeqProperties, ElementOfSeq
    <2>4. sent \in Seq(Response) /\ Len(sent) <= SendBuffer
      <3>1. sent \in Seq(Response) /\ Len(sent) = Len(k.s.snd) + n
        <4> HIDE DEF n
        <4> QED BY SMTT(30), <2>3, <1>0, ConcatProperties
      <3>2. n <= SendBuffer - Len(k.s.snd) /\ n \in Nat
        BY <2>1
      <3> HIDE DEF sent, n
      <3> QED BY SMT, <3>1, <3>2, <1>0, ConnectionAssumption
    <2> DEFINE d == [k.c EXCEPT !.out = rest]
               t == [k.s EXCEPT !.snd = sent]
    <2>5. flush(k) = [k EXCEPT !.c = d, !.s = t]
      BY <1>3, <1>0 DEF flush, K
    <2>6. /\ d \in ConnState /\ SameConnection(k.c, d)
          /\ d.in = k.c.in /\ d.consumed = k.c.consumed
          /\ d.close_after = k.c.close_after /\ d.alive = k.c.alive
          /\ d.in_flight = k.c.in_flight /\ d.inflight_seq = k.c.inflight_seq
      BY <2>2, <1>0 DEF ConnState, SameConnection
    <2>7. t \in SockState /\ t.snd = sent
      BY <2>4, <1>0 DEF SockState
    <2>8. /\ flush(k) \in K /\ flush(k).c = d /\ flush(k).s = t
          /\ flush(k).job = k.job
      BY <2>5, <2>6, <2>7, <1>0 DEF K
    <2>9. Sound(flush(k))
      BY <2>4, <2>6, <2>7, <2>8 DEF Sound, InputBounded, SocketBounded
    <2>10. ~finished(k.c)
      BY <1>3 DEF finished
    <2> QED
      BY <2>6, <2>8, <2>9, <2>10 DEF Keeps, SameRequest
  <1> QED
    BY <1>1, <1>2, <1>3

(* ... so the client reads the same, unless it is gone; and what is left   *)
(* waits for the socket.                                                   *)
LEMMA FlushServes ==
  ASSUME NEW k, Sound(k)
  PROVE  LET m == flush(k)
         IN  /\ Smooth(k, m) /\ SameInput(k, m) /\ Flushed(m)
             /\ m.c.next_seq = k.c.next_seq /\ m.c.peer_eof = k.c.peer_eof
             /\ m.s.rcv = k.s.rcv /\ m.s.gone = k.s.gone /\ m.s.fin = k.s.fin
  <1> DEFINE room == SendBuffer - Len(k.s.snd)
             n == IF room < Len(k.c.out) THEN room ELSE Len(k.c.out)
             rest == SubSeq(k.c.out, n + 1, Len(k.c.out))
             front == SubSeq(k.c.out, 1, n)
             sent == k.s.snd \o front
             m == flush(k)
  <1>0. /\ k \in K /\ k.c \in ConnState /\ k.s \in SockState
        /\ k.s.snd \in Seq(Response) /\ k.c.out \in Seq(Response)
        /\ k.s.got \in Seq(Response)
        /\ Len(k.s.snd) \in Nat /\ Len(k.c.out) \in Nat
        /\ Len(k.s.snd) <= SendBuffer
    BY KFields, ConnFields DEF Sound, SocketBounded
  <1>1. m \in K
    BY FlushKeeps DEF Keeps, Sound
  <1>2. CASE k.c.out = <<>> \/ ~k.c.alive
    <2>1. m = k
      BY <1>2 DEF flush
    <2>2. Len(k.c.out) <= Len(k.c.out)
      BY SMT, <1>0
    <2>3. Unheard(k, k)
      BY <2>2, <1>0 DEF Unheard, Moves, SamePeer
    <2> QED
      BY <2>1, <2>3, <1>2, UnheardIsSmooth DEF SameInput, Flushed
  <1>3. CASE k.c.out # <<>> /\ k.c.alive /\ k.s.gone # "no"
    <2>1. m = [k EXCEPT !.c = kill(k.c)]
      BY <1>3, <1>0 DEF flush, K
    <2>2. /\ ~kill(k.c).alive /\ kill(k.c).out = <<>>
          /\ kill(k.c).next_seq = k.c.next_seq /\ kill(k.c).peer_eof = k.c.peer_eof
      BY <1>0 DEF kill, ConnState
    <2>3. m.c = kill(k.c) /\ m.s = k.s
      BY <2>1, <1>0 DEF K
    <2> HIDE DEF m
    <2>4. Killed(k, m)
      BY <2>2, <2>3, <1>0, <1>1 DEF Killed
    <2>5. Smooth(k, m)
      BY <2>4, <1>3, KilledFacts DEF Smooth
    <2> QED
      BY <2>2, <2>3, <2>5 DEF SameInput, Flushed, m
  <1>4. CASE k.c.out # <<>> /\ k.c.alive /\ k.s.gone = "no"
    <2> DEFINE d == [k.c EXCEPT !.out = rest]
               t == [k.s EXCEPT !.snd = sent]
    <2>1. m = [k EXCEPT !.c = d, !.s = t]
      BY <1>4, <1>0 DEF flush, K
    <2>2. m.c = d /\ m.s = t
      BY <2>1, <1>0 DEF K
    <2>3. /\ d.out = rest /\ d.in = k.c.in /\ d.next_seq = k.c.next_seq
          /\ d.in_flight = k.c.in_flight /\ d.inflight_seq = k.c.inflight_seq
          /\ d.alive = k.c.alive /\ d.close_after = k.c.close_after
          /\ d.peer_eof = k.c.peer_eof
      <3> HIDE DEF rest
      <3> QED BY <1>0 DEF ConnState
    <2>4. /\ t.snd = sent /\ t.got = k.s.got /\ t.rcv = k.s.rcv
          /\ t.fin = k.s.fin /\ t.gone = k.s.gone
      <3> HIDE DEF sent
      <3> QED BY <1>0 DEF SockState
    <2>5. room \in Nat /\ Len(k.s.snd) + room = SendBuffer
      BY SMT, <1>0, ConnectionAssumption
    <2>6. /\ n \in 0..Len(k.c.out) /\ n \in Nat
          /\ n = Len(k.c.out) \/ n = room
      <3> HIDE DEF room
      <3> QED BY SMT, <2>5, <1>0
    <2> HIDE DEF m, d, t, n, room
    <2>7. /\ front \in Seq(Response) /\ Len(front) = n
          /\ rest \in Seq(Response) /\ Len(rest) = Len(k.c.out) - n
      BY SMT, <2>6, <1>0, SubSeqProperties, ElementOfSeq
    <2>8. Len(rest) <= Len(k.c.out)
      BY SMT, <2>6, <2>7, <1>0
    <2>9. rest # <<>> => Len(sent) = SendBuffer
      <3>1. \A b, c \in Seq(Response) : Len(b \o c) = Len(b) + Len(c)
        BY SMT, JoinFacts
      <3>2. Len(sent) = Len(k.s.snd) + n
        BY ZenonT(30), <3>1, <2>7, <1>0
      <3>3. rest # <<>> => Len(rest) # 0
        BY <2>7, EmptySeq
      <3>4. n = Len(k.c.out) => Len(rest) = 0
        <4>1. Len(k.c.out) - Len(k.c.out) = 0
          BY SMT, <1>0
        <4> QED
          BY <4>1, <2>7
      <3> QED
        BY <3>2, <3>3, <3>4, <2>5, <2>6
    <2>10. (k.s.got \o sent) \o rest = (k.s.got \o k.s.snd) \o k.c.out
      <3> DEFINE a == k.s.got \o k.s.snd
      <3>1. \A b, c \in Seq(Response) : b \o c \in Seq(Response)
        BY SMT, JoinFacts
      <3>2. a \in Seq(Response)
        BY <3>1, <1>0
      <3>3. \A x, y, z \in Seq(Response) : (x \o y) \o z = x \o (y \o z)
        BY SMTT(30), ConcatAssociative
      <3>4. a \o front = k.s.got \o sent
        <4>1. front \in Seq(Response)
          BY <2>7
        <4> HIDE DEF front
        <4>2. (k.s.got \o k.s.snd) \o front = k.s.got \o (k.s.snd \o front)
          BY <3>3, <4>1, <1>0
        <4> QED
          BY <4>2
      <3> HIDE DEF a, sent
      <3>5. (a \o front) \o rest = a \o k.c.out
        BY <3>2, <2>6, <1>0, CutJoins
      <3> QED
        BY <3>4, <3>5 DEF a
    <2> HIDE DEF sent, rest
    <2>11. Sent(m) = Sent(k)
      BY <2>2, <2>3, <2>4, <2>10 DEF Sent
    <2>12. Unheard(k, m)
      BY <2>2, <2>3, <2>4, <2>8, <2>11, <1>0, <1>1 DEF Unheard, Moves, SamePeer
    <2>13. SameInput(k, m) /\ Flushed(m)
      BY <2>2, <2>3, <2>4, <2>9, <1>4 DEF SameInput, Flushed, Full
    <2> QED
      BY <2>2, <2>3, <2>4, <2>12, <2>13, UnheardIsSmooth DEF m
  <1> QED
    BY <1>2, <1>3, <1>4

-----------------------------------------------------------------------------
Errors == {"400", "408", "413", "503"}

(* queue_response(): one more response, and close_after_ may rise.         *)
LEMMA QueueFacts ==
  ASSUME NEW c \in ConnState, NEW r \in Response
  PROVE  LET d == queue_response(c, r)
         IN  /\ d \in ConnState /\ SameConnection(c, d)
             /\ d.in = c.in /\ d.consumed = c.consumed
             /\ d.close_after = (c.close_after \/ r.close)
             /\ d.alive = c.alive /\ d.in_flight = c.in_flight
             /\ d.inflight_seq = c.inflight_seq
             /\ d.next_seq = c.next_seq /\ d.peer_eof = c.peer_eof
             /\ \E x \in Response : /\ d.out = Append(c.out, x) /\ x.of = r.of
                                    /\ x.status = r.status /\ x.close = r.close
  <1> DEFINE r1 == [r EXCEPT !.body = @ /\ ~c.last_head]
             out1 == Append(c.out, r1)
  <1>1. r.body \in BOOLEAN /\ r.close \in BOOLEAN
    BY DEF Response
  <1>2. c.close_after \in BOOLEAN /\ c.last_head \in BOOLEAN /\ c.out \in Seq(Response)
    BY ConnFields
  <1>3. /\ r1 \in Response /\ r1.of = r.of
        /\ r1.status = r.status /\ r1.close = r.close
    BY <1>1, <1>2 DEF Response
  <1>4. out1 \in Seq(Response)
    <2> HIDE DEF r1
    <2> QED BY <1>2, <1>3, AppendProperties
  <1>5. queue_response(c, r) =
          [c EXCEPT !.out = out1, !.close_after = c.close_after \/ r.close]
    BY DEF queue_response, ConnState
  <1>6. c.close_after \/ r.close \in BOOLEAN
    BY <1>1, <1>2
  <1> DEFINE d == queue_response(c, r)
  <1>7. /\ d \in ConnState /\ SameConnection(c, d)
        /\ d.in = c.in /\ d.consumed = c.consumed
        /\ d.close_after = (c.close_after \/ r.close)
        /\ d.alive = c.alive /\ d.in_flight = c.in_flight
        /\ d.inflight_seq = c.inflight_seq
        /\ d.next_seq = c.next_seq /\ d.peer_eof = c.peer_eof
        /\ d.out = out1
    <2> HIDE DEF out1
    <2> QED BY <1>4, <1>5, <1>6 DEF ConnState, SameConnection
  <1> HIDE DEF d, r1
  <1> QED
    BY <1>3, <1>7 DEF d

(* queue_error(): the connection closes, so the read that crossed the      *)
(* limit was the last.                                                     *)
LEMMA ErrorFacts ==
  ASSUME NEW c \in ConnState, NEW status \in Errors,
         c.consumed + Len(c.in) <= MaxRequest + 1
  PROVE  LET d == queue_error(c, status)
         IN  /\ d \in ConnState /\ SameConnection(c, d) /\ InputBounded(d)
             /\ d.close_after = TRUE /\ d.alive = c.alive
             /\ d.in_flight = c.in_flight /\ d.inflight_seq = c.inflight_seq
             /\ d.next_seq = c.next_seq /\ d.peer_eof = c.peer_eof
             /\ d.in = c.in
             /\ \E x \in Response : /\ d.out = Append(c.out, x) /\ x.of = NoJob
                                    /\ Final(x)
  <1> DEFINE r == [status |-> status, of |-> NoJob, body |-> TRUE, close |-> TRUE]
             q == queue_response(c, r)
  <1>1. r \in Response /\ r.of = NoJob /\ r.status # "100"
    BY DEF Response, Errors
  <1>2. /\ q \in ConnState /\ SameConnection(c, q)
        /\ q.in = c.in /\ q.consumed = c.consumed /\ q.alive = c.alive
        /\ q.in_flight = c.in_flight /\ q.inflight_seq = c.inflight_seq
        /\ q.next_seq = c.next_seq /\ q.peer_eof = c.peer_eof
        /\ \E x \in Response : /\ q.out = Append(c.out, x) /\ x.of = NoJob
                               /\ x.status # "100"
    <2> HIDE DEF r
    <2>1. \E x \in Response : /\ q.out = Append(c.out, x) /\ x.of = r.of
                              /\ x.status = r.status
      BY <1>1, QueueFacts
    <2> HIDE DEF q
    <2>2. \E x \in Response : /\ q.out = Append(c.out, x) /\ x.of = NoJob
                              /\ x.status # "100"
      BY <2>1, <1>1
    <2>3. /\ q \in ConnState /\ SameConnection(c, q)
          /\ q.in = c.in /\ q.consumed = c.consumed /\ q.alive = c.alive
          /\ q.in_flight = c.in_flight /\ q.inflight_seq = c.inflight_seq
          /\ q.next_seq = c.next_seq /\ q.peer_eof = c.peer_eof
      BY <1>1, QueueFacts DEF q
    <2> QED
      BY <2>2, <2>3
  <1>3. queue_error(c, status) = [q EXCEPT !.close_after = TRUE]
    BY DEF queue_error
  <1> HIDE DEF q
  <1>4. /\ queue_error(c, status) \in ConnState
        /\ queue_error(c, status).in = q.in
        /\ queue_error(c, status).consumed = q.consumed
        /\ queue_error(c, status).close_after = TRUE
        /\ queue_error(c, status).alive = q.alive
        /\ queue_error(c, status).in_flight = q.in_flight
        /\ queue_error(c, status).inflight_seq = q.inflight_seq
        /\ queue_error(c, status).next_seq = q.next_seq
        /\ queue_error(c, status).peer_eof = q.peer_eof
        /\ queue_error(c, status).out = q.out
        /\ SameConnection(q, queue_error(c, status))
    BY <1>2, <1>3 DEF ConnState, SameConnection
  <1> QED
    BY <1>2, <1>4 DEF InputBounded, SameConnection, Final

(* A live connection without a request in flight has answered an error,    *)
(* and closes.                                                             *)
Refuses(k, m) ==
  /\ Proceeds(k, m) /\ Flushed(m) /\ m.c.next_seq = k.c.next_seq
  /\ m.c.close_after \/ ~m.c.alive
  /\ k.c.alive /\ ~m.c.alive => k.s.gone # "no"
  /\ \A unsent : Neat(k, unsent) => Tidy(m, unsent)
  /\ ~k.c.close_after => \A id : Orders(k, m, id)

(* An error answer, flushed: whatever the connection was, it is sound.     *)
LEMMA FailFacts ==
  ASSUME NEW k \in K, NEW status \in Errors, SocketBounded(k.s),
         k.c.consumed + Len(k.c.in) <= MaxRequest + 1
  PROVE  LET m == Fail(k, status)
         IN  /\ Sound(m) /\ SameConnection(k.c, m.c) /\ m.job = k.job
             /\ SameRequest(k.c, m.c)
             /\ k.c.alive /\ ~k.c.in_flight => Refuses(k, m)
  <1> DEFINE d == queue_error(k.c, status)
             q == [k EXCEPT !.c = d]
  <1>1. k.c \in ConnState
    BY KFields
  <1>2. /\ d \in ConnState /\ SameConnection(k.c, d) /\ InputBounded(d)
        /\ SameRequest(k.c, d) /\ d.close_after = TRUE /\ d.alive = k.c.alive
        /\ d.in_flight = k.c.in_flight /\ d.next_seq = k.c.next_seq
        /\ d.peer_eof = k.c.peer_eof /\ d.in = k.c.in
    BY <1>1, ErrorFacts DEF SameRequest
  <1>3. PICK x \in Response : /\ d.out = Append(k.c.out, x) /\ x.of = NoJob
                               /\ Final(x)
    BY <1>1, ErrorFacts
  <1> HIDE DEF d
  <1>4. q \in K /\ q.c = d /\ q.s = k.s /\ q.job = k.job
    BY <1>2 DEF K
  <1>5. Sound(q)
    BY <1>2, <1>4 DEF Sound
  <1>6. Fail(k, status) = flush(q)
    BY DEF Fail, d, K
  <1> HIDE DEF q
  <1>7. Keeps(q, flush(q)) /\ flush(q).job = q.job /\ SameRequest(q.c, flush(q).c)
    BY <1>5, FlushKeeps
  <1>8. ASSUME k.c.alive, ~k.c.in_flight PROVE Refuses(k, flush(q))
    <2>1. Replies(k, q, x)
      BY <1>2, <1>4, <1>3, <1>8 DEF Replies
    <2>2. /\ ~k.c.close_after => \A id : Orders(k, q, id)
          /\ Proceeds(k, q)
          /\ \A unsent : Neat(k, unsent) => Tidy(q, unsent)
      BY <2>1, <1>3, AnswerFacts DEF Due
    <2> DEFINE m == flush(q)
    <2>3. /\ Smooth(q, m) /\ Flushed(m) /\ m.c.next_seq = q.c.next_seq
      BY <1>5, FlushServes
    <2>4. m.c.close_after = q.c.close_after \/ ~m.c.alive
      BY <1>5, FlushKeeps
    <2> HIDE DEF m
    <2>5. \A id : Orders(q, m, id)
      BY <2>3 DEF Smooth
    <2>6. Proceeds(k, m) /\ (q.c.alive /\ ~m.c.alive => q.s.gone # "no")
      BY <2>2, <2>5 DEF Orders, Proceeds
    <2>7. \A unsent : Neat(k, unsent) => Tidy(m, unsent)
      BY <2>2, <2>3 DEF Smooth
    <2>8. ~k.c.close_after => \A id : Orders(k, m, id)
      BY <2>2, <2>5, OrdersTransitive
    <2>9. Refuses(k, m)
      BY <2>3, <2>4, <2>6, <2>7, <2>8, <1>2, <1>4 DEF Refuses
    <2> QED
      BY <2>9 DEF m
  <1> QED
    BY <1>2, <1>4, <1>6, <1>7, <1>8 DEF Keeps, SameConnection, SameRequest

(* Sound is within the premise of ErrorFacts and FailFacts.                *)
LEMMA SoundIsNearLimit ==
  ASSUME NEW c \in ConnState, InputBounded(c)
  PROVE  c.consumed + Len(c.in) <= MaxRequest + 1
  BY SMT, ConnFields, ConnectionAssumption DEF InputBounded

(* What follows of a request at its end: no more input for now.            *)
Ends(k, m) == /\ \A id : Orders(k, m, id)
              /\ \A unsent : Neat(k, unsent) => Tidy(m, unsent)
              /\ ~Listening(m.c)

(* The pool takes the request, or it is answered with 503.                 *)
LEMMA SubmitFacts ==
  ASSUME NEW k, Sound(k), NEW job \in Job, NEW accepts \in BOOLEAN
  PROVE  LET m == submit(k, job, accepts)
         IN  /\ Sound(m) /\ SameConnection(k.c, m.c)
             /\ m.job # k.job => accepts
             /\ accepts => m.job = job /\ m.c = k.c
             /\ ~accepts => m.job = k.job /\ ~m.c.in_flight /\ m.c.alive = k.c.alive
             /\ k.c.alive /\ k.c.in_flight => Ends(k, m)
  <1>0. k \in K /\ k.c \in ConnState
    BY KFields DEF Sound
  <1>1. CASE accepts
    <2>1. submit(k, job, accepts) = [k EXCEPT !.job = job]
      BY <1>1 DEF submit
    <2>2. /\ [k EXCEPT !.job = job] \in K /\ [k EXCEPT !.job = job].c = k.c
          /\ [k EXCEPT !.job = job].s = k.s /\ [k EXCEPT !.job = job].job = job
      BY <1>0 DEF K
    <2> DEFINE m == [k EXCEPT !.job = job]
    <2>3. Len(k.c.out) <= Len(k.c.out)
      BY SMT, <1>0, ConnFields
    <2>4. Unheard(k, m)
      BY <2>2, <2>3, <1>0 DEF Unheard, Moves, SamePeer, Sent
    <2>5. k.c.in_flight => Ends(k, m)
      BY <2>2, <2>4, UnheardFacts, NeatIsTidy, <1>0 DEF Ends, Listening
    <2> QED
      BY <1>1, <2>1, <2>2, <2>5 DEF Sound, SameConnection
  <1>2. CASE ~accepts
    <2> DEFINE c1 == [k.c EXCEPT !.in_flight = FALSE]
               d == queue_error(c1, "503")
    <2>1. /\ c1 \in ConnState /\ c1.in = k.c.in /\ c1.consumed = k.c.consumed
          /\ SameConnection(k.c, c1) /\ ~c1.in_flight /\ c1.alive = k.c.alive
          /\ c1.out = k.c.out /\ c1.next_seq = k.c.next_seq
          /\ c1.peer_eof = k.c.peer_eof
      BY <1>0 DEF ConnState, SameConnection
    <2>2. c1.consumed + Len(c1.in) <= MaxRequest + 1
      <3> HIDE DEF c1
      <3> QED BY <2>1, <1>0, SoundIsNearLimit DEF Sound
    <2>3. /\ d \in ConnState /\ SameConnection(c1, d) /\ InputBounded(d)
          /\ d.in_flight = c1.in_flight /\ d.alive = c1.alive
          /\ d.close_after = TRUE /\ d.next_seq = c1.next_seq
          /\ d.peer_eof = c1.peer_eof /\ d.in = c1.in
          /\ \E x \in Response : /\ d.out = Append(c1.out, x) /\ x.of = NoJob
                                 /\ Final(x)
      <3> HIDE DEF c1
      <3> QED BY <2>1, <2>2, ErrorFacts DEF Errors
    <2>4. submit(k, job, accepts) = [k EXCEPT !.c = d]
      BY <1>2, <1>0 DEF submit, K
    <2> HIDE DEF d
    <2>5. /\ [k EXCEPT !.c = d] \in K /\ [k EXCEPT !.c = d].c = d
          /\ [k EXCEPT !.c = d].s = k.s /\ [k EXCEPT !.c = d].job = k.job
      BY <2>3, <1>0 DEF K
    <2> DEFINE m == [k EXCEPT !.c = d]
    <2>6. ASSUME k.c.alive, k.c.in_flight PROVE Ends(k, m)
      <3>1. PICK x \in Response : /\ d.out = Append(k.c.out, x) /\ x.of = NoJob
                                  /\ Final(x)
        BY <2>1, <2>3
      <3> HIDE DEF m, c1
      <3>2. /\ m \in K /\ m.c = d /\ m.s = k.s
        BY <2>5 DEF m
      <3>3. Replies(k, m, x)
        BY <3>1, <3>2, <2>1, <2>3, <2>6, <1>0 DEF Replies
      <3>4. ~Listening(m.c)
        BY <3>2, <2>3 DEF Listening
      <3> QED
        BY <3>1, <3>3, <3>4, <2>6, AnswerFacts DEF Ends, Due
    <2> QED
      BY <1>2, <2>1, <2>3, <2>4, <2>5, <2>6 DEF Sound, SameConnection
  <1> QED
    BY <1>1, <1>2

(* A request is handed over only if the pool accepts; else it is a 503.    *)
LEMMA DispatchFacts ==
  ASSUME NEW k, Sound(k), NEW id \in Client, NEW kind \in Ending,
         NEW accepts \in BOOLEAN
  PROVE  LET m == Dispatch(k, id, kind, accepts)
         IN  /\ Sound(m) /\ SameConnection(k.c, m.c)
             /\ m.job # k.job => accepts
             /\ k.job = NoJob /\ ~k.c.in_flight => HandedOver(k, m, id)
             /\ k.c.alive /\ ~k.c.in_flight /\ ~k.c.close_after => Ends(k, m)
  <1> DEFINE seq == k.c.next_seq
             d == [k.c EXCEPT !.last_head = (kind = "head"), !.in_flight = TRUE,
                              !.inflight_seq = seq, !.next_seq = seq + 1]
             k1 == [k EXCEPT !.c = d]
             job == [conn |-> id, seq |-> seq, kind |-> kind]
  <1>0. k \in K /\ k.c \in ConnState /\ seq \in Nat
    BY KFields, ConnFields DEF Sound
  <1>1. job \in Job
    BY <1>0 DEF Job
  <1>2. (kind = "head") \in BOOLEAN /\ seq + 1 \in Nat
    BY SMT, <1>0
  <1>3. /\ d \in ConnState /\ SameConnection(k.c, d) /\ d.in = k.c.in
        /\ d.consumed = k.c.consumed /\ d.close_after = k.c.close_after
        /\ d.alive = k.c.alive /\ d.in_flight /\ d.inflight_seq = seq
        /\ d.next_seq = seq + 1 /\ d.peer_eof = k.c.peer_eof
        /\ d.out = k.c.out
    BY <1>0, <1>2 DEF ConnState, SameConnection
  <1>4. Dispatch(k, id, kind, accepts) = submit(k1, job, accepts)
    BY <1>0 DEF Dispatch, K, ConnState
  <1> HIDE DEF d, job
  <1>5. k1 \in K /\ k1.c = d /\ k1.s = k.s /\ k1.job = k.job
    BY <1>0, <1>3 DEF K
  <1>6. Sound(k1)
    BY <1>3, <1>5 DEF Sound, InputBounded
  <1> HIDE DEF k1
  <1>7. LET m == submit(k1, job, accepts)
        IN  /\ Sound(m) /\ SameConnection(k1.c, m.c)
            /\ m.job # k1.job => accepts
            /\ accepts => m.job = job /\ m.c = k1.c
            /\ ~accepts => m.job = k1.job /\ ~m.c.in_flight /\ m.c.alive = k1.c.alive
            /\ k1.c.alive /\ k1.c.in_flight => Ends(k1, m)
    BY SMT, <1>1, <1>6, SubmitFacts
  <1>8. job # NoJob /\ job.conn = id /\ job.seq = seq
    BY <1>1, ConnectionAssumption DEF job
  <1> DEFINE m == submit(k1, job, accepts)
  <1>9. Sound(m) /\ SameConnection(k.c, m.c) /\ (m.job # k.job => accepts)
    BY <1>3, <1>5, <1>7 DEF SameConnection
  <1>10. k.job = NoJob /\ ~k.c.in_flight => HandedOver(k, m, id)
    <2>1. CASE accepts
      BY <2>1, <1>3, <1>5, <1>7, <1>8 DEF HandedOver
    <2>2. CASE ~accepts
      <3>1. m.job = k.job /\ ~m.c.in_flight /\ m.c.alive = k.c.alive
        BY <2>2, <1>3, <1>5, <1>7
      <3>2. k.c.in_flight \in BOOLEAN /\ m.c.in_flight \in BOOLEAN
        BY <1>0, <1>9, KFields, ConnFields DEF Sound
      <3> QED
        BY <3>1, <3>2 DEF HandedOver, SameRequest
    <2> QED
      BY <2>1, <2>2
  <1>11. ASSUME k.c.alive, ~k.c.in_flight, ~k.c.close_after
         PROVE  Ends(k, m)
    <2>1. Taken(k, k1)
      BY <1>0, <1>3, <1>5, <1>11 DEF Taken
    <2>2. Ends(k1, m)
      BY <1>3, <1>5, <1>7, <1>11
    <2> HIDE DEF m
    <2> QED
      BY <2>1, <2>2, TakenFacts, OrdersTransitive DEF Ends
  <1> HIDE DEF m
  <1> QED
    BY <1>4, <1>9, <1>10, <1>11 DEF m

-----------------------------------------------------------------------------
(* A non-empty set of naturals has a least element.                        *)
LEMMA LeastExists ==
  ASSUME NEW T, T \subseteq Nat, T # {}
  PROVE  \E i \in T : \A j \in T : i <= j
  <1>1. \E x \in T : \A y \in T : ~(<<y, x>> \in OpToRel(<, Nat))
    BY NatLessThanWellFounded, WFMin
  <1>2. PICK x \in T : \A y \in T : ~(<<y, x>> \in OpToRel(<, Nat))
    BY <1>1
  <1>3. \A y \in T : ~(y < x)
    BY <1>2 DEF OpToRel
  <1> QED
    BY SMT, <1>3

(* Before the first segment that ends a request there is at most one       *)
(* Expect head.                                                            *)
LEMMA OneInterim ==
  ASSUME NEW in \in Seq(Segment), NEW more \in Seq(Segment),
         OneExpect(in \o more), NEW end \in 1..(Len(in) + 1),
         \A i \in 1..(end - 1) : in[i] \in Unfinished
  PROVE  Cardinality({i \in 1..(end - 1) : in[i] = "expect"}) <= 1
  <1> DEFINE S == {i \in 1..(end - 1) : in[i] = "expect"}
  <1>0. /\ Len(in) \in Nat /\ Len(in \o more) = Len(in) + Len(more)
        /\ Len(more) \in Nat
        /\ \A i \in 1..Len(in) : (in \o more)[i] = in[i]
    BY SMT, JoinFacts
  <1>1. \A i \in 1..(end - 1) : i \in 1..Len(in) /\ i \in 1..Len(in \o more)
    BY SMT, <1>0
  <1>2. ASSUME NEW i \in S, NEW j \in S, i < j
        PROVE  FALSE
    <2>1. PICK l \in i..j : (in \o more)[l] \notin Unfinished
      BY <1>0, <1>1, <1>2 DEF OneExpect
    <2>2. l \in 1..(end - 1)
      BY SMT, <1>0
    <2> QED
      BY <2>1, <2>2, <1>0, <1>1
  <1>3. \A i, j \in S : ~(i < j) /\ ~(j < i) => i = j
    BY SMT, <1>0
  <1>4. \A i, j \in S : i = j
    BY <1>2, <1>3
  <1>5. CASE S = {}
    <2>1. Cardinality(S) = 0
      BY <1>5, FS_EmptySet
    <2> QED
      BY SMT, <2>1
  <1>6. CASE S # {}
    <2>1. PICK i : S = {i}
      BY <1>4, <1>6
    <2>2. Cardinality(S) = 1
      BY <2>1, FS_Singleton
    <2> QED
      BY SMT, <2>2
  <1> QED
    BY <1>5, <1>6

(* The parser has taken what it could: it waits for more, or for an end.   *)
Parsed(k, m) ==
  /\ \A id : Orders(k, m, id)
  /\ Len(k.c.out) < MaxOutput =>
       \A unsent \in Seq(Segment) : Tidy(k, unsent) => Tidy(m, unsent)
  /\ Listening(m.c) => /\ m.c.in = <<>> /\ m.s.rcv = k.s.rcv
                       /\ Flushed(m) \/ SameOutput(k, m)

(* The parser's progress through in_: eating a prefix keeps the bound, and *)
(* each Expect head leaves a 100 in out_.                                  *)
LEMMA DrainFacts ==
  ASSUME NEW k, Sound(k), NEW id \in Client, NEW accepts \in BOOLEAN
  PROVE  LET m == drain_requests(k, id, accepts)
         IN  /\ Keeps(k, m) /\ (m.job # k.job => accepts)
             /\ k.job = NoJob => HandedOver(k, m, id)
             /\ k.c.alive /\ ~k.c.in_flight /\ ~k.c.close_after => Parsed(k, m)
  <1> DEFINE in == k.c.in
             ends == {i \in 1..Len(in) : in[i] \notin Unfinished}
             end == IF ends = {} THEN Len(in) + 1
                    ELSE CHOOSE i \in ends : \A j \in ends : i <= j
             expects == Cardinality({i \in 1..(end - 1) : in[i] = "expect"})
             rest == SubSeq(in, end + 1, Len(in))
             spent == IF ends = {} THEN k.c.consumed + Len(in) ELSE 0
             hundreds == [i \in 1..expects |-> Continue]
             out1 == k.c.out \o hundreds
             d == [k.c EXCEPT !.in = rest, !.consumed = spent, !.out = out1]
             eaten == [k EXCEPT !.c.in = rest, !.c.consumed = spent,
                                !.c.out = out1]
             k1 == IF expects = 0 THEN eaten ELSE flush(eaten)
  <1>0. /\ k \in K /\ k.c \in ConnState /\ in \in Seq(Segment)
        /\ k.c.consumed \in Nat /\ Len(in) \in Nat /\ k.c.out \in Seq(Response)
        /\ InputBounded(k.c) /\ SocketBounded(k.s)
    BY KFields, ConnFields DEF Sound
  <1>1. CASE ~k.c.alive \/ k.c.in_flight \/ k.c.close_after
    BY <1>1 DEF drain_requests, Keeps, SameConnection, HandedOver, SameRequest
  <1>2. CASE k.c.alive /\ ~k.c.in_flight /\ ~k.c.close_after
    <2>1. ends # {} => end \in ends /\ \A j \in ends : end <= j
      <3>1. ends \subseteq Nat
        BY SMT, <1>0
      <3>2. ends # {} => \E i \in ends : \A j \in ends : i <= j
        <4> HIDE DEF ends
        <4> QED BY <3>1, LeastExists
      <3> HIDE DEF ends
      <3> QED BY <3>2
    <2>2. end \in 1..(Len(in) + 1)
      BY SMTT(30), <2>1, <1>0
    <2>3. ends # {} => in[end] \in Segment \ Unfinished
      BY <2>1, <1>0, ElementOfSeq
    <2>4. \A i \in 1..(end - 1) : in[i] \in Unfinished
      <3>1. \A i \in 1..(end - 1) : i \in 1..Len(in) /\ ~(end <= i)
        BY SMT, <2>2, <1>0
      <3>2. \A i \in 1..(end - 1) : i \notin ends
        BY <3>1, <2>1
      <3> QED
        BY <3>1, <3>2
    <2> HIDE DEF end
    <2>5. expects \in Nat
      <3>1. IsFiniteSet(1..(end - 1))
        BY SMT, <2>2, <1>0, FS_Interval
      <3>2. IsFiniteSet({i \in 1..(end - 1) : in[i] = "expect"})
        BY <3>1, FS_Subset
      <3> QED
        BY <3>2, FS_CardinalityType
    <2> HIDE DEF expects
    <2>6. out1 \in Seq(Response)
      <3>1. Continue \in Response
        BY DEF Continue, Response
      <3>2. hundreds \in Seq(Response)
        BY SMT, <3>1, <2>5
      <3> HIDE DEF hundreds
      <3> QED BY <3>2, <1>0, ConcatProperties
    <2> HIDE DEF out1
    <2>7. /\ rest \in Seq(Segment)
          /\ Len(rest) <= Len(in)
          /\ ends = {} => Len(rest) = 0
      <3>1. \A i \in (end + 1)..Len(in) : in[i] \in Segment
        BY SMT, <2>2, <1>0, ElementOfSeq
      <3>2. /\ rest \in Seq(Segment)
            /\ Len(rest) = IF end + 1 <= Len(in) THEN Len(in) - (end + 1) + 1 ELSE 0
        BY SMT, <3>1, <2>2, <1>0, SubSeqProperties
      <3>3. ends = {} => end = Len(in) + 1
        BY DEF end
      <3> HIDE DEF rest, ends
      <3> QED BY SMT, <3>2, <3>3, <2>2, <1>0
    <2>8. \E n \in Nat : Behind(n, in, rest)
      <3>1. CASE ends = {}
        <4>1. Len(rest) = 0
          BY <3>1, <2>7
        <4> HIDE DEF rest
        <4>2. Len(in) = Len(in) + Len(rest) /\ 1..Len(rest) = {}
          BY SMT, <4>1, <1>0
        <4> QED
          BY <4>2, <1>0 DEF Behind
      <3>2. CASE ends # {}
        <4>1. end \in 1..Len(in) /\ end \in Nat
          BY SMT, <3>2, <2>1, <2>2, <1>0
        <4>2. /\ Len(rest) = Len(in) - end
              /\ \A i \in 1..Len(rest) : rest[i] = in[end + i]
          BY SMTT(30), <4>1, <1>0, SubSeqProperties, ElementOfSeq
        <4> HIDE DEF rest
        <4>3. Len(in) = end + Len(rest)
          BY SMT, <4>1, <4>2, <1>0
        <4> QED
          BY <4>1, <4>2, <4>3 DEF Behind
      <3> QED
        BY <3>1, <3>2
    <2>9. Len(rest) \in Nat
      <3> HIDE DEF rest
      <3> QED BY <2>7, LenProperties
    <2>10. spent \in Nat /\ spent + Len(rest) <= MaxRequest
      <3>1. k.c.consumed + Len(in) <= MaxRequest
        BY SMT, <1>2, <1>0, ConnectionAssumption DEF InputBounded
      <3> HIDE DEF rest, ends
      <3> QED BY SMTT(30), <3>1, <2>7, <2>9, <1>0, ConnectionAssumption
    <2> HIDE DEF rest, spent
    <2>11. /\ d \in ConnState /\ SameConnection(k.c, d) /\ d.in = rest
          /\ d.consumed = spent /\ d.close_after = k.c.close_after
          /\ d.alive = k.c.alive /\ d.in_flight = k.c.in_flight
          /\ d.inflight_seq = k.c.inflight_seq /\ d.next_seq = k.c.next_seq
          /\ d.peer_eof = k.c.peer_eof /\ d.out = out1
      BY <2>6, <2>7, <2>10, <1>0 DEF ConnState, SameConnection
    <2> HIDE DEF d
    <2>12. InputBounded(d)
      BY SMT, <2>9, <2>10, <2>11, <1>2, ConnectionAssumption DEF InputBounded
    <2>13. eaten \in K /\ eaten.c = d /\ eaten.s = k.s /\ eaten.job = k.job
      <3>1. eaten = [k EXCEPT !.c = d]
        BY <1>0 DEF K, d, ConnState
      <3> QED
        BY <3>1, <2>11, <1>0 DEF K
    <2>14. Sound(eaten)
      <3> HIDE DEF eaten
      <3> QED BY <2>12, <2>13, <1>0 DEF Sound
    <2>15. /\ Sound(k1) /\ SameConnection(k.c, k1.c) /\ k1.job = k.job
           /\ SameRequest(k.c, k1.c)
      <3> HIDE DEF eaten
      <3>1. /\ Keeps(eaten, flush(eaten)) /\ flush(eaten).job = eaten.job
            /\ SameRequest(eaten.c, flush(eaten).c)
        BY <2>14, FlushKeeps
      <3> QED BY <3>1, <2>11, <2>13, <2>14 DEF Keeps, SameConnection, SameRequest
    <2>16. PICK n \in Nat : Eaten(k, eaten, n, expects)
      <3> HIDE DEF eaten
      <3>1. d.out = k.c.out \o [i \in 1..expects |-> Continue]
        BY <2>11 DEF out1
      <3>2. PICK n \in Nat : Behind(n, in, rest)
        BY <2>8
      <3>3. Eaten(k, eaten, n, expects)
        BY <3>1, <3>2, <2>5, <2>11, <2>13, <1>0, <1>2 DEF Eaten
      <3> QED
        BY <3>3
    <2>17. ASSUME NEW unsent \in Seq(Segment), Tidy(k, unsent),
                  Len(k.c.out) < MaxOutput
           PROVE  Neat(eaten, unsent)
      <3> DEFINE more == k.s.rcv \o unsent
      <3>1. k.s.rcv \in Seq(Segment)
        BY <1>0, KFields
      <3>2. \A x, y \in Seq(Segment) : x \o y \in Seq(Segment)
        BY SMT, JoinFacts
      <3>3. \A x, y, z \in Seq(Segment) : (x \o y) \o z = x \o (y \o z)
        BY SMTT(30), ConcatAssociative
      <3>4. (in \o k.s.rcv) \o unsent = in \o more /\ more \in Seq(Segment)
        <4>1. in \in Seq(Segment)
          BY <1>0
        <4>2. more \in Seq(Segment)
          BY <3>1, <3>2
        <4> QED
          BY ZenonT(30), <4>1, <4>2, <3>1, <3>3
      <3>5. OneExpect(in \o more)
        BY <3>4, <2>17, <1>2 DEF Tidy
      <3> HIDE DEF more
      <3>6. expects <= 1
        BY <3>4, <3>5, <2>2, <2>4, <1>0, OneInterim DEF expects
      <3> QED
        BY <3>6, <2>16, <2>17, EatenFacts
    <2>18. /\ Smooth(eaten, k1) /\ k1.s.rcv = k.s.rcv
           /\ k1.c.alive => k1.c.in = rest /\ ~k1.c.close_after
           /\ Flushed(k1) \/ SameOutput(k, k1)
      <3>1. CASE expects = 0
        <4>1. k1 = eaten
          BY <3>1
        <4>2. Len(eaten.c.out) <= Len(eaten.c.out)
          <5>1. Len(eaten.c.out) \in Nat
            BY <2>13, KFields, ConnFields
          <5> QED
            BY SMT, <5>1
        <4> HIDE DEF eaten, k1
        <4>3. Smooth(eaten, eaten)
          BY <4>2, <2>13, UnheardIsSmooth DEF Unheard, Moves, SamePeer
        <4>4. d.out = k.c.out
          <5>1. [i \in 1..expects |-> Continue] = <<>>
            BY SMT, <3>1
          <5> QED
            BY <5>1, <2>11, <1>0, ConcatEmptySeq DEF out1
        <4>5. SameOutput(k, eaten)
          BY <4>4, <2>13 DEF SameOutput
        <4> QED
          BY <4>1, <4>3, <4>5, <2>11, <2>13, <1>2
      <3>2. CASE expects # 0
        <4>1. k1 = flush(eaten)
          BY <3>2
        <4> HIDE DEF eaten, k1
        <4>2. /\ Smooth(eaten, k1) /\ SameInput(eaten, k1) /\ Flushed(k1)
              /\ k1.s.rcv = eaten.s.rcv
          BY <4>1, <2>14, FlushServes
        <4>3. k1.c.close_after = eaten.c.close_after \/ ~k1.c.alive
          BY <4>1, <2>14, FlushKeeps
        <4> QED
          BY <4>2, <4>3, <2>11, <2>13, <1>2 DEF SameInput
      <3> QED
        BY <3>1, <3>2
    <2>19. ~finished(k.c)
      BY <1>2 DEF finished
    <2>20. drain_requests(k, id, accepts) =
             IF ~k1.c.alive \/ ends = {} THEN k1
             ELSE CASE in[end] = "bad" -> Fail(k1, "400")
                    [] in[end] = "huge" -> Fail(k1, "413")
                    [] OTHER -> Dispatch(k1, id, in[end], accepts)
      BY <1>2 DEF drain_requests, end, expects, rest, spent, out1
    <2> HIDE DEF k1, ends
    <2>21. k1 \in K /\ SocketBounded(k1.s) /\ k1.c.consumed + Len(k1.c.in) <= MaxRequest + 1
      BY <2>15, KFields, SoundIsNearLimit DEF Sound
    <2> DEFINE m == drain_requests(k, id, accepts)
    <2>22. /\ Sound(m) /\ SameConnection(k1.c, m.c) /\ (m.job # k1.job => accepts)
           /\ k1.job = NoJob => HandedOver(k1, m, id)
      <3>1. CASE ~k1.c.alive \/ ends = {}
        BY <3>1, <2>15, <2>20 DEF SameConnection, HandedOver, SameRequest
      <3>2. CASE ~(~k1.c.alive \/ ends = {}) /\ in[end] = "bad"
        BY <3>2, <2>20, <2>21, FailFacts DEF Errors, HandedOver
      <3>3. CASE ~(~k1.c.alive \/ ends = {}) /\ in[end] = "huge"
        BY <3>3, <2>20, <2>21, FailFacts DEF Errors, HandedOver
      <3>4. CASE ~(~k1.c.alive \/ ends = {}) /\ in[end] \notin {"bad", "huge"}
        <4>1. in[end] \in Ending
          BY <3>4, <2>3 DEF Segment, Unfinished, Ending
        <4>2. m = Dispatch(k1, id, in[end], accepts)
          BY <3>4, <2>20
        <4>3. ~k1.c.in_flight
          BY <3>4, <2>15, <1>2 DEF SameRequest
        <4> QED
          BY SMT, <4>1, <4>2, <4>3, <2>15, DispatchFacts
      <3> QED
        BY <3>1, <3>2, <3>3, <3>4
    <2>23. k.job = NoJob => HandedOver(k, m, id)
      BY <2>15, <2>22 DEF HandedOver, SameRequest
    <2>24. (m = k1 /\ (~k1.c.alive \/ ends = {})) \/ Ends(k1, m)
      <3>1. CASE ~k1.c.alive \/ ends = {}
        BY <3>1, <2>20
      <3>2. CASE ~(~k1.c.alive \/ ends = {})
        <4>1. k1.c.alive /\ ~k1.c.in_flight /\ ~k1.c.close_after
          BY <3>2, <2>15, <2>18, <1>2 DEF SameRequest
        <4>2. CASE in[end] \in {"bad", "huge"}
          <5>1. PICK status \in Errors : m = Fail(k1, status)
            BY <3>2, <4>2, <2>20 DEF Errors
          <5> HIDE DEF m
          <5>2. Refuses(k1, m)
            BY <5>1, <4>1, <2>21, FailFacts
          <5> QED
            BY <5>2, <4>1 DEF Refuses, Ends, Listening
        <4>3. CASE in[end] \notin {"bad", "huge"}
          <5>1. in[end] \in Ending
            BY <3>2, <4>3, <2>3 DEF Segment, Unfinished, Ending
          <5>2. m = Dispatch(k1, id, in[end], accepts)
            BY <3>2, <4>3, <2>20
          <5> HIDE DEF m
          <5> QED
            BY <4>1, <5>1, <5>2, <2>15, DispatchFacts
        <4> QED
          BY <4>2, <4>3
      <3> QED
        BY <3>1, <3>2
    <2>25. Parsed(k, m)
      <3> HIDE DEF m, eaten
      <3>1. (\A x : Orders(k, eaten, x)) /\ (\A x : Orders(eaten, k1, x))
        BY <2>16, <2>18, EatenFacts DEF Smooth
      <3>2. \A x : Orders(k, k1, x)
        BY <3>1, OrdersTransitive
      <3>3. \A x : Orders(k, m, x)
        BY <3>2, <2>24, OrdersTransitive DEF Ends
      <3>4. \A unsent : Neat(k1, unsent) => Tidy(m, unsent)
        BY <2>21, <2>24, NeatIsTidy DEF Ends
      <3>5. \A unsent : Neat(eaten, unsent) => Neat(k1, unsent)
        BY <2>18 DEF Smooth
      <3>6. Listening(m.c) => /\ m.c.in = <<>> /\ m.s.rcv = k.s.rcv
                              /\ Flushed(m) \/ SameOutput(k, m)
        <4>1. ASSUME m = k1, k1.c.alive, ends = {}
              PROVE  m.c.in = <<>>
          <5>1. rest \in Seq(Segment) /\ Len(rest) = 0
            BY <4>1, <2>7
          <5> QED
            BY <4>1, <5>1, <2>18, EmptySeq
        <4> QED
          BY <4>1, <2>18, <2>24 DEF Ends, Listening
      <3> QED
        BY <3>3, <3>4, <3>5, <3>6, <2>17 DEF Parsed
    <2> QED
      BY <2>15, <2>19, <2>22, <2>23, <2>25 DEF Keeps, SameConnection
  <1> QED
    BY <1>0, <1>1, <1>2, ConnFields

-----------------------------------------------------------------------------
(* close_after_ rises: nothing but the room for input changes.             *)
LEMMA CloseFacts ==
  ASSUME NEW k, Sound(k)
  PROVE  LET m == [k EXCEPT !.c.close_after = TRUE]
         IN  /\ Sound(m) /\ SameConnection(k.c, m.c) /\ m.job = k.job
             /\ m.c.alive = k.c.alive /\ m.c.in_flight = k.c.in_flight
             /\ m.c.inflight_seq = k.c.inflight_seq /\ m.c.close_after
             /\ m.c.next_seq = k.c.next_seq /\ SameOutput(k, m) /\ Smooth(k, m)
  <1> DEFINE d == [k.c EXCEPT !.close_after = TRUE]
  <1>0. /\ k \in K /\ k.c \in ConnState
        /\ k.c.consumed + Len(k.c.in) <= MaxRequest + 1
    BY KFields, SoundIsNearLimit DEF Sound
  <1>1. /\ d \in ConnState /\ SameConnection(k.c, d) /\ d.in = k.c.in
        /\ d.consumed = k.c.consumed /\ d.close_after = TRUE
        /\ d.alive = k.c.alive /\ d.in_flight = k.c.in_flight
        /\ d.inflight_seq = k.c.inflight_seq /\ d.next_seq = k.c.next_seq
        /\ d.peer_eof = k.c.peer_eof /\ d.out = k.c.out
    BY <1>0 DEF ConnState, SameConnection
  <1>2. [k EXCEPT !.c.close_after = TRUE] = [k EXCEPT !.c = d]
    BY <1>0 DEF K
  <1> HIDE DEF d
  <1>3. /\ [k EXCEPT !.c = d] \in K /\ [k EXCEPT !.c = d].c = d
        /\ [k EXCEPT !.c = d].s = k.s /\ [k EXCEPT !.c = d].job = k.job
    BY <1>0, <1>1 DEF K
  <1>4. Len(k.c.out) <= Len(k.c.out)
    BY SMT, <1>0, ConnFields
  <1>5. Unheard(k, [k EXCEPT !.c = d])
    BY <1>0, <1>1, <1>3, <1>4 DEF Unheard, Moves, SamePeer, Sent
  <1> QED
    BY <1>0, <1>1, <1>2, <1>3, <1>5, UnheardIsSmooth DEF Sound, InputBounded, SameOutput

(* recv() of n segments.                                                   *)
LEMMA ReceivedFacts ==
  ASSUME NEW k \in K, NEW n \in 0..Len(k.s.rcv)
  PROVE  LET m == [k EXCEPT !.c.in = @ \o SubSeq(k.s.rcv, 1, n),
                            !.s.rcv = SubSeq(@, n + 1, Len(@))]
         IN  /\ m \in K /\ SameConnection(k.c, m.c) /\ m.job = k.job
             /\ m.s.snd = k.s.snd /\ m.c.consumed = k.c.consumed
             /\ m.c.close_after = k.c.close_after /\ SameRequest(k.c, m.c)
             /\ Len(m.c.in) = Len(k.c.in) + n
             /\ Unheard(k, m) /\ SameOutput(k, m)
             /\ m.c.alive = k.c.alive /\ m.c.in_flight = k.c.in_flight
             /\ m.c.peer_eof = k.c.peer_eof
             /\ n = Len(k.s.rcv) => m.s.rcv = <<>>
  <1> DEFINE new == SubSeq(k.s.rcv, 1, n)
             in1 == k.c.in \o new
             rcv1 == SubSeq(k.s.rcv, n + 1, Len(k.s.rcv))
             d == [k.c EXCEPT !.in = in1]
             t == [k.s EXCEPT !.rcv = rcv1]
             m == [k EXCEPT !.c.in = @ \o SubSeq(k.s.rcv, 1, n),
                            !.s.rcv = SubSeq(@, n + 1, Len(@))]
  <1>0. /\ k.c \in ConnState /\ k.s \in SockState
        /\ k.c.in \in Seq(Segment) /\ k.s.rcv \in Seq(Segment)
        /\ Len(k.s.rcv) \in Nat /\ n \in Nat /\ n <= Len(k.s.rcv)
    BY SMT, KFields, ConnFields
  <1>1. new \in Seq(Segment) /\ Len(new) = n
    BY SMT, <1>0, SubSeqProperties, ElementOfSeq
  <1>2. in1 \in Seq(Segment) /\ Len(in1) = Len(k.c.in) + n
    <2> HIDE DEF new
    <2> QED BY <1>0, <1>1, ConcatProperties
  <1>3. rcv1 \in Seq(Segment)
    BY SMT, <1>0, SubSeqProperties, ElementOfSeq
  <1>4. m = [k EXCEPT !.c = d, !.s = t]
    BY DEF K
  <1> HIDE DEF in1, rcv1, m
  <1>5. /\ d \in ConnState /\ SameConnection(k.c, d) /\ d.in = in1
        /\ d.consumed = k.c.consumed /\ d.close_after = k.c.close_after
        /\ SameRequest(k.c, d) /\ d.out = k.c.out /\ d.alive = k.c.alive
        /\ d.in_flight = k.c.in_flight /\ d.peer_eof = k.c.peer_eof
        /\ d.next_seq = k.c.next_seq /\ d.inflight_seq = k.c.inflight_seq
    BY <1>0, <1>2 DEF ConnState, SameConnection, SameRequest
  <1>6. /\ t \in SockState /\ t.snd = k.s.snd /\ t.got = k.s.got
        /\ t.rcv = rcv1 /\ t.fin = k.s.fin /\ t.gone = k.s.gone
    BY <1>0, <1>3 DEF SockState
  <1> HIDE DEF d, t
  <1>7. m \in K /\ m.c = d /\ m.s = t /\ m.job = k.job
    BY <1>4, <1>5, <1>6 DEF K
  <1>8. /\ m \in K /\ SameConnection(k.c, m.c) /\ m.job = k.job
        /\ m.s.snd = k.s.snd /\ m.c.consumed = k.c.consumed
        /\ m.c.close_after = k.c.close_after /\ SameRequest(k.c, m.c)
        /\ Len(m.c.in) = Len(k.c.in) + n
    BY <1>2, <1>5, <1>6, <1>7
  <1>9. Unheard(k, m)
    <2>1. in1 \o rcv1 = k.c.in \o k.s.rcv
      BY <1>0, CutJoins DEF in1, rcv1
    <2>2. Len(k.c.out) <= Len(k.c.out)
      BY SMT, <1>0, ConnFields
    <2> QED
      BY <2>1, <2>2, <1>5, <1>6, <1>7 DEF Unheard, Moves, SamePeer, Sent
  <1>10. /\ SameOutput(k, m) /\ m.c.alive = k.c.alive
         /\ m.c.in_flight = k.c.in_flight /\ m.c.peer_eof = k.c.peer_eof
    BY <1>5, <1>6, <1>7 DEF SameOutput
  <1>11. n = Len(k.s.rcv) => m.s.rcv = <<>>
    <2>1. n = Len(k.s.rcv) => rcv1 = <<>>
      BY SMT, <1>0, SubSeqEmpty DEF rcv1
    <2> QED
      BY <2>1, <1>6, <1>7
  <1> QED
    BY <1>8, <1>9, <1>10, <1>11 DEF m

(* What on_readable() makes of input and output.                           *)
Reads(k, m, id) ==
  /\ Serves(k, m, id)
  /\ IF want_read(k.c)
     THEN Listening(m.c) => Silent(m) /\ (Flushed(m) \/ SameOutput(k, m))
     ELSE m = k

(* A connection that wants input has room for an answer.                   *)
LEMMA ReaderIsNeat ==
  ASSUME NEW k \in K, want_read(k.c), NEW unsent, Tidy(k, unsent)
  PROVE  Neat(k, unsent)
  BY SMT, KFields, ConnFields, ConnectionAssumption DEF Neat, Tidy, want_read

(* on_readable(): only a connection that wants input hands a job over.     *)
LEMMA ReadableKeeps ==
  ASSUME NEW k, Sound(k), NEW id \in Client, NEW accepts \in BOOLEAN
  PROVE  LET m == on_readable(k, id, accepts)
         IN  /\ Keeps(k, m)
             /\ m.job # k.job => accepts /\ want_read(k.c)
             /\ k.job = NoJob => HandedOver(k, m, id)
             /\ Reads(k, m, id)
  <1> DEFINE room == MaxRequest - (k.c.consumed + Len(k.c.in))
             Received(n) == [k EXCEPT !.c.in = @ \o SubSeq(k.s.rcv, 1, n),
                                      !.s.rcv = SubSeq(@, n + 1, Len(@))]
             m == on_readable(k, id, accepts)
  <1>0. /\ k \in K /\ k.c \in ConnState /\ k.s \in SockState
        /\ k.s.rcv \in Seq(Segment) /\ Len(k.s.rcv) \in Nat
        /\ k.c.consumed \in Nat /\ Len(k.c.in) \in Nat
        /\ InputBounded(k.c) /\ SocketBounded(k.s)
        /\ k.s.fin \in BOOLEAN /\ k.s.gone \in {"no", "hup", "err"}
    BY KFields, ConnFields DEF Sound, SockState
  <1>1. CASE ~want_read(k.c)
    <2>1. m = k
      BY <1>1 DEF on_readable
    <2>2. Reads(k, k, id)
      BY <1>1 DEF Reads, Serves, Proceeds
    <2> QED
      BY <2>1, <2>2 DEF Keeps, SameConnection, HandedOver, SameRequest
  <1>2. CASE want_read(k.c)
    <2>1. /\ ~k.c.close_after /\ ~finished(k.c) /\ k.c.alive
          /\ ~k.c.in_flight /\ ~k.c.peer_eof /\ Len(k.c.out) < MaxOutput
          /\ \A unsent : Tidy(k, unsent) => Neat(k, unsent)
      BY <1>0, <1>2, ReaderIsNeat DEF want_read, finished
    <2>2. room \in Nat /\ k.c.consumed + Len(k.c.in) + room = MaxRequest
      BY SMTT(30), <2>1, <1>0, ConnectionAssumption DEF InputBounded
    <2> HIDE DEF room
    <2>3. ASSUME NEW n \in 0..Len(k.s.rcv), n <= room + 1
          PROVE  /\ Received(n) \in K /\ SameConnection(k.c, Received(n).c)
                 /\ Received(n).job = k.job /\ SocketBounded(Received(n).s)
                 /\ Received(n).c.consumed + Len(Received(n).c.in) <= MaxRequest + 1
                 /\ n <= room => InputBounded(Received(n).c)
                 /\ SameRequest(k.c, Received(n).c)
                 /\ Smooth(k, Received(n)) /\ SameOutput(k, Received(n))
                 /\ Received(n).c.alive /\ ~Received(n).c.in_flight
                 /\ ~Received(n).c.close_after /\ ~Received(n).c.peer_eof
                 /\ Received(n).s.fin = k.s.fin /\ Received(n).s.gone = k.s.gone
                 /\ n = Len(k.s.rcv) => Received(n).s.rcv = <<>>
      <3>1. LET r == Received(n)
            IN  /\ r \in K /\ SameConnection(k.c, r.c) /\ r.job = k.job
                /\ r.s.snd = k.s.snd /\ r.c.consumed = k.c.consumed
                /\ r.c.close_after = k.c.close_after /\ SameRequest(k.c, r.c)
                /\ Len(r.c.in) = Len(k.c.in) + n
        BY <1>0, ReceivedFacts
      <3>2. LET r == Received(n)
            IN  /\ Unheard(k, r) /\ SameOutput(k, r)
                /\ r.c.alive = k.c.alive /\ r.c.in_flight = k.c.in_flight
                /\ r.c.peer_eof = k.c.peer_eof /\ r.c.close_after = k.c.close_after
                /\ n = Len(k.s.rcv) => r.s.rcv = <<>>
        BY <1>0, ReceivedFacts
      <3> HIDE DEF Received
      <3>3. SocketBounded(Received(n).s)
        BY <3>1, <1>0 DEF SocketBounded
      <3>4. Received(n).c.consumed + Len(Received(n).c.in)
              = k.c.consumed + Len(k.c.in) + n
        BY SMTT(30), <3>1, <1>0
      <3>5. ~Received(n).c.close_after
        BY <3>1, <2>1
      <3>6. /\ Received(n).c.consumed + Len(Received(n).c.in) <= MaxRequest + 1
            /\ n <= room => InputBounded(Received(n).c)
        BY SMTT(30), <3>1, <3>4, <3>5, <2>2, <2>3, <1>0, ConnectionAssumption
           DEF InputBounded
      <3>7. Smooth(k, Received(n))
        BY <3>2, UnheardIsSmooth
      <3>8. Received(n).s.fin = k.s.fin /\ Received(n).s.gone = k.s.gone
        BY <3>2 DEF Unheard, SamePeer
      <3> QED
        BY <3>1, <3>3, <3>2, <3>6, <3>7, <3>8, <2>1
    <2>4. CASE Len(k.s.rcv) > room
      <3>1. m = Fail(Received(room + 1), "413")
        BY <1>2, <2>4 DEF on_readable, room
      <3>2. room + 1 \in 0..Len(k.s.rcv)
        BY SMT, <2>2, <2>4, <1>0
      <3>3. LET r == Received(room + 1)
            IN  /\ r \in K /\ SameConnection(k.c, r.c) /\ r.job = k.job
                /\ SocketBounded(r.s) /\ SameRequest(k.c, r.c)
                /\ r.c.consumed + Len(r.c.in) <= MaxRequest + 1
                /\ Smooth(k, r) /\ r.c.alive /\ ~r.c.in_flight /\ ~r.c.close_after
        <4>1. room + 1 <= room + 1
          BY SMT, <2>2
        <4> HIDE DEF Received
        <4> QED BY <4>1, <3>2, <2>3
      <3> HIDE DEF Received, m
      <3>4. /\ Sound(m) /\ SameConnection(Received(room + 1).c, m.c)
            /\ m.job = Received(room + 1).job
            /\ SameRequest(Received(room + 1).c, m.c)
            /\ Refuses(Received(room + 1), m)
        BY <3>1, <3>3, FailFacts DEF Errors
      <3>5. Keeps(k, m) /\ m.job = k.job /\ SameRequest(k.c, m.c)
        BY <3>3, <3>4, <2>1 DEF Keeps, SameConnection, SameRequest
      <3>6. Reads(k, m, id)
        <4> DEFINE r == Received(room + 1)
        <4>1. Orders(k, r, id) /\ Orders(r, m, id) /\ ~Listening(m.c)
          BY <3>3, <3>4 DEF Smooth, Refuses, Listening
        <4>2. \A unsent : Tidy(k, unsent) => Tidy(m, unsent)
          BY <3>3, <3>4, <2>1 DEF Smooth, Refuses
        <4> HIDE DEF r
        <4>3. Serves(k, m, id)
          BY <4>1, <4>2, OrdersTransitive, ServesParts
        <4> QED
          BY <4>1, <4>3, <1>2 DEF Reads
      <3> QED
        BY <3>5, <3>6 DEF m, HandedOver
    <2>5. CASE ~(Len(k.s.rcv) > room)
      <3> DEFINE all == Received(Len(k.s.rcv))
      <3>1. /\ all \in K /\ SameConnection(k.c, all.c) /\ all.job = k.job
            /\ SocketBounded(all.s) /\ InputBounded(all.c)
            /\ SameRequest(k.c, all.c) /\ Smooth(k, all) /\ SameOutput(k, all)
            /\ all.c.alive /\ ~all.c.in_flight /\ ~all.c.close_after
            /\ ~all.c.peer_eof /\ all.s.fin = k.s.fin /\ all.s.gone = k.s.gone
            /\ all.s.rcv = <<>>
        <4>1. /\ Len(k.s.rcv) \in 0..Len(k.s.rcv) /\ Len(k.s.rcv) <= room
              /\ Len(k.s.rcv) <= room + 1
          BY SMT, <2>2, <2>5, <1>0
        <4> HIDE DEF Received
        <4> QED BY <4>1, <2>3
      <3>2. CASE k.s.gone = "err"
        <4>1. m = [all EXCEPT !.c = kill(all.c)]
          BY <1>2, <2>5, <3>2 DEF on_readable, room
        <4> HIDE DEF all, m
        <4>2. /\ kill(all.c) \in ConnState /\ InputBounded(kill(all.c))
              /\ SameConnection(all.c, kill(all.c)) /\ kill(all.c).alive = FALSE
              /\ kill(all.c).out = <<>>
          BY <3>1, KFields, KillFacts
        <4>3. m \in K /\ m.c = kill(all.c) /\ m.s = all.s /\ m.job = all.job
          BY <3>1, <4>1, <4>2 DEF K
        <4>4. Keeps(k, m) /\ m.job = k.job /\ SameRequest(k.c, m.c)
          BY <3>1, <4>2, <4>3, <2>1 DEF Keeps, Sound, SameConnection, SameRequest
        <4>5. Killed(all, m)
          BY <3>1, <4>2, <4>3 DEF Killed
        <4>6. /\ Orders(all, m, id) /\ Orders(k, all, id)
              /\ \A unsent : Tidy(m, unsent)
          BY <3>1, <3>2, <4>5, KilledFacts DEF Smooth
        <4>7. Serves(k, m, id)
          BY <4>6, OrdersTransitive, ServesParts
        <4>8. Reads(k, m, id)
          BY <4>2, <4>3, <4>7, <1>2 DEF Reads, Listening
        <4> QED
          BY <4>4, <4>8 DEF m, HandedOver
      <3>3. CASE k.s.gone # "err"
        <4> DEFINE eof == k.s.fin \/ k.s.gone = "hup"
                   r == [all EXCEPT !.c.peer_eof = eof]
                   k1 == drain_requests(r, id, accepts)
        <4>1. m = IF k1.c.peer_eof /\ ~k1.c.in_flight /\ k1.c.out = <<>>
                  THEN [k1 EXCEPT !.c.close_after = TRUE] ELSE k1
          BY <1>2, <2>5, <3>3 DEF on_readable, room
        <4>2. eof \in BOOLEAN
          BY <1>0
        <4> HIDE DEF all, m, eof
        <4> DEFINE d == [all.c EXCEPT !.peer_eof = eof]
        <4>3. /\ d \in ConnState /\ SameConnection(all.c, d) /\ d.in = all.c.in
              /\ d.consumed = all.c.consumed /\ d.close_after = all.c.close_after
              /\ SameRequest(all.c, d) /\ d.out = all.c.out /\ d.peer_eof = eof
              /\ d.alive = all.c.alive /\ d.in_flight = all.c.in_flight
              /\ d.next_seq = all.c.next_seq /\ d.inflight_seq = all.c.inflight_seq
          BY ZenonT(30), <3>1, <4>2, KFields DEF ConnState, SameConnection, SameRequest
        <4>4. r = [all EXCEPT !.c = d]
          BY <3>1 DEF K
        <4> HIDE DEF d
        <4>5. r \in K /\ r.c = d /\ r.s = all.s /\ r.job = all.job
          <5> HIDE DEF r
          <5> QED BY <3>1, <4>3, <4>4 DEF K
        <4> HIDE DEF r
        <4>6. Sound(r)
          BY <3>1, <4>3, <4>5 DEF Sound, InputBounded
        <4>7. /\ Keeps(r, k1) /\ (k1.job # r.job => accepts)
              /\ r.job = NoJob => HandedOver(r, k1, id)
              /\ Parsed(r, k1)
          BY <3>1, <4>3, <4>5, <4>6, DrainFacts
        <4> HIDE DEF k1
        <4>8. /\ Sound(k1) /\ SameConnection(k.c, k1.c) /\ (k1.job # k.job => accepts)
              /\ k.job = NoJob => HandedOver(k, k1, id)
          BY <3>1, <4>3, <4>5, <4>7 DEF Keeps, SameConnection, HandedOver, SameRequest
        <4>9. LET z == [k1 EXCEPT !.c.close_after = TRUE]
              IN  /\ Sound(z) /\ SameConnection(k1.c, z.c) /\ z.job = k1.job
                  /\ z.c.alive = k1.c.alive /\ z.c.in_flight = k1.c.in_flight
                  /\ z.c.inflight_seq = k1.c.inflight_seq /\ z.c.close_after
                  /\ Smooth(k1, z)
          BY <4>8, CloseFacts
        <4>10. Sound(m) /\ SameConnection(k.c, m.c) /\ (m.job # k.job => accepts)
          BY <4>1, <4>8, <4>9 DEF SameConnection
        <4>11. Keeps(k, m) /\ (m.job # k.job => accepts)
          BY <4>10, <2>1 DEF Keeps
        <4>12. k.job = NoJob => HandedOver(k, m, id)
          BY <4>1, <4>8, <4>9 DEF HandedOver, SameRequest
        <4>13. Smooth(k, r)
          <5>1. Len(all.c.out) <= Len(all.c.out)
            <6>1. Len(all.c.out) \in Nat
              BY <3>1, KFields, ConnFields
            <6> QED
              BY SMT, <6>1
          <5>2. Unheard(all, r)
            BY <3>1, <4>3, <4>5, <5>1 DEF Unheard, Moves, SamePeer, Sent
          <5> QED
            BY <3>1, <5>2, UnheardIsSmooth, SmoothTransitive
        <4>14. /\ m = k1 \/ (Smooth(k1, m) /\ m.c.close_after)
               /\ Smooth(k1, m)
          <5>1. Smooth(k1, k1)
            BY DEF Smooth, Orders, Proceeds
          <5> QED
            BY <4>1, <4>9, <5>1
        <4>15. Len(r.c.out) < MaxOutput
          BY <3>1, <4>3, <4>5, <2>1 DEF SameOutput
        <4>16. Serves(k, m, id)
          <5>1. Orders(k, r, id) /\ Orders(r, k1, id) /\ Orders(k1, m, id)
            BY <4>7, <4>13, <4>14 DEF Smooth, Parsed
          <5>2. \A unsent \in Seq(Segment) : Tidy(k, unsent) => Tidy(m, unsent)
            BY <4>7, <4>13, <4>14, <4>15 DEF Smooth, Parsed
          <5> QED
            BY <5>1, <5>2, OrdersTransitive, ServesParts
        <4>17. ASSUME Listening(m.c)
               PROVE  Silent(m) /\ (Flushed(m) \/ SameOutput(k, m))
          <5>1. m = k1
            BY <4>14, <4>17 DEF Listening
          <5>2. /\ m.c.in = <<>> /\ m.s.rcv = r.s.rcv
                /\ Flushed(m) \/ SameOutput(r, m)
            BY <4>7, <4>17, <5>1 DEF Parsed
          <5>3. ~r.c.peer_eof
            <6>1. m.c.alive /\ ~m.c.peer_eof /\ Proceeds(r, m)
              BY <4>7, <4>17, <5>1 DEF Listening, Parsed, Orders
            <6> QED
              BY <6>1 DEF Proceeds
          <5>4. ~k.s.fin /\ k.s.gone = "no"
            BY <5>3, <4>3, <4>5, <3>3, <1>0 DEF eof
          <5>5. m.s.fin = k.s.fin /\ m.s.gone = k.s.gone
            BY <4>16 DEF Serves, Proceeds
          <5>6. SameOutput(r, m) => SameOutput(k, m)
            BY <3>1, <4>3, <4>5 DEF SameOutput
          <5> QED
            BY <5>2, <5>4, <5>5, <5>6, <3>1, <4>5 DEF Silent
        <4>18. Reads(k, m, id)
          BY <4>16, <4>17, <1>2 DEF Reads
        <4> QED
          BY <4>11, <4>12, <4>18, <1>2 DEF m
      <3> QED
        BY <3>2, <3>3
    <2> QED
      BY <2>4, <2>5
  <1> QED
    BY <1>1, <1>2

(* on_worker_result(): a result nobody waits for changes nothing.          *)
LEMMA ResultKeeps ==
  ASSUME NEW k, Sound(k), NEW r \in Response, NEW seq \in Nat
  PROVE  LET m == on_worker_result(k, r, seq)
         IN  /\ Keeps(k, m) /\ m.job = k.job
             /\ m.c.alive => k.c.alive
                              /\ (k.c.in_flight /\ seq = k.c.inflight_seq
                                    => ~m.c.in_flight)
             /\ \A id : Answering(r, id, seq) => Serves(k, m, id)
             /\ SameInput(k, m) /\ (Flushed(m) \/ SameOutput(k, m))
  <1> DEFINE c1 == [k.c EXCEPT !.in_flight = FALSE]
             d == queue_response(c1, r)
             q == [k EXCEPT !.c = d]
  <1>0. k \in K /\ k.c \in ConnState /\ InputBounded(k.c)
    BY KFields DEF Sound
  <1>1. CASE ~k.c.alive \/ ~k.c.in_flight \/ seq # k.c.inflight_seq
    <2>1. on_worker_result(k, r, seq) = k
      BY <1>1 DEF on_worker_result
    <2>2. \A id : Serves(k, k, id)
      BY DEF Serves, Proceeds
    <2>3. SameInput(k, k) /\ SameOutput(k, k)
      BY DEF SameInput, SameOutput
    <2> QED
      BY <1>1, <2>1, <2>2, <2>3 DEF Keeps, SameConnection
  <1>2. CASE ~(~k.c.alive \/ ~k.c.in_flight \/ seq # k.c.inflight_seq)
    <2>1. on_worker_result(k, r, seq) = flush(q)
      BY <1>2, <1>0 DEF on_worker_result, K
    <2>2. /\ c1 \in ConnState /\ SameConnection(k.c, c1) /\ c1.in = k.c.in
          /\ c1.consumed = k.c.consumed /\ c1.close_after = k.c.close_after
          /\ ~c1.in_flight /\ c1.alive = k.c.alive /\ c1.out = k.c.out
          /\ c1.next_seq = k.c.next_seq /\ c1.peer_eof = k.c.peer_eof
      BY <1>0 DEF ConnState, SameConnection
    <2>3. /\ d \in ConnState /\ SameConnection(c1, d) /\ d.in = c1.in
          /\ d.consumed = c1.consumed /\ d.close_after = (c1.close_after \/ r.close)
          /\ d.in_flight = c1.in_flight /\ d.alive = c1.alive
          /\ d.next_seq = c1.next_seq /\ d.peer_eof = c1.peer_eof
      <3> HIDE DEF c1
      <3> QED BY <2>2, QueueFacts
    <2>4. PICK x \in Response : /\ d.out = Append(k.c.out, x) /\ x.of = r.of
                               /\ x.status = r.status /\ x.close = r.close
      <3> HIDE DEF c1
      <3>1. \E x \in Response : /\ d.out = Append(c1.out, x) /\ x.of = r.of
                                /\ x.status = r.status /\ x.close = r.close
        BY <2>2, QueueFacts
      <3> HIDE DEF d
      <3> QED
        BY <3>1, <2>2
    <2> HIDE DEF d, c1
    <2>5. InputBounded(d)
      BY SMT, <2>2, <2>3, <1>0, ConnFields, ConnectionAssumption DEF InputBounded
    <2>6. q \in K /\ q.c = d /\ q.s = k.s /\ q.job = k.job
      BY <2>3, <1>0 DEF K
    <2> HIDE DEF q
    <2>7. Sound(q)
      BY <2>5, <2>6 DEF Sound
    <2>8. /\ Keeps(q, flush(q)) /\ flush(q).job = q.job
          /\ SameRequest(q.c, flush(q).c)
      BY <2>7, FlushKeeps
    <2>9. ~finished(k.c)
      BY <1>2 DEF finished
    <2> DEFINE m == flush(q)
    <2>10. /\ Keeps(k, m) /\ m.job = k.job
           /\ m.c.alive => k.c.alive /\ ~m.c.in_flight
      BY SMTT(30), <1>2, <2>2, <2>3, <2>6, <2>8, <2>9
         DEF Keeps, SameConnection, SameRequest
    <2>11. Smooth(q, m) /\ SameInput(q, m) /\ Flushed(m)
      BY <2>7, FlushServes
    <2> HIDE DEF m
    <2>12. SameInput(k, m)
      BY <2>2, <2>3, <2>6, <2>11 DEF SameInput
    <2>13. ASSUME NEW id, Answering(r, id, seq) PROVE Serves(k, m, id)
      <3>1. Replies(k, q, x)
        BY <1>0, <1>2, <2>2, <2>3, <2>6, <2>4, <2>13 DEF Replies, Answering, Final
      <3>2. Due(k, x, id)
        BY <1>2, <2>4, <2>13 DEF Due, Answering
      <3>3. Orders(k, q, id) /\ \A unsent : Neat(k, unsent) => Tidy(q, unsent)
        BY <3>1, <3>2, AnswerFacts
      <3>4. Orders(k, m, id)
        BY <3>3, <2>11, OrdersTransitive DEF Smooth
      <3>5. \A unsent : Tidy(k, unsent) => Neat(k, unsent)
        BY <1>0, <1>2, TidyInFlight
      <3>6. \A unsent : Tidy(k, unsent) => Tidy(m, unsent)
        BY <3>3, <3>5, <2>11 DEF Smooth
      <3> QED
        BY <3>4, <3>6, ServesParts
    <2> QED
      BY <2>1, <2>10, <2>11, <2>12, <2>13 DEF m
  <1> QED
    BY <1>1, <1>2

(* on_hangup(): an error kills, a hangup drains what was received first.   *)
LEMMA HangupKeeps ==
  ASSUME NEW k, Sound(k), NEW events
  PROVE  LET m == on_hangup(k, events)
         IN  /\ Keeps(k, m) /\ m.job = k.job /\ SameRequest(k.c, m.c)
             /\ ("err" \in events => k.s.gone # "no") => \A id : Serves(k, m, id)
             /\ Flushed(m)
             /\ m.c.alive => "err" \notin events /\ m.c.close_after /\ m.c.peer_eof
  <1>0. /\ k \in K /\ k.c \in ConnState /\ InputBounded(k.c)
        /\ k.c.consumed + Len(k.c.in) <= MaxRequest + 1
    BY KFields, SoundIsNearLimit DEF Sound
  <1>1. CASE "err" \in events
    <2>1. on_hangup(k, events) = [k EXCEPT !.c = kill(k.c)]
      BY <1>1, <1>0 DEF on_hangup, K
    <2>2. /\ kill(k.c) \in ConnState /\ InputBounded(kill(k.c))
          /\ SameConnection(k.c, kill(k.c)) /\ finished(kill(k.c))
          /\ kill(k.c).alive = FALSE /\ kill(k.c).out = <<>>
      BY <1>0, KillFacts
    <2> DEFINE m == [k EXCEPT !.c = kill(k.c)]
    <2>3. m \in K /\ m.c = kill(k.c) /\ m.s = k.s /\ m.job = k.job
      BY <2>2, <1>0 DEF K
    <2>4. k.s.gone # "no" => \A id : Serves(k, m, id)
      <3>1. Killed(k, m)
        BY <2>2, <2>3, <1>0 DEF Killed
      <3> HIDE DEF m
      <3> QED
        BY <3>1, KilledFacts, ServesParts
    <2>5. Flushed(m)
      BY <2>2, <2>3 DEF Flushed
    <2> QED
      BY <1>1, <2>1, <2>2, <2>3, <2>4, <2>5 DEF Keeps, Sound, SameRequest
  <1>2. CASE "err" \notin events
    <2> DEFINE d == [k.c EXCEPT !.peer_eof = TRUE, !.close_after = TRUE]
               q == [k EXCEPT !.c = d]
    <2>1. on_hangup(k, events) = flush(q)
      BY <1>2, <1>0 DEF on_hangup, K
    <2>2. /\ d \in ConnState /\ SameConnection(k.c, d) /\ d.in = k.c.in
          /\ d.consumed = k.c.consumed /\ d.close_after = TRUE
          /\ d.alive = k.c.alive /\ d.out = k.c.out
          /\ d.in_flight = k.c.in_flight /\ d.inflight_seq = k.c.inflight_seq
          /\ d.next_seq = k.c.next_seq /\ d.peer_eof = TRUE
      BY <1>0 DEF ConnState, SameConnection
    <2> HIDE DEF d
    <2>3. InputBounded(d) /\ (finished(k.c) => finished(d))
      BY <2>2, <1>0 DEF InputBounded, finished
    <2>4. q \in K /\ q.c = d /\ q.s = k.s /\ q.job = k.job
      BY <2>2, <1>0 DEF K
    <2> HIDE DEF q
    <2>5. Sound(q)
      BY <2>3, <2>4 DEF Sound
    <2>6. /\ Keeps(q, flush(q)) /\ flush(q).job = q.job
          /\ SameRequest(q.c, flush(q).c)
          /\ flush(q).c.close_after = q.c.close_after \/ ~flush(q).c.alive
      BY <2>5, FlushKeeps
    <2> DEFINE m == flush(q)
    <2>7. Smooth(q, m) /\ Flushed(m) /\ m.c.peer_eof = q.c.peer_eof
      BY <2>5, FlushServes
    <2>8. Smooth(k, q)
      <3>1. Len(k.c.out) <= Len(k.c.out)
        BY SMT, <1>0, ConnFields
      <3> QED
        BY <3>1, <1>0, <2>2, <2>4, UnheardIsSmooth DEF Unheard, Moves, SamePeer, Sent
    <2> HIDE DEF m
    <2>9. \A id : Serves(k, m, id)
      BY <2>7, <2>8, SmoothTransitive, SmoothServes
    <2>10. m.c.alive => m.c.close_after /\ m.c.peer_eof
      BY <2>2, <2>4, <2>6, <2>7 DEF m
    <2>11. Keeps(k, m) /\ m.job = k.job /\ SameRequest(k.c, m.c)
      BY <2>2, <2>3, <2>4, <2>6 DEF Keeps, SameConnection, SameRequest, m
    <2> QED
      BY <1>2, <2>1, <2>7, <2>9, <2>10, <2>11 DEF m
  <1> QED
    BY <1>1, <1>2

(* What on_tick() makes of the output.                                     *)
Ticks(k, m) ==
  /\ m.c.next_seq = k.c.next_seq
  /\ Proceeds(k, m)
  /\ (finished(k.c) => k.c.draining) =>
       \A id : Orderly(k, id) => Orderly(m, id)
  /\ finished(k.c) /\ k.c.draining => finished(m.c)
  /\ \A unsent : Tidy(k, unsent) => Tidy(m, unsent)
  /\ k.c.alive /\ ~m.c.alive => k.s.gone # "no" \/ k.c.out # <<>>
  /\ m = k \/ m.c.close_after
  /\ IdleTimeout \/ (SameOutput(k, m) /\ m.c.alive = k.c.alive)

(* on_tick(): sound, whatever the clock says.                              *)
LEMMA TickFacts ==
  ASSUME NEW k, Sound(k), NEW idle \in BOOLEAN
  PROVE  LET m == on_tick(k, idle)
         IN  /\ Sound(m) /\ SameConnection(k.c, m.c) /\ SameRequest(k.c, m.c)
             /\ Ticks(k, m)
  <1> DEFINE m == on_tick(k, idle)
  <1>0. /\ k \in K /\ k.c \in ConnState /\ InputBounded(k.c)
        /\ SocketBounded(k.s) /\ k.c.consumed + Len(k.c.in) <= MaxRequest + 1
    BY KFields, SoundIsNearLimit DEF Sound
  <1>1. CASE m = k
    <2>1. Ticks(k, k)
      BY DEF Ticks, Proceeds, SameOutput
    <2> QED
      BY <1>1, <2>1 DEF SameConnection, SameRequest
  <1>2. CASE m = [k EXCEPT !.c.close_after = TRUE]
    <2> HIDE DEF m
    <2>1. /\ Sound(m) /\ SameConnection(k.c, m.c) /\ SameRequest(k.c, m.c)
          /\ m.c.alive = k.c.alive /\ m.c.close_after
          /\ m.c.next_seq = k.c.next_seq /\ SameOutput(k, m) /\ Smooth(k, m)
      BY <1>2, CloseFacts DEF SameRequest
    <2>2. finished(k.c) => finished(m.c)
      BY <2>1 DEF finished, SameRequest, SameOutput
    <2>3. Ticks(k, m)
      BY <2>1, <2>2 DEF Ticks, Smooth, Orders
    <2> QED
      BY <2>1, <2>3 DEF m
  <1>3. CASE m = [k EXCEPT !.c = kill(k.c)] /\ k.c.out # <<>> /\ IdleTimeout
    <2>1. /\ kill(k.c) \in ConnState /\ InputBounded(kill(k.c))
          /\ SameConnection(k.c, kill(k.c)) /\ kill(k.c).alive = FALSE
          /\ kill(k.c).out = <<>>
      BY <1>0, KillFacts
    <2>2. kill(k.c).close_after = TRUE /\ kill(k.c).next_seq = k.c.next_seq
      BY <1>0 DEF kill, ConnState
    <2> HIDE DEF m
    <2>3. m \in K /\ m.c = kill(k.c) /\ m.s = k.s
      BY <1>3, <2>1, <1>0 DEF K
    <2>4. Killed(k, m)
      BY <2>1, <2>3, <1>0 DEF Killed
    <2>5. Ticks(k, m)
      BY <1>3, <2>1, <2>2, <2>3, <2>4, KilledFacts DEF Ticks, finished
    <2>6. Sound(m) /\ SameConnection(k.c, m.c) /\ SameRequest(k.c, m.c)
      BY <1>0, <2>1, <2>3 DEF Sound, SameRequest
    <2> QED
      BY <2>5, <2>6 DEF m
  <1>4. CASE /\ m = Fail(k, "408") /\ IdleTimeout /\ k.c.alive
             /\ ~k.c.in_flight /\ k.c.out = <<>> /\ ~k.c.draining
    <2> HIDE DEF m
    <2>1. /\ Sound(m) /\ SameConnection(k.c, m.c) /\ SameRequest(k.c, m.c)
          /\ Refuses(k, m)
      BY <1>4, <1>0, FailFacts DEF Errors
    <2>2. \A unsent : Tidy(k, unsent) => Neat(k, unsent)
      <3>1. Len(k.c.out) <= MaxOutput
        BY SMT, <1>4, ConnectionAssumption
      <3> QED
        BY <3>1 DEF Tidy, Neat
    <2>3. (finished(k.c) => k.c.draining) => ~k.c.close_after
      BY <1>4 DEF finished
    <2>4. m.c.close_after
      <3>1. PICK d \in ConnState : d.close_after = TRUE /\ m = flush([k EXCEPT !.c = d])
        BY <1>4, <1>0, ErrorFacts DEF Fail, Errors, K
      <3> QED
        BY <3>1, <1>0 DEF flush, kill, K, ConnState
    <2>5. Ticks(k, m)
      BY <1>4, <2>1, <2>2, <2>3, <2>4 DEF Ticks, Refuses, Orders
    <2> QED
      BY <2>1, <2>5 DEF m
  <1>5. \/ m = k \/ m = [k EXCEPT !.c.close_after = TRUE]
        \/ m = [k EXCEPT !.c = kill(k.c)] /\ k.c.out # <<>> /\ IdleTimeout
        \/ /\ m = Fail(k, "408") /\ IdleTimeout /\ k.c.alive
           /\ ~k.c.in_flight /\ k.c.out = <<>> /\ ~k.c.draining
    BY <1>0, ConnFields DEF on_tick, K
  <1> QED
    BY <1>1, <1>2, <1>3, <1>4, <1>5

(* begin_draining() sets the flag and never un-finishes a connection.      *)
LEMMA BeginDrainingFacts ==
  ASSUME NEW c \in ConnState, InputBounded(c)
  PROVE  LET d == begin_draining(c)
         IN  /\ d \in ConnState /\ InputBounded(d)
             /\ d.fd = c.fd /\ d.applied_mask = c.applied_mask /\ d.draining = TRUE
             /\ finished(c) => finished(d)
             /\ SameRequest(c, d)
             /\ \A k \in K : \A id : k.c = c => Serves(k, [k EXCEPT !.c = d], id)
             /\ d.out = c.out /\ d.peer_eof = c.peer_eof /\ d.alive = c.alive
  <1> DEFINE b == c.close_after \/ (~c.in_flight /\ c.out = <<>>)
  <1>1. b \in BOOLEAN /\ c.close_after \in BOOLEAN
    BY ConnFields
  <1>2. begin_draining(c) = [c EXCEPT !.draining = TRUE, !.close_after = b]
    BY DEF begin_draining, ConnState
  <1>3. c.close_after => b
    OBVIOUS
  <1> HIDE DEF b
  <1>4. LET d == begin_draining(c)
        IN  /\ d \in ConnState /\ d.in = c.in /\ d.consumed = c.consumed
            /\ d.fd = c.fd /\ d.applied_mask = c.applied_mask
            /\ d.draining = TRUE /\ d.close_after = b /\ d.alive = c.alive
            /\ d.out = c.out /\ d.in_flight = c.in_flight
            /\ d.inflight_seq = c.inflight_seq /\ d.next_seq = c.next_seq
            /\ d.peer_eof = c.peer_eof
    BY <1>1, <1>2 DEF ConnState
  <1>5. InputBounded(begin_draining(c))
    BY SMT, <1>1, <1>3, <1>4, ConnFields, ConnectionAssumption DEF InputBounded
  <1>6. finished(c) => finished(begin_draining(c))
    BY <1>3, <1>4 DEF finished
  <1>7. SameRequest(c, begin_draining(c))
    BY <1>4 DEF SameRequest
  <1>8. ASSUME NEW k \in K, NEW id, k.c = c
        PROVE  Serves(k, [k EXCEPT !.c = begin_draining(c)], id)
    <2> DEFINE m == [k EXCEPT !.c = begin_draining(c)]
    <2>1. m \in K /\ m.c = begin_draining(c) /\ m.s = k.s
      BY <1>4 DEF K
    <2>2. Len(c.out) <= Len(c.out)
      BY SMT, ConnFields
    <2> HIDE DEF m
    <2>3. Unheard(k, m)
      BY <1>3, <1>4, <1>8, <2>1, <2>2 DEF Unheard, Moves, SamePeer, Sent
    <2>4. Serves(k, m, id)
      BY <2>3, UnheardIsSmooth, SmoothServes
    <2> QED
      BY <2>4 DEF m
  <1> QED
    BY <1>4, <1>5, <1>6, <1>7, <1>8

(* Every method of Connection keeps its part of the contract.              *)
THEOREM ConnectionMeetsContract == Contract
  <1>1. ReadableContract
    BY ZenonT(60), ReadableKeeps DEF ReadableContract, Reads
  <1>2. WritableContract
    BY FlushKeeps, FlushServes, SmoothServes DEF WritableContract, on_writable
  <1>3. HangupContract
    BY HangupKeeps DEF HangupContract
  <1>4. ResultContract
    BY ZenonT(60), ResultKeeps DEF ResultContract
  <1>5. TickContract
    BY ZenonT(60), TickFacts DEF TickContract, Ticks
  <1>6. DrainingContract
    BY BeginDrainingFacts DEF DrainingContract
  <1>7. CountContract
    <2>1. {i \in 1..0 : Final(<<>>[i])} = {}
      BY SMT
    <2>2. FinalsTo(<<>>, 0) = 0
      BY <2>1, FS_EmptySet DEF FinalsTo
    <2>3. \A all \in Seq(Response) : Len(all) \in Nat
      BY SMT
    <2> QED
      BY <2>2, <2>3, FinalsType DEF CountContract
  <1> QED
    BY <1>1, <1>2, <1>3, <1>4, <1>5, <1>6, <1>7 DEF Contract
=============================================================================
