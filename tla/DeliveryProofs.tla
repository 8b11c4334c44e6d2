--------------------------- MODULE DeliveryProofs ---------------------------
(***************************************************************************)
(* TLAPS proofs about Delivery and its parts.                              *)
(* First the byte buffer, for any content, cursor and amount, and the      *)
(* start of the process, for any width of size_t, any limits and defaults  *)
(* and any set of command lines.                                           *)
(* Then the whole: for any command line and script, any width of size_t,   *)
(* any limits and any room in the socket, the server's word to the client  *)
(* about bodies and persistence is kept, its output buffer is bounded, and *)
(* the client reads the responses that were queued.                        *)
(***************************************************************************)
EXTENDS Delivery, TLAPS

(* The leaves are Zenon's; those that need arithmetic or sequences are     *)
(* SMT's, and say so.                                                      *)
USE Zenon

(* Sequences with the same length and elements are the same.               *)
LEMMA SameSequence ==
  ASSUME NEW S, NEW s \in Seq(S), NEW t \in Seq(S),
         Len(s) = Len(t), \A i \in 1..Len(s) : s[i] = t[i]
  PROVE  s = t
  BY SMT

-----------------------------------------------------------------------------
(* To its users a ByteBuf is a sequence: append() adds behind, consume()   *)
(* drops in front, and whether and when the consumed prefix is dropped     *)
(* makes no difference to view() - only to memory, which it bounds.        *)

(* view() is a sequence of size() bytes.                                   *)
LEMMA ViewFacts ==
  ASSUME NEW Byte, NEW b \in ByteBufs(Byte)
  PROVE  /\ view(b) \in Seq(Byte)
         /\ size(b) \in Nat /\ Len(view(b)) = size(b)
         /\ \A i \in 1..size(b) : view(b)[i] = b.data[b.start + i]
  BY SMT DEF ByteBufs, view, size

(* The end of an end.                                                      *)
LEMMA EndOfEnd ==
  ASSUME NEW S, NEW q \in Seq(S), NEW m \in Nat, NEW n \in Nat, m + n <= Len(q)
  PROVE  SubSeq(SubSeq(q, m + 1, Len(q)), n + 1, Len(q) - m)
           = SubSeq(q, m + n + 1, Len(q))
  <1> DEFINE e == SubSeq(q, m + 1, Len(q))
             l == SubSeq(e, n + 1, Len(q) - m)
             r == SubSeq(q, m + n + 1, Len(q))
  <1>1. /\ e \in Seq(S) /\ Len(e) = Len(q) - m
        /\ \A i \in 1..(Len(q) - m) : e[i] = q[m + i]
    BY SMT
  <1>2. /\ r \in Seq(S) /\ Len(r) = Len(q) - m - n
        /\ \A i \in 1..(Len(q) - m - n) : r[i] = q[m + n + i]
    BY SMT
  <1> HIDE DEF e
  <1>3. /\ l \in Seq(S) /\ Len(l) = Len(q) - m - n
        /\ \A i \in 1..(Len(q) - m - n) : l[i] = e[n + i]
    BY SMT, <1>1
  <1> HIDE DEF l, r
  <1>4. ASSUME NEW i \in 1..Len(l) PROVE l[i] = r[i]
    <2>1. /\ i \in 1..(Len(q) - m - n) /\ n + i \in 1..(Len(q) - m)
          /\ m + (n + i) = m + n + i
      BY SMT, <1>3
    <2>2. l[i] = q[m + n + i]
      BY <1>1, <1>3, <2>1
    <2> QED
      BY <1>2, <2>1, <2>2
  <1>5. l = r
    BY <1>2, <1>3, <1>4, SameSequence
  <1> QED
    BY <1>5 DEF l, r, e

(* The end of a concatenation.                                             *)
LEMMA EndOfConcatenation ==
  ASSUME NEW S, NEW q \in Seq(S), NEW s \in Seq(S), NEW m \in 0..Len(q)
  PROVE  SubSeq(q \o s, m + 1, Len(q \o s)) = SubSeq(q, m + 1, Len(q)) \o s
  <1> DEFINE e == SubSeq(q, m + 1, Len(q))
             u == q \o s
             l == SubSeq(u, m + 1, Len(u))
             r == e \o s
             n == Len(q) - m
  <1>1. /\ e \in Seq(S) /\ Len(e) = n
        /\ \A i \in 1..n : e[i] = q[m + i]
    BY SMT
  <1>2. /\ u \in Seq(S) /\ Len(u) = Len(q) + Len(s)
        /\ \A i \in 1..Len(q) : u[i] = q[i]
        /\ \A i \in 1..Len(s) : u[Len(q) + i] = s[i]
    BY SMT
  <1> HIDE DEF e, u
  <1>3. /\ r \in Seq(S) /\ Len(r) = n + Len(s)
        /\ \A i \in 1..n : r[i] = e[i]
        /\ \A i \in 1..Len(s) : r[n + i] = s[i]
    <2>1. /\ r \in Seq(S) /\ Len(r) = Len(e) + Len(s)
          /\ \A i \in 1..Len(e) : r[i] = e[i]
          /\ \A i \in 1..Len(s) : r[Len(e) + i] = s[i]
      <3> SUFFICES ASSUME e \in Seq(S) PROVE <2>1!1
        BY SMT, <1>1
      <3> QED
        BY SMT
    <2> HIDE DEF r, n
    <2> QED
      BY <1>1, <2>1
  <1>4. /\ l \in Seq(S) /\ Len(l) = n + Len(s)
        /\ \A i \in 1..(n + Len(s)) : l[i] = u[m + i]
    BY SMT, <1>2
  <1>5. Len(s) \in Nat
    BY SMT
  <1> HIDE DEF l, r
  <1>6. \A i \in 1..n : l[i] = r[i]
    BY SMT, <1>1, <1>2, <1>3, <1>4, <1>5
  <1>7. ASSUME NEW i \in (n + 1)..(n + Len(s)) PROVE l[i] = r[i]
    <2>1. /\ i - n \in 1..Len(s) /\ n + (i - n) = i
          /\ Len(q) + (i - n) = m + i /\ i \in 1..(n + Len(s))
      BY SMT, <1>5
    <2>2. r[i] = s[i - n]
      BY <1>3, <2>1
    <2>3. l[i] = s[i - n]
      BY <1>2, <1>4, <2>1
    <2> QED
      BY <2>2, <2>3
  <1>8. \A i \in 1..Len(l) : l[i] = r[i]
    BY SMT, <1>4, <1>5, <1>6, <1>7
  <1>9. l = r
    BY <1>3, <1>4, <1>8, SameSequence
  <1> QED
    BY <1>9 DEF l, r, e, u

(* Compaction changes neither the content nor the shape.                   *)
LEMMA CompactFacts ==
  ASSUME NEW Byte, NEW b \in ByteBufs(Byte)
  PROVE  /\ compact(b) \in ByteBufs(Byte)
         /\ view(compact(b)) = view(b)
         /\ compact(b).start = 0
  <1>1. view(b) \in Seq(Byte)
    BY ViewFacts
  <1>2. compact(b) = [data |-> view(b), start |-> 0]
    BY DEF compact
  <1>3. compact(b) \in ByteBufs(Byte)
    BY SMT, <1>1, <1>2 DEF ByteBufs
  <1>4. SubSeq(view(b), 1, Len(view(b))) = view(b)
    BY SMT, <1>1
  <1>5. view(compact(b)) = SubSeq(compact(b).data, compact(b).start + 1,
                                  Len(compact(b).data))
    BY DEF view
  <1> QED
    BY SMT, <1>2, <1>3, <1>4, <1>5

(* consume(n) drops the first n bytes, whether or not that empties the     *)
(* buffer and resets the cursor.                                           *)
THEOREM ConsumeDrops ==
  ASSUME NEW Byte, NEW b \in ByteBufs(Byte), NEW n \in 0..size(b)
  PROVE  /\ consume(b, n) \in ByteBufs(Byte)
         /\ view(consume(b, n)) = SubSeq(view(b), n + 1, Len(view(b)))
  <1>0. /\ b.data \in Seq(Byte) /\ b.start \in Nat /\ n \in Nat
        /\ b.start + n <= Len(b.data)
    BY SMT DEF ByteBufs, size
  <1>1. CASE b.start + n = Len(b.data)
    <2>1. consume(b, n) = EmptyBuf
      BY <1>1 DEF consume
    <2>2. EmptyBuf \in ByteBufs(Byte) /\ view(EmptyBuf) = <<>>
      BY SMT DEF EmptyBuf, ByteBufs, view
    <2>3. n = Len(view(b))
      BY SMT, <1>0, <1>1, ViewFacts DEF size
    <2>4. SubSeq(view(b), n + 1, Len(view(b))) = <<>>
      BY SMT, <1>0, <2>3, ViewFacts
    <2> QED
      BY <2>1, <2>2, <2>4
  <1>2. CASE b.start + n # Len(b.data)
    <2>1. /\ consume(b, n) = [b EXCEPT !.start = b.start + n]
          /\ consume(b, n).data = b.data /\ consume(b, n).start = b.start + n
      BY <1>2 DEF consume, ByteBufs
    <2>2. consume(b, n) \in ByteBufs(Byte)
      BY SMT, <1>0, <2>1 DEF ByteBufs
    <2>3. view(consume(b, n)) = SubSeq(b.data, b.start + n + 1, Len(b.data))
      BY <2>1 DEF view
    <2>4. SubSeq(view(b), n + 1, Len(view(b)))
            = SubSeq(b.data, b.start + n + 1, Len(b.data))
      <3>1. Len(view(b)) = Len(b.data) - b.start
        BY ViewFacts DEF size
      <3>2. view(b) = SubSeq(b.data, b.start + 1, Len(b.data))
        BY DEF view
      <3>3. SubSeq(SubSeq(b.data, b.start + 1, Len(b.data)), n + 1,
                   Len(b.data) - b.start)
              = SubSeq(b.data, b.start + n + 1, Len(b.data))
        BY <1>0, EndOfEnd
      <3> QED
        BY <3>1, <3>2, <3>3
    <2> QED
      BY <2>2, <2>3, <2>4
  <1> QED
    BY <1>1, <1>2

(* append() adds behind what is there, whether or not it compacts first,   *)
(* and the consumed part that is kept is smaller than the other.           *)
THEOREM AppendAdds ==
  ASSUME NEW Byte, NEW b \in ByteBufs(Byte), NEW s \in Seq(Byte),
         NEW full \in BOOLEAN
  PROVE  /\ append(b, s, full) \in ByteBufs(Byte)
         /\ view(append(b, s, full)) = view(b) \o s
         /\ Len(append(b, s, full).data) <= 2 * size(b) + Len(s)
         /\ size(b) > 0 => Len(append(b, s, full).data) < 2 * size(b) + Len(s)
  <1> DEFINE a == compact_for_append(b, full)
  <1>1. /\ a \in ByteBufs(Byte) /\ view(a) = view(b)
        /\ Len(a.data) <= 2 * size(b) /\ (size(b) > 0 => Len(a.data) < 2 * size(b))
    <2>1. CASE a = b /\ (b.start = 0 \/ b.start < size(b))
      BY SMT, <2>1 DEF ByteBufs, size
    <2>2. CASE a = compact(b)
      <3>1. Len(a.data) = size(b)
        BY SMT, <2>2, ViewFacts DEF compact
      <3> QED
        BY SMT, <2>2, <3>1, CompactFacts, ViewFacts
    <2> QED
      BY SMT, <2>1, <2>2 DEF compact_for_append, ByteBufs, size
  <1>2. /\ append(b, s, full) = [a EXCEPT !.data = a.data \o s]
        /\ append(b, s, full).data = a.data \o s
        /\ append(b, s, full).start = a.start
    BY <1>1 DEF append, ByteBufs
  <1> HIDE DEF a
  <1>3. a.data \in Seq(Byte) /\ a.start \in Nat /\ a.start <= Len(a.data)
    BY <1>1 DEF ByteBufs
  <1>4. append(b, s, full) \in ByteBufs(Byte)
    <2>1. a = [data |-> a.data, start |-> a.start]
      BY <1>1 DEF ByteBufs
    <2>2. append(b, s, full) = [data |-> a.data \o s, start |-> a.start]
      BY <1>2, <2>1
    <2>3. a.data \o s \in Seq(Byte) /\ a.start <= Len(a.data \o s)
      BY SMT, <1>3
    <2> QED
      BY SMT, <1>3, <2>2, <2>3 DEF ByteBufs
  <1>5. view(append(b, s, full)) = SubSeq(a.data \o s, a.start + 1, Len(a.data \o s))
    BY <1>2 DEF view
  <1>6. SubSeq(a.data \o s, a.start + 1, Len(a.data \o s))
          = SubSeq(a.data, a.start + 1, Len(a.data)) \o s
    <2>1. a.start \in 0..Len(a.data)
      BY SMT, <1>3
    <2> QED
      BY <1>3, <2>1, EndOfConcatenation
  <1>7. view(a) = SubSeq(a.data, a.start + 1, Len(a.data))
    BY DEF view
  <1>8. Len(append(b, s, full).data) = Len(a.data) + Len(s)
    BY SMT, <1>2, <1>3
  <1>9. size(b) \in Nat
    BY ViewFacts
  <1>10. view(append(b, s, full)) = view(b) \o s
    BY <1>1, <1>5, <1>6, <1>7
  <1>11. /\ Len(append(b, s, full).data) <= 2 * size(b) + Len(s)
         /\ size(b) > 0 => Len(append(b, s, full).data) < 2 * size(b) + Len(s)
    BY SMT, <1>1, <1>3, <1>8, <1>9
  <1> QED
    BY <1>4, <1>10, <1>11

(* So does a caller who appends to append_target().                        *)
THEOREM AppendTargetAdds ==
  ASSUME NEW Byte, NEW b \in ByteBufs(Byte), NEW s \in Seq(Byte)
  PROVE  /\ append_to_target(b, s) \in ByteBufs(Byte)
         /\ view(append_to_target(b, s)) = view(b) \o s
         /\ Len(append_to_target(b, s).data) = size(b) + Len(s)
  <1> DEFINE v == view(b)
             a == append_to_target(b, s)
  <1>1. v \in Seq(Byte) /\ Len(v) = size(b) /\ size(b) \in Nat
    BY ViewFacts
  <1>2. compact(b) = [data |-> v, start |-> 0]
    BY DEF compact
  <1>3. a = [compact(b) EXCEPT !.data = compact(b).data \o s]
    BY DEF append_to_target
  <1> HIDE DEF v
  <1>4. v \o s \in Seq(Byte) /\ Len(v \o s) = size(b) + Len(s)
    BY SMT, <1>1
  <1>5. /\ compact(b) \in [data : Seq(Byte), start : Nat]
        /\ compact(b).data = v /\ compact(b).start = 0
    BY SMT, <1>1, <1>2
  <1> HIDE DEF a
  <1>6. view(a) = SubSeq(a.data, a.start + 1, Len(a.data))
    BY DEF view
  <1>7. /\ a \in [data : Seq(Byte), start : Nat]
        /\ a.data = v \o s /\ a.start = 0
    BY <1>3, <1>4, <1>5
  <1>8. SubSeq(v \o s, 1, Len(v \o s)) = v \o s
    BY SMT, <1>4
  <1>9. view(a) = v \o s
    BY SMT, <1>6, <1>7, <1>8
  <1>10. a \in ByteBufs(Byte)
    BY SMT, <1>4, <1>7 DEF ByteBufs
  <1>11. Len(a.data) = size(b) + Len(s)
    BY <1>4, <1>7
  <1> QED
    BY <1>9, <1>10, <1>11 DEF a, v

-----------------------------------------------------------------------------
(* The configuration.  parse_args() stores first and judges then, so that  *)
(* only failed tells whether what is stored is in range.                   *)

all == <<configVars, startupVars>>

Need == cfg["max_body"] + cfg["max_header"]

ConfigInv ==
  /\ cfg = [o \in Numeric \cup Texts |-> cfg[o]]
  /\ failed \in BOOLEAN
  /\ \A o \in Sized : cfg[o] \in Nat /\ cfg[o] < SizeMax
  /\ ~failed => \A o \in Numeric : InRange(o, cfg[o])
  /\ verdict = "accepted" => ~failed /\ (Need < SizeMax => cfg["max_request"] >= Need)

(* A wrapped value fits, and is itself if it fitted before.                *)
LEMMA Wrapped ==
  ASSUME NEW t \in Int
  PROVE  /\ t % SizeMax \in Nat /\ t % SizeMax < SizeMax
         /\ t \in Nat /\ t < SizeMax => t % SizeMax = t
  <1>1. SizeMax \in Nat \ {0}
    BY ConfigAssumption
  <1> QED
    BY SMT, <1>1

(* The defaults are in range.                                              *)
LEMMA ConfigInvInit == ConfigInit => ConfigInv
  <1> SUFFICES ASSUME ConfigInit PROVE ConfigInv
    OBVIOUS
  <1>1. cfg = Defaults /\ failed = FALSE /\ verdict = "parsing"
    BY DEF ConfigInit
  <1>2. Sized \subseteq Numeric
    BY DEF Numeric
  <1> QED
    BY <1>1, <1>2, ConfigAssumption DEF ConfigInv

(* One option: whatever is stored has its type, and is in range unless     *)
(* failed is set.                                                          *)
LEMMA NumericOptionInv ==
  ASSUME ConfigInv, verdict = "parsing", verdict' = "parsing", NEW o, NEW t,
         NumericOption(o, t)
  PROVE  ConfigInv'
  <1>1. /\ o \in Numeric
        /\ cfg' = IF Stored(o, t) THEN [cfg EXCEPT ![o] = ValueOf(o, t)] ELSE cfg
        /\ failed' = (failed \/ ~Valid(o, t))
    BY DEF NumericOption
  <1>2. cfg' = [p \in Numeric \cup Texts |-> cfg'[p]]
    BY <1>1 DEF ConfigInv
  <1>3. failed' \in BOOLEAN
    BY <1>1 DEF ConfigInv
  <1>4. \A p \in Numeric : p # o => cfg'[p] = cfg[p]
    BY <1>1 DEF ConfigInv
  <1>5. CASE Stored(o, t)
    <2>1. cfg'[o] = ValueOf(o, t)
      BY <1>1, <1>5 DEF ConfigInv
    <2>2. o \in Sized => cfg'[o] \in Nat /\ cfg'[o] < SizeMax
      <3> SUFFICES ASSUME o \in Sized PROVE cfg'[o] \in Nat /\ cfg'[o] < SizeMax
        OBVIOUS
      <3>1. o \notin Checked /\ o \notin Seconds
        BY DEF Sized, Checked, Seconds
      <3>2. t \in Int /\ cfg'[o] = t % SizeMax
        BY <1>5, <2>1, <3>1 DEF Stored, Parses, parse_size, ValueOf, size_value
      <3> QED
        BY <3>2, Wrapped
    <2>3. ~failed' => InRange(o, cfg'[o])
      BY <1>1, <2>1 DEF Valid, ConfigInv
    <2> QED
      BY <1>1, <1>2, <1>3, <1>4, <2>2, <2>3 DEF ConfigInv, Numeric
  <1>6. CASE ~Stored(o, t)
    <2>1. cfg' = cfg /\ (~failed' => ~failed)
      BY <1>1, <1>6 DEF ConfigInv
    <2> QED
      BY <1>3, <2>1 DEF ConfigInv
  <1> QED
    BY <1>5, <1>6

(* The end of the command line (parse_args, after the loop) keeps ConfigInv.*)
LEMMA EndOfOptionsInv ==
  ASSUME ConfigInv, EndOfOptions
  PROVE  ConfigInv'
  <1>1. /\ failed' = (failed \/ Positional # {})
        /\ cfg' = [cfg EXCEPT !["max_request"] = Raised(cfg)]
        /\ verdict' = IF failed' THEN "refused" ELSE "accepted"
    BY DEF EndOfOptions
  <1> DEFINE sum == cfg["max_body"] + cfg["max_header"]
             old == cfg["max_request"]
             new == Raised(cfg)
  <1>2. /\ "max_request" \in Sized /\ "max_body" \in Sized /\ "max_header" \in Sized
        /\ Sized \subseteq Numeric /\ "max_request" # "max_body"
        /\ "max_request" # "max_header"
    BY DEF Sized, Numeric
  <1>3. old \in Nat /\ old < SizeMax /\ sum \in Nat
    BY SMT, <1>2 DEF ConfigInv
  <1>4. new = IF old < sum % SizeMax THEN sum % SizeMax ELSE old
    BY DEF Raised
  <1> HIDE DEF sum, old, new
  <1>5. /\ sum % SizeMax \in Nat /\ sum % SizeMax < SizeMax
        /\ sum < SizeMax => sum % SizeMax = sum
    BY SMT, <1>3, Wrapped
  <1>6. /\ new \in Nat /\ new < SizeMax /\ new >= old
        /\ sum < SizeMax => new >= sum
    BY SMT, <1>3, <1>4, <1>5
  <1>7. /\ cfg' = [p \in Numeric \cup Texts |-> cfg'[p]]
        /\ cfg'["max_request"] = new
        /\ \A p \in Numeric : p # "max_request" => cfg'[p] = cfg[p]
    BY <1>1, <1>2 DEF ConfigInv, new
  <1>8. failed' \in BOOLEAN /\ (~failed' => ~failed)
    BY <1>1 DEF ConfigInv
  <1>9. Need' = sum
    BY <1>2, <1>7 DEF Need, sum
  <1>10. ~failed => InRange("max_request", new)
    <2>1. ~failed => old >= Least["max_request"]
      BY <1>2 DEF ConfigInv, InRange, old
    <2>2. Least["max_request"] \in Nat
      BY <1>2, ConfigAssumption
    <2>3. ~failed => new >= Least["max_request"]
      BY SMT, <1>3, <1>6, <2>1, <2>2
    <2>4. "max_request" \notin Checked
      BY DEF Checked
    <2> QED
      BY <1>2, <2>3, <2>4 DEF InRange
  <1>11. verdict' = "accepted" => ~failed'
    BY <1>1, <1>8
  <1>12. \A o \in Sized : cfg'[o] \in Nat /\ cfg'[o] < SizeMax
    BY <1>2, <1>6, <1>7 DEF ConfigInv
  <1>13. ~failed' => \A o \in Numeric : InRange(o, cfg'[o])
    BY <1>7, <1>8, <1>10 DEF ConfigInv
  <1> QED
    BY <1>6, <1>7, <1>8, <1>9, <1>11, <1>12, <1>13 DEF ConfigInv

(* Every step of parse_args keeps ConfigInv.                               *)
LEMMA ConfigInvStep == ConfigInv /\ [parse_args]_configVars => ConfigInv'
  <1> SUFFICES ASSUME ConfigInv, [parse_args]_configVars PROVE ConfigInv'
    OBVIOUS
  <1>1. CASE GetOption
    <2> DEFINE o == argv[optind].option
               t == argv[optind].text
    <2>1. verdict = "parsing" /\ verdict' = "parsing"
      BY <1>1 DEF GetOption
    <2>2. NumericOption(o, t) \/ TextOption(o, t) \/ OtherOption(o)
      BY <1>1 DEF GetOption
    <2> HIDE DEF o, t
    <2>3. CASE NumericOption(o, t)
      BY <2>1, <2>3, NumericOptionInv
    <2>4. CASE TextOption(o, t)
      <3>1. o \in Texts /\ cfg' = [cfg EXCEPT ![o] = t] /\ failed' = failed
        BY <2>4 DEF TextOption
      <3>2. \A p \in Numeric : p # o
        BY <3>1 DEF Texts, Numeric, Sized, Checked, Seconds
      <3>3. /\ cfg' = [p \in Numeric \cup Texts |-> cfg'[p]]
            /\ \A p \in Numeric : cfg'[p] = cfg[p]
        BY <3>1, <3>2 DEF ConfigInv
      <3> QED
        BY <2>1, <3>1, <3>3 DEF ConfigInv, Numeric
    <2>5. CASE OtherOption(o)
      <3>1. cfg' = cfg /\ failed' \in BOOLEAN /\ (~failed' => ~failed)
        BY <2>5 DEF OtherOption, ConfigInv
      <3> QED
        BY <2>1, <3>1 DEF ConfigInv
    <2> QED
      BY <2>2, <2>3, <2>4, <2>5
  <1>2. CASE Help
    BY <1>2 DEF Help, ConfigInv
  <1>3. CASE EndOfOptions
    BY <1>3, EndOfOptionsInv
  <1>4. CASE UNCHANGED configVars
    BY <1>4 DEF configVars, ConfigInv, Need
  <1> QED
    BY <1>1, <1>2, <1>3, <1>4 DEF parse_args

(* Nothing but parse_args() touches the configuration.                     *)
LEMMA OnlyArgumentsConfigure == StartupStep => [parse_args]_configVars
  BY DEF StartupStep, PrepareSignals, ParseArguments, ArgumentsParsed, Setup,
         OpenPortFile, WritePortFile, SyncPortFile, RenamePortFile, PowerFailure

(* ConfigInv says that a configuration parse_args accepts is valid.        *)
LEMMA ConfigInvValid == ConfigInv => AcceptedConfigIsValid
  BY DEF ConfigInv, AcceptedConfigIsValid, Need

(* A process that goes on to serve has a configuration within the limits   *)
(* of every option, whatever the command line and however large size_t.    *)
THEOREM AcceptedConfigsAreValid == StartupSpec => []AcceptedConfigIsValid
  <1>1. StartupInit => ConfigInv
    BY ConfigInvInit DEF StartupInit
  <1>2. ConfigInv /\ [StartupStep]_all => ConfigInv'
    <2>1. UNCHANGED all => UNCHANGED configVars
      BY DEF all
    <2> QED
      BY <2>1, OnlyArgumentsConfigure, ConfigInvStep
  <1> QED
    BY <1>1, <1>2, ConfigInvValid, PTL DEF StartupSpec, all

-----------------------------------------------------------------------------
(* The configuration is the one asked for.                                 *)

(* Option o of the first n arguments, and none of them after argument i.   *)
LastAt(o, i, n) == /\ i \in 1..n /\ argv[i].option = o
                   /\ \A j \in 1..n : argv[j].option = o => j <= i

(* An argument parse_args() has no objection to.                           *)
Proper(i) == \/ argv[i].option \in Texts \cup {"verbose"}
             \/ argv[i].option \in Numeric /\ Valid(argv[i].option, argv[i].text)

(* What the loop over the options maintains: as long as nothing has failed *)
(* the arguments read so far are in order, and every option has the value  *)
(* that the last of them gave it.  Where the last one stands is part of    *)
(* the invariant, so that no search for it has to be reasoned about.       *)
AskedInv ==
  /\ Len(argv) \in Nat /\ optind \in 1..(Len(argv) + 1)
  /\ ~failed => \A i \in 1..(optind - 1) : Proper(i) \/ argv[i].option = "positional"
  /\ ~failed /\ verdict = "parsing" => \A o \in Numeric :
       \/ cfg[o] = Defaults[o] /\ \A i \in 1..(optind - 1) : argv[i].option # o
       \/ \E i \in 1..(optind - 1) : /\ LastAt(o, i, optind - 1)
                                     /\ cfg[o] = ValueOf(o, argv[i].text)
  /\ ConfigAsAsked

(* The last position of an option is what LastGiven chooses.               *)
LEMMA LastIsChosen ==
  ASSUME NEW o, NEW i, Len(argv) \in Nat, LastAt(o, i, Len(argv))
  PROVE  Given(o) # {} /\ LastGiven(o) = argv[i].text
  <1> DEFINE k == CHOOSE m \in Given(o) : \A j \in Given(o) : j <= m
  <1>1. /\ i \in Given(o) /\ \A j \in Given(o) : j <= i
        /\ \A j \in Given(o) : j \in 1..Len(argv)
    BY DEF LastAt, Given
  <1>2. k \in Given(o) /\ \A j \in Given(o) : j <= k
    BY <1>1
  <1>3. k = i
    <2> HIDE DEF k
    <2>1. k <= i /\ i <= k /\ k \in Int /\ i \in Int
      BY SMT, <1>1, <1>2
    <2> QED
      BY SMT, <2>1
  <1> QED
    BY <1>1, <1>3 DEF LastGiven

(* Nothing is read yet, and every option has its default.                  *)
LEMMA AskedInvInit == ConfigInit => AskedInv
  <1> SUFFICES ASSUME ConfigInit PROVE AskedInv
    OBVIOUS
  <1>1. /\ Len(argv) \in Nat /\ optind = 1 /\ cfg = Defaults
        /\ verdict = "parsing"
    BY ConfigAssumption DEF ConfigInit
  <1>2. optind \in 1..(Len(argv) + 1) /\ 1..(optind - 1) = {}
    BY SMT, <1>1
  <1>3. ConfigAsAsked
    BY <1>1 DEF ConfigAsAsked
  <1> QED
    BY <1>1, <1>2, <1>3 DEF AskedInv

(* One more argument, numeric or not: the others keep their last position, *)
(* and its own option has moved to it.                                     *)
LEMMA GetOptionAsked ==
  ASSUME ConfigInv, AskedInv, GetOption
  PROVE  AskedInv'
  <1> DEFINE o == argv[optind].option
             t == argv[optind].text
             n == optind - 1
  <1>1. /\ verdict = "parsing" /\ verdict' = "parsing" /\ argv' = argv
        /\ optind' = optind + 1 /\ optind <= Len(argv)
        /\ NumericOption(o, t) \/ TextOption(o, t) \/ OtherOption(o)
    BY DEF GetOption
  <1>2. /\ Len(argv) \in Nat /\ optind \in 1..(Len(argv) + 1)
        /\ n \in Nat /\ optind = n + 1 /\ optind' - 1 = n + 1
        /\ \A i \in 1..n : i \in 1..(n + 1) /\ i <= n + 1 /\ i # n + 1
        /\ \A i \in 1..(n + 1) : i = n + 1 \/ i \in 1..n
        /\ n + 1 \in 1..(n + 1)
    BY SMT, <1>1 DEF AskedInv
  <1>3. optind' \in 1..(Len(argv') + 1) /\ Len(argv') \in Nat
    BY SMT, <1>1, <1>2
  <1>4. ConfigAsAsked'
    BY <1>1 DEF ConfigAsAsked
  <1>5. SUFFICES ASSUME ~failed'
                 PROVE  /\ \A i \in 1..(n + 1) : Proper(i)' \/ argv[i].option = "positional"
                        /\ \A q \in Numeric :
                             \/ cfg'[q] = Defaults[q] /\ \A i \in 1..(n + 1) : argv[i].option # q
                             \/ \E i \in 1..(n + 1) : /\ LastAt(q, i, n + 1)
                                                      /\ cfg'[q] = ValueOf(q, argv[i].text)
    <2>1. \A q, i : LastAt(q, i, optind - 1)' <=> LastAt(q, i, n + 1)
      BY <1>1, <1>2 DEF LastAt
    <2> QED
      BY <1>1, <1>2, <1>3, <1>4, <2>1 DEF AskedInv
  <1>6. ~failed
    BY <1>1, <1>5 DEF NumericOption, TextOption, OtherOption, ConfigInv
  <1>7. \A i : Proper(i)' <=> Proper(i)
    BY <1>1 DEF Proper
  <1>8. o \in Numeric \cup Texts \cup {"verbose", "positional"} /\ (o \in Numeric => Valid(o, t))
    <2>1. \A q \in Numeric : q \notin Texts /\ q \notin {"verbose", "unknown", "positional"}
      BY DEF Numeric, Sized, Checked, Seconds, Texts
    <2> QED
      BY <1>1, <1>5, <2>1 DEF NumericOption, TextOption, OtherOption
  <1>9. \A i \in 1..(n + 1) : Proper(i)' \/ argv[i].option = "positional"
    <2>1. \A i \in 1..n : Proper(i) \/ argv[i].option = "positional"
      BY <1>6 DEF AskedInv
    <2>2. Proper(n + 1) \/ argv[n + 1].option = "positional"
      BY <1>2, <1>8 DEF Proper
    <2> QED
      BY <1>2, <1>7, <2>1, <2>2
  <1>10. \A q \in Numeric : q # o => cfg'[q] = cfg[q]
    BY <1>1 DEF NumericOption, TextOption, OtherOption, ConfigInv
  <1>11. o \in Numeric => cfg'[o] = ValueOf(o, t)
    <2> SUFFICES ASSUME o \in Numeric PROVE cfg'[o] = ValueOf(o, t)
      OBVIOUS
    <2>1. o \notin Texts /\ o \notin {"verbose", "unknown", "positional"}
      BY DEF Numeric, Sized, Checked, Seconds, Texts
    <2>2. NumericOption(o, t)
      BY <1>1, <2>1 DEF TextOption, OtherOption
    <2>3. Stored(o, t)
      BY <1>8 DEF Stored, Valid
    <2> QED
      BY <2>2, <2>3 DEF NumericOption, ConfigInv
  <1>12. ASSUME NEW q \in Numeric
         PROVE  \/ cfg'[q] = Defaults[q] /\ \A i \in 1..(n + 1) : argv[i].option # q
                \/ \E i \in 1..(n + 1) : /\ LastAt(q, i, n + 1)
                                         /\ cfg'[q] = ValueOf(q, argv[i].text)
    <2>1. CASE q = o
      <3>1. LastAt(q, n + 1, n + 1)
        <4>1. \A i \in 1..(n + 1) : i <= n + 1
          BY SMT, <1>2
        <4> QED
          BY <1>2, <2>1, <4>1 DEF LastAt
      <3> QED
        BY <1>2, <1>11, <2>1, <3>1
    <2>2. CASE q # o
      <3>1. \/ cfg[q] = Defaults[q] /\ \A i \in 1..n : argv[i].option # q
            \/ \E i \in 1..n : LastAt(q, i, n) /\ cfg[q] = ValueOf(q, argv[i].text)
        BY <1>1, <1>6 DEF AskedInv
      <3>2. ASSUME NEW i \in 1..n, LastAt(q, i, n) PROVE LastAt(q, i, n + 1)
        BY <1>2, <2>2, <3>2 DEF LastAt
      <3> QED
        BY <1>2, <1>10, <2>2, <3>1, <3>2
    <2> QED
      BY <2>1, <2>2
  <1> QED
    BY <1>9, <1>12

(* The end: all arguments are read, and the request limit is raised from   *)
(* the value asked for.                                                    *)
LEMMA EndOfOptionsAsked ==
  ASSUME ConfigInv, AskedInv, EndOfOptions
  PROVE  AskedInv'
  <1>1. /\ verdict = "parsing" /\ verdict' # "parsing" /\ argv' = argv
        /\ optind' = optind /\ optind = Len(argv) + 1
        /\ failed' = (failed \/ Positional # {})
        /\ verdict' = "accepted" => ~failed'
        /\ cfg' = [cfg EXCEPT !["max_request"] = Raised(cfg)]
    BY DEF EndOfOptions
  <1>2. Len(argv) \in Nat /\ optind - 1 = Len(argv)
    BY SMT, <1>1 DEF AskedInv
  <1>3. \A i : Proper(i)' <=> Proper(i)
    BY <1>1 DEF Proper
  <1>4. ~failed' => /\ ~failed
                    /\ \A i \in 1..Len(argv) : argv[i].option # "positional"
    BY <1>1 DEF Positional, ConfigInv
  <1>5. ~failed => \A i \in 1..Len(argv) : Proper(i) \/ argv[i].option = "positional"
    BY <1>2 DEF AskedInv
  <1>6. ASSUME verdict' = "accepted" PROVE ConfigAsAsked'
    <2>1. ~failed /\ \A i \in 1..Len(argv) : Proper(i)
      BY <1>1, <1>4, <1>5, <1>6
    <2>2. ASSUME NEW o \in Numeric PROVE cfg[o] = Asked(o)
      <3>1. CASE cfg[o] = Defaults[o] /\ \A i \in 1..Len(argv) : argv[i].option # o
        BY <3>1 DEF Asked, Given
      <3>2. CASE \E i \in 1..Len(argv) : /\ LastAt(o, i, Len(argv))
                                         /\ cfg[o] = ValueOf(o, argv[i].text)
        BY <1>2, <3>2, LastIsChosen DEF Asked
      <3> QED
        BY <1>1, <1>2, <2>1, <3>1, <3>2 DEF AskedInv
    <2>3. "max_request" \in Numeric
      BY DEF Numeric, Sized
    <2>4. \A o : Asked(o)' = Asked(o)
      BY SMT, <1>1 DEF Asked, LastGiven, Given
    <2>5. [cfg' EXCEPT !["max_request"] = Asked("max_request")] = cfg
      BY <1>1, <2>2, <2>3 DEF ConfigInv
    <2>6. cfg'["max_request"] = Raised(cfg)
      BY <1>1, <2>3 DEF ConfigInv
    <2>7. \A o \in Numeric : o # "max_request" => cfg'[o] = Asked(o)
      BY <1>1, <2>2 DEF ConfigInv
    <2>8. \A o \in Numeric : IF o = "max_request"
                             THEN cfg'[o] = Raised([cfg' EXCEPT ![o] = Asked(o)])
                             ELSE cfg'[o] = Asked(o)
      BY <2>5, <2>6, <2>7
    <2> QED
      BY <1>1, <2>1, <2>4, <2>8 DEF ConfigAsAsked, Proper
  <1>7. ConfigAsAsked'
    BY <1>6 DEF ConfigAsAsked
  <1> QED
    BY <1>1, <1>2, <1>3, <1>4, <1>5, <1>7 DEF AskedInv

(* What the user asked for is what the server runs with, for any command   *)
(* line: the last value of every option, and the request limit raised in   *)
(* whatever order the limits came.                                         *)
THEOREM ConfigsAreAsAsked == StartupSpec => []ConfigAsAsked
  <1>1. StartupInit => ConfigInv /\ AskedInv
    BY ConfigInvInit, AskedInvInit DEF StartupInit
  <1>2. ConfigInv /\ AskedInv /\ [parse_args]_configVars => AskedInv'
    <2> SUFFICES ASSUME ConfigInv, AskedInv, [parse_args]_configVars PROVE AskedInv'
      OBVIOUS
    <2>1. CASE GetOption
      BY <2>1, GetOptionAsked
    <2>2. CASE EndOfOptions
      BY <2>2, EndOfOptionsAsked
    <2>3. CASE Help
      <3>1. ConfigAsAsked'
        BY <2>3 DEF Help, ConfigAsAsked
      <3>2. /\ argv' = argv /\ optind' = optind /\ failed' = failed
            /\ verdict' # "parsing" /\ \A i : Proper(i)' <=> Proper(i)
        BY <2>3 DEF Help, Proper
      <3> QED
        BY <3>1, <3>2 DEF AskedInv
    <2>4. CASE UNCHANGED configVars
      <3>1. /\ argv' = argv /\ optind' = optind /\ failed' = failed
            /\ cfg' = cfg /\ verdict' = verdict
        BY <2>4 DEF configVars
      <3>2. ConfigAsAsked' <=> ConfigAsAsked
        BY SMT, <3>1 DEF ConfigAsAsked, Asked, LastGiven, Given
      <3> QED
        BY <3>1, <3>2 DEF AskedInv, Proper, LastAt
    <2> QED
      BY <2>1, <2>2, <2>3, <2>4 DEF parse_args
  <1>3. ConfigInv /\ AskedInv /\ [StartupStep]_all => (ConfigInv /\ AskedInv)'
    <2>1. UNCHANGED all => UNCHANGED configVars
      BY DEF all
    <2> QED
      BY <1>2, <2>1, OnlyArgumentsConfigure, ConfigInvStep
  <1>4. AskedInv => ConfigAsAsked
    BY DEF AskedInv
  <1> QED
    BY <1>1, <1>3, <1>4, PTL DEF StartupSpec, all

-----------------------------------------------------------------------------
(* The port file.  What is renamed is whole and on the disk, and by then   *)
(* the listener is up.                                                     *)

PortFileInv ==
  /\ stage \in Stage /\ call \in 1..12 /\ listening \in BOOLEAN
  /\ stage \in {"main", "args"} => call = 1
  /\ stage = "setup" => call <= 11
  /\ stage = "setup" /\ call > 10 => listening
  /\ stage \in {"open", "write", "fsync", "rename", "serving"} => listening
  /\ stage = "rename" => tmp = "ours" /\ synced \in {"yes", "failed"}
  /\ port_file \in {"other", "ours"} \/ synced = "failed"
  /\ port_file # "other"
       => synced \in {"yes", "failed"} /\ stage \in {"serving", "exited"}

(* No port file has been touched when the program starts.                  *)
LEMMA PortFileInvInit == StartupInit => PortFileInv
  <1> SUFFICES ASSUME StartupInit PROVE PortFileInv
    OBVIOUS
  <1>1. /\ stage = "main" /\ call = 1 /\ listening = FALSE
        /\ port_file = "other"
    BY DEF StartupInit
  <1>2. call \in 1..12
    BY SMT, <1>1
  <1> QED
    BY <1>1, <1>2 DEF PortFileInv, Stage

(* Every step of start-up keeps PortFileInv.                               *)
LEMMA PortFileInvStep == PortFileInv /\ [StartupStep]_all => PortFileInv'
  <1> SUFFICES ASSUME PortFileInv, [StartupStep]_all PROVE PortFileInv'
    OBVIOUS
  <1> USE DEF PortFileInv, Stage, Enter, Exit
  <1>1. CASE PrepareSignals
    BY <1>1 DEF PrepareSignals
  <1>2. CASE ParseArguments
    BY <1>2 DEF ParseArguments, startupVars
  <1>3. CASE ArgumentsParsed
    <2>1. stage = "args"
      BY <1>3 DEF ArgumentsParsed
    <2>2. Enter("setup") \/ Exit(0) \/ Exit(2)
      BY <1>3 DEF ArgumentsParsed
    <2>3. CASE Enter("setup")
      BY SMT, <2>1, <2>3
    <2>4. CASE Exit(0)
      BY <2>4
    <2>5. CASE Exit(2)
      BY <2>5
    <2> QED
      BY <2>2, <2>3, <2>4, <2>5
  <1>4. CASE Setup
    <2>1. CASE Exit(1)
      BY <1>4, <2>1 DEF Setup
    <2>2. CASE ~Exit(1)
      <3>1. Len(SetupCalls) = 11 /\ SetupCalls[10] = "listen"
        BY DEF SetupCalls
      <3>2. /\ call' = call + 1
            /\ listening' = (listening \/ SetupCalls[call] = "listen")
            /\ stage' = IF call = Len(SetupCalls) THEN AfterSetup ELSE stage
            /\ UNCHANGED <<port_file, tmp, synced, exit_code>>
        BY <1>4, <2>2 DEF Setup
      <3>3. stage = "setup" /\ AfterSetup \in {"serving", "open"}
        BY <1>4 DEF Setup, AfterSetup
      <3>4. listening' \in BOOLEAN /\ (call >= 10 => listening')
        <4>1. CASE call < 10
          BY SMT, <4>1, <3>1, <3>2, <3>3
        <4>2. CASE call = 10
          BY <4>2, <3>1, <3>2, <3>3
        <4>3. CASE call > 10
          BY <4>3, <3>1, <3>2, <3>3
        <4> QED
          BY SMT, <4>1, <4>2, <4>3
      <3>5. CASE call = 11
        <4>1. stage' \in {"serving", "open"} /\ call' \in 1..12 /\ listening'
          BY SMT, <3>1, <3>2, <3>3, <3>4, <3>5
        <4> QED
          BY <4>1, <3>2, <3>3, <3>4
      <3>6. CASE call # 11
        <4>1. /\ stage' = "setup" /\ call' \in 1..12 /\ call' <= 11
              /\ call' > 10 => listening'
          BY SMT, <3>1, <3>2, <3>3, <3>4, <3>6
        <4> QED
          BY <4>1, <3>2, <3>3, <3>4
      <3> QED
        BY <3>5, <3>6
    <2> QED
      BY <2>1, <2>2
  <1>5. CASE OpenPortFile
    BY <1>5 DEF OpenPortFile
  <1>6. CASE WritePortFile
    BY <1>6 DEF WritePortFile
  <1>7. CASE SyncPortFile
    BY <1>7 DEF SyncPortFile
  <1>8. CASE RenamePortFile
    BY <1>8 DEF RenamePortFile
  <1>9. CASE PowerFailure
    BY <1>9 DEF PowerFailure
  <1>10. CASE UNCHANGED all
    BY <1>10 DEF all, startupVars
  <1> QED
    BY <1>1, <1>2, <1>3, <1>4, <1>5, <1>6, <1>7, <1>8, <1>9, <1>10
       DEF StartupStep

(* No failing call, short write or power failure leaves a port file that   *)
(* is not whole, or that names a port nobody listens on yet.               *)
THEOREM PortFilesAreWhole == StartupSpec => []PortFileIsWhole
  <1>1. PortFileInv => PortFileIsWhole
    BY DEF PortFileInv, PortFileIsWhole
  <1> QED
    BY <1>1, PortFileInvInit, PortFileInvStep, PTL DEF StartupSpec, all

-----------------------------------------------------------------------------
(* Types.                                                                  *)

Statuses == {"100", "200", "204", "304", "400", "404", "405", "408", "413", "500",
             "503"}
Persistence == {"close", "keep-alive", ""}
Heads == [kind : {"head"}, status : Statuses, minor : {0, 1}, length : Seq(Nat),
          connection : Persistence]
Units == Heads \cup {BodyByte}

Responses == [status : Statuses, minor : {0, 1}, keep_alive : BOOLEAN,
              close_after : BOOLEAN, send_body : BOOLEAN,
              no_body_framing : BOOLEAN, body : Nat]

(* What a response must be for its framing to be understood.               *)
Framed(res) == res.no_body_framing => res.status \in {"100", "204", "304"}

Entries == [told : [status : Statuses, body : Nat, close : BOOLEAN],
            length : Seq(Nat), sent : Nat, finals : Nat]

ConnType == [alive : BOOLEAN, close_after : BOOLEAN, draining : BOOLEAN,
             in_flight : BOOLEAN, last_head : BOOLEAN, minor : {0, 1},
             out : ByteBufs(Units)]

Wires == {w \in Seq(Units) : Len(w) <= SendRoom}

K == [c : ConnType, wire : Wires, queued : Seq(Entries)]

(* j is k with the connection d.                                           *)
With(k, d, j) == j = [k EXCEPT !.c = d]
Holds(k, d, j) == j \in K /\ j.c = d /\ j.wire = k.wire /\ j.queued = k.queued

LEMMA OtherConn ==
  ASSUME NEW k \in K, NEW d \in ConnType, NEW j, With(k, d, j)
  PROVE  Holds(k, d, j)
  <1> USE DEF With, Holds
  <1>1. j.c = d /\ j.wire = k.wire /\ j.queued = k.queued
    BY DEF K
  <1>2. j = [c |-> j.c, wire |-> j.wire, queued |-> j.queued]
    BY DEF K
  <1>3. k.wire \in Wires /\ k.queued \in Seq(Entries)
    BY DEF K
  <1>4. j \in K
    BY <1>1, <1>2, <1>3 DEF K
  <1> QED
    BY <1>1, <1>4

-----------------------------------------------------------------------------
(* Writing                                                                 *)

(* What the concatenation u of s and t is.                                 *)
IsJoin(S, s, t, u) ==
  /\ u \in Seq(S) /\ Len(u) = Len(s) + Len(t)
  /\ \A i \in 1..Len(s) : u[i] = s[i]
  /\ \A i \in 1..Len(t) : u[Len(s) + i] = t[i]

LEMMA JoinFacts ==
  ASSUME NEW S, NEW s \in Seq(S), NEW t \in Seq(S)
  PROVE  IsJoin(S, s, t, s \o t)
  BY SMT DEF IsJoin

(* The first n elements of t can be moved to the end of s.                 *)
Moves(S, s, t, n) ==
  /\ SubSeq(t, 1, n) \in Seq(S) /\ Len(SubSeq(t, 1, n)) = n
  /\ s \o t = (s \o SubSeq(t, 1, n)) \o SubSeq(t, n + 1, Len(t))

LEMMA CutAndJoin ==
  ASSUME NEW S, NEW s \in Seq(S), NEW t \in Seq(S), NEW n \in 0..Len(t)
  PROVE  Moves(S, s, t, n)
  <1> DEFINE b == SubSeq(t, 1, n)
             e == SubSeq(t, n + 1, Len(t))
             u == s \o b
             v == u \o e
             w == s \o t
  <1>1. /\ b \in Seq(S) /\ Len(b) = n /\ \A i \in 1..n : b[i] = t[i]
        /\ e \in Seq(S) /\ Len(e) = Len(t) - n /\ \A i \in 1..Len(e) : e[i] = t[n + i]
    BY SMT
  <1> HIDE DEF b, e
  <1>2. IsJoin(S, s, b, u)
    BY <1>1, JoinFacts
  <1> HIDE DEF u
  <1>3. IsJoin(S, u, e, v)
    <2>1. u \in Seq(S)
      BY <1>2 DEF IsJoin
    <2> QED
      BY <1>1, <2>1, JoinFacts
  <1>4. IsJoin(S, s, t, w)
    BY JoinFacts
  <1> HIDE DEF v, w
  <1>5. Len(s) \in Nat /\ Len(t) \in Nat /\ n \in Nat /\ n <= Len(t)
    BY SMT
  <1>6. Len(v) = Len(w) /\ v \in Seq(S) /\ w \in Seq(S) /\ Len(w) = Len(s) + Len(t)
    BY SMT, <1>1, <1>2, <1>3, <1>4, <1>5 DEF IsJoin
  <1>7. ASSUME NEW i \in 1..Len(w) PROVE w[i] = v[i]
    <2>1. CASE i <= Len(s)
      <3>1. i \in 1..Len(s) /\ i \in 1..Len(u)
        BY SMT, <1>1, <1>2, <1>5, <2>1 DEF IsJoin
      <3> QED
        BY <1>2, <1>3, <1>4, <3>1 DEF IsJoin
    <2>2. CASE Len(s) < i /\ i <= Len(s) + n
      <3> DEFINE j == i - Len(s)
      <3>1. i = Len(s) + j /\ j \in 1..Len(b) /\ j \in 1..Len(t) /\ j \in 1..n /\ i \in 1..Len(u)
        BY SMT, <1>1, <1>2, <1>5, <2>2 DEF IsJoin
      <3> HIDE DEF j
      <3>2. w[i] = t[j] /\ v[i] = u[i]
        BY <1>3, <1>4, <3>1 DEF IsJoin
      <3>3. u[i] = b[j] /\ b[j] = t[j]
        BY <1>1, <1>2, <3>1 DEF IsJoin
      <3> QED
        BY <3>2, <3>3
    <2>3. CASE Len(s) + n < i
      <3> DEFINE j == i - Len(u)
      <3>1. Len(u) = Len(s) + n
        BY <1>1, <1>2 DEF IsJoin
      <3>2. /\ i = Len(u) + j /\ j \in 1..Len(e) /\ n + j \in 1..Len(t)
            /\ i = Len(s) + (n + j)
        BY SMT, <1>1, <1>5, <1>6, <2>3, <3>1
      <3> HIDE DEF j
      <3>3. w[i] = t[n + j] /\ v[i] = e[j]
        BY <1>3, <1>4, <3>2 DEF IsJoin
      <3> QED
        BY <1>1, <3>2, <3>3
    <2> QED
      BY SMT, <1>5, <1>6, <2>1, <2>2, <2>3
  <1>8. w = v
    BY <1>6, <1>7, SameSequence
  <1> QED
    BY <1>1, <1>8 DEF Moves, w, v, u, b, e

(* flush() moves bytes from out_ to the socket and changes nothing else.   *)
LEMMA FlushFacts ==
  ASSUME NEW k \in K
  PROVE  /\ flush(k) \in K /\ flush(k).queued = k.queued
         /\ flush(k).c = [k.c EXCEPT !.out = flush(k).c.out]
         /\ size(flush(k).c.out) <= size(k.c.out)
         /\ Len(flush(k).c.out.data) <= Len(k.c.out.data)
         /\ flush(k).wire \o view(flush(k).c.out) = k.wire \o view(k.c.out)
  <1> DEFINE b == k.c.out
             n == Least2(SendRoom - Len(k.wire), size(b))
  <1>1. /\ k.c \in ConnType /\ b \in ByteBufs(Units) /\ k.wire \in Wires
        /\ k.wire \in Seq(Units) /\ Len(k.wire) <= SendRoom
    BY DEF K, ConnType, Wires
  <1>2. /\ view(b) \in Seq(Units) /\ size(b) \in Nat /\ Len(view(b)) = size(b)
        /\ Len(b.data) \in Nat
    <2>1. Len(b.data) \in Nat
      BY SMT, <1>1 DEF ByteBufs
    <2> QED
      BY <1>1, <2>1, ViewFacts
  <1>3. CASE ~k.c.alive
    <2>1. flush(k) = k
      BY <1>3 DEF flush
    <2>2. k.c = [k.c EXCEPT !.out = b]
      BY SMT, <1>1 DEF ConnType
    <2>3. size(b) <= size(b) /\ Len(b.data) <= Len(b.data)
      BY SMT, <1>2
    <2> QED
      BY <2>1, <2>2, <2>3
  <1>4. CASE k.c.alive
    <2>1. flush(k) = [k EXCEPT !.wire = k.wire \o SubSeq(view(b), 1, n),
                               !.c.out = consume(b, n)]
      BY <1>4 DEF flush
    <2>2. n \in 0..size(b) /\ n <= SendRoom - Len(k.wire)
      BY SMT, <1>1, <1>2, DeliveryAssumption DEF Least2
    <2> HIDE DEF n
    <2>3. /\ consume(b, n) \in ByteBufs(Units)
          /\ view(consume(b, n)) = SubSeq(view(b), n + 1, Len(view(b)))
      BY <1>1, <2>2, ConsumeDrops
    <2>4. /\ SubSeq(view(b), 1, n) \in Seq(Units) /\ Len(SubSeq(view(b), 1, n)) = n
          /\ k.wire \o view(b)
               = (k.wire \o SubSeq(view(b), 1, n)) \o SubSeq(view(b), n + 1, Len(view(b)))
      <3>1. n \in 0..Len(view(b))
        BY <1>2, <2>2
      <3>2. Moves(Units, k.wire, view(b), n)
        BY <1>1, <1>2, <3>1, CutAndJoin
      <3> QED
        BY <3>2 DEF Moves
    <2>5. k.wire \o SubSeq(view(b), 1, n) \in Wires
      <3>1. /\ k.wire \o SubSeq(view(b), 1, n) \in Seq(Units)
            /\ Len(k.wire \o SubSeq(view(b), 1, n)) = Len(k.wire) + n
        <4> DEFINE x == SubSeq(view(b), 1, n)
        <4>1. IsJoin(Units, k.wire, x, k.wire \o x)
          BY <1>1, <2>4, JoinFacts
        <4> QED
          BY <2>4, <4>1 DEF IsJoin
      <3>2. Len(k.wire) + n <= SendRoom
        BY SMT, <1>1, <2>2, DeliveryAssumption
      <3> QED
        BY <3>1, <3>2 DEF Wires
    <2>6. /\ flush(k).wire = k.wire \o SubSeq(view(b), 1, n)
          /\ flush(k).c = [k.c EXCEPT !.out = consume(b, n)]
          /\ flush(k).c.out = consume(b, n) /\ flush(k).queued = k.queued
          /\ flush(k) \in K
      <3> DEFINE w == k.wire \o SubSeq(view(b), 1, n)
                 o == consume(b, n)
      <3> HIDE DEF w, o
      <3>1. o \in ByteBufs(Units) /\ w \in Wires
        BY <2>3, <2>5 DEF w, o
      <3>2. flush(k) = [k EXCEPT !.wire = w, !.c.out = o]
        BY <2>1 DEF w, o
      <3>3. [k.c EXCEPT !.out = o] \in ConnType /\ [k.c EXCEPT !.out = o].out = o
        BY <1>1, <3>1 DEF ConnType
      <3>4. /\ flush(k).wire = w /\ flush(k).c = [k.c EXCEPT !.out = o]
            /\ flush(k).queued = k.queued
        BY <3>2 DEF K
      <3>5. flush(k) = [c |-> flush(k).c, wire |-> flush(k).wire,
                        queued |-> flush(k).queued]
        BY <3>2 DEF K
      <3>6. flush(k) \in K
        BY <3>1, <3>3, <3>4, <3>5 DEF K
      <3> QED
        BY <3>3, <3>4, <3>6 DEF w, o
    <2>7. size(consume(b, n)) <= size(b)
      <3>1. size(consume(b, n)) = Len(SubSeq(view(b), n + 1, Len(view(b))))
        BY <2>3, ViewFacts
      <3> QED
        BY SMT, <1>2, <2>2, <3>1
    <2>8. Len(consume(b, n).data) <= Len(b.data)
      BY SMT, <1>1, <1>2 DEF consume, EmptyBuf, ByteBufs
    <2> QED
      BY <2>3, <2>4, <2>6, <2>7, <2>8
  <1> QED
    BY <1>3, <1>4

-----------------------------------------------------------------------------
(* Responses on the wire                                                   *)

HeadOf(res) ==
  MessageHead(res.status, res.minor,
              IF res.no_body_framing THEN <<>> ELSE <<res.body>>,
              IF ~res.keep_alive THEN "close"
              ELSE IF res.minor = 0 THEN "keep-alive" ELSE "")
Body(res) == IF res.send_body THEN res.body ELSE 0

(* A head and then body bytes, and nothing else.                           *)
IsMessage(bytes, head, body) ==
  /\ bytes \in Seq(Units) /\ Len(bytes) = body + 1 /\ bytes[1] = head
  /\ \A i \in 2..Len(bytes) : bytes[i] = BodyByte

LEMMA HeadIsUnit ==
  ASSUME NEW res \in Responses
  PROVE  HeadOf(res) \in Heads /\ HeadOf(res) \in Units
  <1> DEFINE l == IF res.no_body_framing THEN <<>> ELSE <<res.body>>
             w == IF ~res.keep_alive THEN "close"
                  ELSE IF res.minor = 0 THEN "keep-alive" ELSE ""
  <1>1. /\ res.status \in Statuses /\ res.minor \in {0, 1} /\ res.body \in Nat
    BY DEF Responses
  <1>2. HeadOf(res) = MessageHead(res.status, res.minor, l, w)
    BY DEF HeadOf
  <1>3. <<>> \in Seq(Nat) /\ <<res.body>> \in Seq(Nat)
    BY SMT, <1>1
  <1>4. l \in Seq(Nat) /\ w \in Persistence
    BY <1>3 DEF Persistence
  <1> HIDE DEF l, w
  <1>5. HeadOf(res) = [kind |-> "head", status |-> res.status, minor |-> res.minor,
                       length |-> l, connection |-> w]
    BY <1>2 DEF MessageHead
  <1>6. HeadOf(res) \in Heads
    BY SMT, <1>1, <1>4, <1>5 DEF Heads
  <1> QED
    BY <1>6 DEF Units

(* serialize_response() writes the head and, if it is to be sent, the body. *)
LEMMA Serialized ==
  ASSUME NEW res \in Responses
  PROVE  IsMessage(serialize_response(res), HeadOf(res), Body(res))
  <1> DEFINE h == <<HeadOf(res)>>
             b == [i \in 1..Body(res) |-> BodyByte]
             u == h \o b
  <1>1. Body(res) \in Nat /\ HeadOf(res) \in Units /\ BodyByte \in Units
    BY SMT, HeadIsUnit DEF Body, Responses, Units
  <1>2. serialize_response(res) = u
    BY DEF serialize_response, HeadOf, Body
  <1> HIDE DEF Body, HeadOf, BodyByte, Units
  <1>3. h \in Seq(Units) /\ Len(h) = 1 /\ h[1] = HeadOf(res)
    BY SMT, <1>1
  <1>4. b \in Seq(Units) /\ Len(b) = Body(res) /\ \A i \in 1..Body(res) : b[i] = BodyByte
    BY SMT, <1>1
  <1> HIDE DEF h, b
  <1>5. IsJoin(Units, h, b, u)
    BY <1>3, <1>4, JoinFacts
  <1> HIDE DEF u
  <1>6. u \in Seq(Units) /\ Len(u) = Body(res) + 1 /\ u[1] = HeadOf(res)
    <2>1. u \in Seq(Units) /\ Len(u) = 1 + Body(res)
      BY <1>3, <1>4, <1>5 DEF IsJoin
    <2>2. 1 \in 1..Len(h)
      BY SMT, <1>3
    <2>3. u[1] = HeadOf(res)
      BY <1>3, <1>5, <2>2 DEF IsJoin
    <2> QED
      BY SMT, <1>1, <2>1, <2>3
  <1>7. ASSUME NEW i \in 2..Len(u) PROVE u[i] = BodyByte
    <2> DEFINE j == i - 1
    <2>1. j \in 1..Body(res) /\ i = 1 + j
      BY SMT, <1>1, <1>6
    <2> HIDE DEF j
    <2>2. u[1 + j] = b[j]
      BY <1>3, <1>4, <1>5, <2>1 DEF IsJoin
    <2> QED
      BY <1>4, <2>1, <2>2
  <1> QED
    BY <1>2, <1>6, <1>7 DEF IsMessage

(* What the client is told: the end exactly if keep_alive is not set, and  *)
(* the body's length unless there is none to come.                         *)
Said(res, n) ==
  [status |-> res.status,
   body |-> IF res.status \in {"100", "204", "304"} \/ ToHead(n) THEN 0 ELSE res.body,
   close |-> ~res.keep_alive]

LEMMA HeadSays ==
  ASSUME NEW res \in Responses, Framed(res), NEW n
  PROVE  Told(HeadOf(res), n) = Said(res, n)
  <1> DEFINE h == HeadOf(res)
  <1>1. /\ h.status = res.status /\ h.minor = res.minor
        /\ h.length = IF res.no_body_framing THEN <<>> ELSE <<res.body>>
        /\ h.connection = IF ~res.keep_alive THEN "close"
                          ELSE IF res.minor = 0 THEN "keep-alive" ELSE ""
    BY DEF HeadOf, MessageHead
  <1> HIDE DEF h
  <1>2. Closing(h) = ~res.keep_alive
    <2>1. res.keep_alive \in BOOLEAN
      BY DEF Responses
    <2>2. Closing(h) \in BOOLEAN /\ (Closing(h) <=> ~res.keep_alive)
      BY <1>1, <2>1 DEF Closing
    <2> QED
      BY <2>1, <2>2
  <1>3. BodyOf(h, n) = IF res.status \in {"100", "204", "304"} \/ ToHead(n)
                       THEN 0 ELSE res.body
    <2>1. CASE res.status \in {"100", "204", "304"} \/ ToHead(n)
      BY <1>1, <2>1 DEF BodyOf
    <2>2. CASE ~(res.status \in {"100", "204", "304"} \/ ToHead(n))
      <3>1. ~res.no_body_framing
        BY <2>2 DEF Framed
      <3>2. h.length[1] = res.body
        <4>1. h.length = <<res.body>>
          BY <1>1, <3>1
        <4> QED
          BY SMT, <4>1
      <3> QED
        BY <1>1, <2>2, <3>2 DEF BodyOf
    <2> QED
      BY <2>1, <2>2
  <1> QED
    BY <1>1, <1>2, <1>3 DEF Told, Said, h

-----------------------------------------------------------------------------
(* Queueing                                                                *)

(* The entry of a response in the ghost; sent is the body that goes out.   *)
EntryOf(q, res, sent) ==
  [told |-> Said(res, Finals(q) + 1),
   length |-> IF res.no_body_framing THEN <<>> ELSE <<res.body>>,
   sent |-> sent, finals |-> Finals(q) + Final(res)]

(* The number of final responses so far.                                   *)
LEMMA FinalsFacts ==
  ASSUME NEW q \in Seq(Entries)
  PROVE  /\ Finals(q) \in Nat
         /\ \A e \in Entries : /\ Append(q, e) \in Seq(Entries)
                               /\ Len(Append(q, e)) = Len(q) + 1
                               /\ Append(q, e)[Len(q) + 1] = e
                               /\ Finals(Append(q, e)) = e.finals
                               /\ \A i \in 1..Len(q) : Append(q, e)[i] = q[i]
  <1>1. Finals(q) \in Nat
    <2>1. CASE q = <<>>
      BY SMT, <2>1 DEF Finals
    <2>2. CASE q # <<>>
      <3>1. q[Len(q)] \in Entries
        BY SMT, <2>2
      <3> QED
        BY <2>2, <3>1 DEF Finals, Entries
    <2> QED
      BY <2>1, <2>2
  <1>2. ASSUME NEW e \in Entries
        PROVE  /\ Append(q, e) \in Seq(Entries)
               /\ Len(Append(q, e)) = Len(q) + 1
               /\ Append(q, e)[Len(q) + 1] = e
               /\ Append(q, e) # <<>>
               /\ \A i \in 1..Len(q) : Append(q, e)[i] = q[i]
    BY SMT
  <1>3. ASSUME NEW e \in Entries PROVE Finals(Append(q, e)) = e.finals
    BY <1>2 DEF Finals
  <1> QED
    BY <1>1, <1>2, <1>3

(* A new entry is an entry.                                                *)
LEMMA EntryIsEntry ==
  ASSUME NEW q \in Seq(Entries), NEW res \in Responses, NEW sent \in Nat
  PROVE  EntryOf(q, res, sent) \in Entries
  <1>1. /\ res.status \in Statuses /\ res.body \in Nat /\ (~res.keep_alive) \in BOOLEAN
    BY DEF Responses
  <1>2. Finals(q) + Final(res) \in Nat
    BY SMT, FinalsFacts DEF Final
  <1>3. Said(res, Finals(q) + 1) \in [status : Statuses, body : Nat, close : BOOLEAN]
    <2> DEFINE b == IF res.status \in {"100", "204", "304"} \/ ToHead(Finals(q) + 1)
                    THEN 0 ELSE res.body
               c == ~res.keep_alive
    <2>1. b \in Nat /\ c \in BOOLEAN
      BY SMT, <1>1
    <2>2. Said(res, Finals(q) + 1) = [status |-> res.status, body |-> b, close |-> c]
      BY DEF Said
    <2> HIDE DEF b, c
    <2> QED
      BY SMT, <1>1, <2>1, <2>2
  <1>4. <<>> \in Seq(Nat) /\ <<res.body>> \in Seq(Nat)
    BY SMT, <1>1
  <1>5. (IF res.no_body_framing THEN <<>> ELSE <<res.body>>) \in Seq(Nat)
    BY <1>4
  <1> QED
    BY <1>2, <1>3, <1>5 DEF EntryOf, Entries

(* A response is queued: its bytes are behind the output, its entry is the *)
(* last one, and of the connection only the output and close_after change. *)
Queues(k, q, res, bytes, sent) ==
  /\ q \in K /\ sent \in Nat /\ bytes \in Seq(Units)
  /\ IsMessage(bytes, HeadOf(res), sent)
  /\ q.wire = k.wire
  /\ q.queued = Append(k.queued, EntryOf(k.queued, res, sent))
  /\ q.c = [k.c EXCEPT !.out = q.c.out, !.close_after = q.c.close_after]
  /\ q.c.close_after <=> k.c.close_after \/ ~res.keep_alive \/ res.close_after
  /\ view(q.c.out) = view(k.c.out) \o bytes
  /\ size(q.c.out) = size(k.c.out) + 1 + sent

(* The same, as the operators put it together.                             *)
PutTogether(k, q, res, bytes, sent, out, close) ==
  /\ out \in ByteBufs(Units) /\ view(out) = view(k.c.out) \o bytes
  /\ close \in BOOLEAN
  /\ close = (k.c.close_after \/ ~res.keep_alive \/ res.close_after)
  /\ q = [c |-> [k.c EXCEPT !.out = out, !.close_after = close],
          wire |-> k.wire,
          queued |-> Append(k.queued, EntryOf(k.queued, res, sent))]

LEMMA QueuesIntro ==
  ASSUME NEW k \in K, NEW q, NEW res \in Responses, NEW bytes, NEW sent \in Nat,
         IsMessage(bytes, HeadOf(res), sent), NEW out, NEW close,
         PutTogether(k, q, res, bytes, sent, out, close)
  PROVE  Queues(k, q, res, bytes, sent) /\ q.c.out = out
  <1> USE DEF PutTogether
  <1> DEFINE d == [k.c EXCEPT !.out = out, !.close_after = close]
             e == EntryOf(k.queued, res, sent)
  <1>1. /\ k.c \in ConnType /\ k.wire \in Wires /\ k.queued \in Seq(Entries)
        /\ k.c.out \in ByteBufs(Units)
    BY DEF K, ConnType
  <1>2. d \in ConnType /\ d.out = out /\ d.close_after = close
    BY <1>1 DEF ConnType
  <1>3. Append(k.queued, e) \in Seq(Entries)
    BY <1>1, EntryIsEntry, FinalsFacts
  <1> HIDE DEF d, e
  <1>4. /\ q = [c |-> d, wire |-> k.wire, queued |-> Append(k.queued, e)]
        /\ q.c = d /\ q.wire = k.wire /\ q.queued = Append(k.queued, e)
    BY DEF d, e
  <1>5. q \in K
    BY <1>1, <1>2, <1>3, <1>4 DEF K
  <1>6. bytes \in Seq(Units) /\ Len(bytes) = sent + 1
    BY DEF IsMessage
  <1>7. size(out) = size(k.c.out) + 1 + sent
    <2>1. /\ Len(view(out)) = size(out)
          /\ Len(view(k.c.out)) = size(k.c.out) /\ view(k.c.out) \in Seq(Units)
          /\ size(k.c.out) \in Nat
      BY <1>1, ViewFacts
    <2>2. IsJoin(Units, view(k.c.out), bytes, view(out))
      BY <1>6, <2>1, JoinFacts
    <2>3. size(out) = size(k.c.out) + (sent + 1)
      BY <1>6, <2>1, <2>2 DEF IsJoin
    <2> QED
      BY SMT, <2>1, <2>3
  <1>8. d = [k.c EXCEPT !.out = d.out, !.close_after = d.close_after]
    BY <1>2 DEF d
  <1> QED
    BY <1>2, <1>4, <1>5, <1>6, <1>7, <1>8 DEF Queues, e

(* queue_response() queues the response, and closes after it if it tells   *)
(* the client so; last_head suppresses the body, not the head.             *)
LEMMA QueueResponseFacts ==
  ASSUME NEW k \in K, NEW res \in Responses, Framed(res)
  PROVE  \E bytes \in Seq(Units), sent \in Nat :
           /\ Queues(k, queue_response(k, res), res, bytes, sent)
           /\ sent = IF res.send_body /\ ~k.c.last_head THEN res.body ELSE 0
           /\ Len(queue_response(k, res).c.out.data) = size(k.c.out) + 1 + sent
  <1> DEFINE shown == [res EXCEPT !.send_body = @ /\ ~k.c.last_head]
             bytes == serialize_response(shown)
             sent == Body(shown)
  <1>1. k.c \in ConnType /\ k.c.last_head \in BOOLEAN /\ res.send_body \in BOOLEAN
    BY DEF K, ConnType, Responses
  <1>2. /\ shown \in Responses /\ HeadOf(shown) = HeadOf(res)
        /\ shown.send_body = (res.send_body /\ ~k.c.last_head)
        /\ shown.body = res.body /\ shown.keep_alive = res.keep_alive
        /\ shown.close_after = res.close_after
    BY <1>1 DEF Responses, HeadOf
  <1>3. IsMessage(bytes, HeadOf(res), sent)
    BY <1>2, Serialized
  <1>4. sent = (IF res.send_body /\ ~k.c.last_head THEN res.body ELSE 0) /\ sent \in Nat
    BY SMT, <1>2 DEF Body, Responses
  <1>5. queue_response(k, res)
          = [k EXCEPT !.c.out = append_to_target(@, bytes),
                      !.c.close_after = @ \/ ~shown.keep_alive \/ shown.close_after,
                      !.queued = Recorded(k, bytes)]
    BY DEF queue_response
  <1> HIDE DEF bytes, sent, shown
  <1>6. Recorded(k, bytes) = Append(k.queued, EntryOf(k.queued, res, sent))
    <2>1. bytes[1] = HeadOf(res) /\ Len(bytes) = sent + 1
      BY <1>3 DEF IsMessage
    <2>2. Len(bytes) - 1 = sent
      BY SMT, <1>4, <2>1
    <2>3. Told(bytes[1], Finals(k.queued) + 1) = Said(res, Finals(k.queued) + 1)
      BY <2>1, HeadSays
    <2>4. /\ bytes[1].length = IF res.no_body_framing THEN <<>> ELSE <<res.body>>
          /\ Final(bytes[1]) = Final(res)
      <3>1. /\ HeadOf(res).length = IF res.no_body_framing THEN <<>> ELSE <<res.body>>
            /\ HeadOf(res).status = res.status
        BY DEF HeadOf, MessageHead
      <3> QED
        BY <2>1, <3>1 DEF Final
    <2> QED
      BY <2>2, <2>3, <2>4 DEF Recorded, EntryOf
  <1>7. k = [c |-> k.c, wire |-> k.wire, queued |-> k.queued]
    BY DEF K
  <1>8. queue_response(k, res)
          = [c |-> [k.c EXCEPT !.out = append_to_target(k.c.out, bytes),
                               !.close_after = @ \/ ~res.keep_alive \/ res.close_after],
             wire |-> k.wire,
             queued |-> Append(k.queued, EntryOf(k.queued, res, sent))]
    BY <1>2, <1>5, <1>6, <1>7
  <1>9. bytes \in Seq(Units) /\ Len(bytes) = sent + 1
    BY <1>3 DEF IsMessage
  <1> DEFINE out == append_to_target(k.c.out, bytes)
             close == k.c.close_after \/ ~res.keep_alive \/ res.close_after
  <1>10. k.c.out \in ByteBufs(Units) /\ close \in BOOLEAN
    BY <1>1 DEF ConnType
  <1>11. /\ out \in ByteBufs(Units) /\ view(out) = view(k.c.out) \o bytes
         /\ Len(out.data) = size(k.c.out) + Len(bytes)
    BY <1>9, <1>10, AppendTargetAdds
  <1>12. queue_response(k, res)
           = [c |-> [k.c EXCEPT !.out = out, !.close_after = close],
              wire |-> k.wire,
              queued |-> Append(k.queued, EntryOf(k.queued, res, sent))]
    BY <1>8
  <1> HIDE DEF out
  <1>13. close = (k.c.close_after \/ ~res.keep_alive \/ res.close_after)
    OBVIOUS
  <1> HIDE DEF close
  <1> DEFINE q == queue_response(k, res)
  <1> HIDE DEF q
  <1>14. Queues(k, q, res, bytes, sent) /\ q.c.out = out
    <2>1. q = [c |-> [k.c EXCEPT !.out = out, !.close_after = close],
               wire |-> k.wire,
               queued |-> Append(k.queued, EntryOf(k.queued, res, sent))]
      BY <1>12 DEF q
    <2>2. PutTogether(k, q, res, bytes, sent, out, close)
      BY <1>10, <1>11, <1>13, <2>1 DEF PutTogether
    <2> QED
      BY <1>3, <1>4, <2>2, QueuesIntro
  <1>15. size(k.c.out) + Len(bytes) = size(k.c.out) + 1 + sent
    <2>1. size(k.c.out) \in Nat
      BY <1>10, ViewFacts
    <2> QED
      BY SMT, <1>4, <1>9, <2>1
  <1> QED
    BY <1>4, <1>9, <1>11, <1>14, <1>15 DEF q

(* The errors the connection itself answers with.                          *)
ErrorOf(k, status) == [make_error_response(status, FALSE) EXCEPT !.minor = k.c.minor]

LEMMA ErrorIsResponse ==
  ASSUME NEW k \in K, NEW status \in LoopError
  PROVE  /\ ErrorOf(k, status) \in Responses /\ Framed(ErrorOf(k, status))
         /\ ErrorOf(k, status).status = status /\ ~ErrorOf(k, status).keep_alive
         /\ ErrorOf(k, status).body = 1 /\ Final(ErrorOf(k, status)) = 1
  <1>1. /\ status \notin {"100", "204", "304"} /\ status \in Statuses
    BY DEF LoopError, Statuses
  <1>2. k.c.minor \in {0, 1}
    BY DEF K, ConnType
  <1> DEFINE bare == status \in {"204", "304"}
             p == Plain(status, 1)
             m == [p EXCEPT !.keep_alive = FALSE, !.send_body = TRUE,
                            !.no_body_framing = FALSE]
             e == [m EXCEPT !.minor = k.c.minor]
  <1>3. ErrorOf(k, status) = e
    <2>1. bare = FALSE
      BY SMT, <1>1
    <2>2. make_error_response(status, FALSE)
            = [Plain(status, IF bare THEN 0 ELSE Text)
                 EXCEPT !.keep_alive = FALSE, !.send_body = ~bare,
                        !.no_body_framing = bare]
      BY DEF make_error_response
    <2> HIDE DEF bare
    <2>3. (IF bare THEN 0 ELSE Text) = 1 /\ (~bare) = TRUE
      BY <2>1 DEF Text
    <2> QED
      BY <2>1, <2>2, <2>3 DEF ErrorOf
  <1>4. p \in Responses /\ p.status = status /\ p.body = 1
    BY SMT, <1>1 DEF Plain, Responses
  <1> HIDE DEF p
  <1>5. /\ m \in Responses /\ m.status = status /\ m.body = 1
        /\ ~m.keep_alive /\ ~m.no_body_framing
    BY <1>4 DEF Responses
  <1> HIDE DEF m
  <1>6. /\ e \in Responses /\ e.status = status /\ e.body = 1
        /\ ~e.keep_alive /\ ~e.no_body_framing
    BY <1>2, <1>5 DEF Responses
  <1> QED
    BY <1>1, <1>3, <1>6 DEF Framed, Final

(* queue_error() queues an error and closes after it.                      *)
LEMMA QueueErrorFacts ==
  ASSUME NEW k \in K, NEW status \in LoopError
  PROVE  \E bytes \in Seq(Units), sent \in 0..1 :
           /\ Queues(k, queue_error(k, status), ErrorOf(k, status), bytes, sent)
           /\ Len(queue_error(k, status).c.out.data) <= size(k.c.out) + 2
  <1> DEFINE res == ErrorOf(k, status)
             q == queue_response(k, res)
  <1>1. /\ res \in Responses /\ Framed(res) /\ ~res.keep_alive /\ res.body = 1
    BY ErrorIsResponse
  <1>2. queue_error(k, status) = [q EXCEPT !.c.close_after = TRUE]
    BY DEF queue_error, ErrorOf
  <1> HIDE DEF res
  <1>3. PICK bytes \in Seq(Units), sent \in Nat :
          /\ Queues(k, q, res, bytes, sent)
          /\ sent = IF res.send_body /\ ~k.c.last_head THEN res.body ELSE 0
          /\ Len(q.c.out.data) = size(k.c.out) + 1 + sent
    BY <1>1, QueueResponseFacts
  <1> HIDE DEF q
  <1>4. q \in K /\ q.c \in ConnType /\ q.c.close_after = TRUE
    BY <1>1, <1>3 DEF Queues, K, ConnType
  <1>5. queue_error(k, status) = q
    <2>1. [q.c EXCEPT !.close_after = TRUE] = q.c
      BY <1>4 DEF ConnType
    <2>2. [q EXCEPT !.c.close_after = TRUE] = [q EXCEPT !.c = [q.c EXCEPT !.close_after = TRUE]]
      OBVIOUS
    <2>3. [q EXCEPT !.c = q.c] = q
      BY <1>4 DEF K
    <2> QED
      BY <1>2, <2>1, <2>2, <2>3
  <1>6. sent \in 0..1
    BY SMT, <1>1, <1>3
  <1>7. size(k.c.out) \in Nat
    BY ViewFacts DEF K, ConnType
  <1>8. Len(q.c.out.data) <= size(k.c.out) + 2
    BY SMT, <1>3, <1>6, <1>7
  <1> QED
    BY <1>3, <1>5, <1>6, <1>8 DEF res

(* The interim response as if it were one of serialize_response()'s.       *)
ContinueRes == [status |-> "100", minor |-> 1, keep_alive |-> TRUE,
                close_after |-> FALSE, send_body |-> FALSE,
                no_body_framing |-> TRUE, body |-> 0]

LEMMA ContinueIsResponse ==
  /\ ContinueRes \in Responses /\ Framed(ContinueRes) /\ ContinueRes.keep_alive
  /\ ~ContinueRes.close_after /\ Final(ContinueRes) = 0
  /\ kContinue = <<HeadOf(ContinueRes)>>
  /\ IsMessage(kContinue, HeadOf(ContinueRes), 0)
  <1>1. ContinueRes \in Responses
    <2>1. "100" \in Statuses
      BY DEF Statuses
    <2> QED
      BY SMT, <2>1 DEF ContinueRes, Responses
  <1>2. kContinue = <<HeadOf(ContinueRes)>>
    <2>1. /\ ContinueRes.status = "100" /\ ContinueRes.minor = 1
          /\ ContinueRes.keep_alive /\ ContinueRes.no_body_framing
      BY SMT DEF ContinueRes
    <2>2. ContinueRes.minor # 0
      BY SMT, <2>1
    <2> QED
      BY <2>1, <2>2 DEF kContinue, HeadOf
  <1>3. HeadOf(ContinueRes) \in Units
    BY <1>1, HeadIsUnit
  <1> HIDE DEF HeadOf
  <1>4. IsMessage(kContinue, HeadOf(ContinueRes), 0)
    BY SMT, <1>2, <1>3 DEF IsMessage
  <1> QED
    BY <1>1, <1>2, <1>4 DEF ContinueRes, Framed, Final

(* drain_requests() queues the 100 and flushes.                            *)
LEMMA ContinuedFacts ==
  ASSUME NEW k \in K, NEW full \in BOOLEAN
  PROVE  \E q : /\ Queues(k, q, ContinueRes, kContinue, 0)
                /\ Continued(k, full) = flush(q)
                /\ Len(q.c.out.data) <= 2 * size(k.c.out) + 1
                /\ size(k.c.out) > 0 => Len(q.c.out.data) < 2 * size(k.c.out) + 1
  <1> DEFINE out == append(k.c.out, kContinue, full)
             q == [k EXCEPT !.c.out = append(@, kContinue, full),
                            !.queued = Recorded(k, kContinue)]
             close == k.c.close_after
             e == EntryOf(k.queued, ContinueRes, 0)
  <1>1. /\ k.c \in ConnType /\ k.c.out \in ByteBufs(Units) /\ close \in BOOLEAN
        /\ k = [c |-> k.c, wire |-> k.wire, queued |-> k.queued]
    BY DEF K, ConnType
  <1>2. /\ kContinue \in Seq(Units) /\ kContinue[1] = HeadOf(ContinueRes)
        /\ Len(kContinue) = 1 /\ 0 \in Nat
    BY SMT, ContinueIsResponse DEF IsMessage
  <1>3. /\ out \in ByteBufs(Units) /\ view(out) = view(k.c.out) \o kContinue
        /\ Len(out.data) <= 2 * size(k.c.out) + 1
        /\ size(k.c.out) > 0 => Len(out.data) < 2 * size(k.c.out) + 1
    BY <1>1, <1>2, AppendAdds
  <1>4. Recorded(k, kContinue) = Append(k.queued, e)
    <2>1. Told(kContinue[1], Finals(k.queued) + 1) = Said(ContinueRes, Finals(k.queued) + 1)
      BY <1>2, ContinueIsResponse, HeadSays
    <2>2. /\ HeadOf(ContinueRes).length = <<>> /\ HeadOf(ContinueRes).status = "100"
          /\ ContinueRes.no_body_framing /\ ContinueRes.status = "100"
      BY DEF HeadOf, MessageHead, ContinueRes
    <2>3. Len(kContinue) - 1 = 0
      BY SMT, <1>2
    <2>4. Final(kContinue[1]) = Final(ContinueRes)
      BY <1>2, <2>2 DEF Final
    <2> HIDE DEF kContinue, ContinueRes, HeadOf
    <2> QED
      BY <1>2, <2>1, <2>2, <2>3, <2>4 DEF Recorded, EntryOf
  <1>5. Continued(k, full) = flush(q)
    BY DEF Continued
  <1>6. q = [c |-> [k.c EXCEPT !.out = out], wire |-> k.wire,
             queued |-> Append(k.queued, e)]
    <2> HIDE DEF e
    <2>1. q = [k EXCEPT !.c.out = out, !.queued = Append(k.queued, e)]
      BY <1>4
    <2> HIDE DEF q, out
    <2>2. /\ q.c = [k.c EXCEPT !.out = out] /\ q.wire = k.wire
          /\ q.queued = Append(k.queued, e)
          /\ q = [c |-> q.c, wire |-> q.wire, queued |-> q.queued]
      BY <2>1 DEF K
    <2> QED
      BY <2>2
  <1> HIDE DEF out, q
  <1>7. [k.c EXCEPT !.out = out] = [k.c EXCEPT !.out = out, !.close_after = close]
    BY <1>1 DEF ConnType
  <1>8. close = (k.c.close_after \/ ~ContinueRes.keep_alive \/ ContinueRes.close_after)
    BY <1>1, ContinueIsResponse
  <1> HIDE DEF close, e
  <1>9. PutTogether(k, q, ContinueRes, kContinue, 0, out, close)
    BY <1>1, <1>3, <1>6, <1>7, <1>8 DEF PutTogether, e
  <1>10. Queues(k, q, ContinueRes, kContinue, 0) /\ q.c.out = out
    BY <1>2, <1>9, ContinueIsResponse, QueuesIntro
  <1> QED
    BY <1>3, <1>5, <1>10

-----------------------------------------------------------------------------
(* What the job answers                                                    *)

(* A response with this body and framing that a client can make sense of:  *)
(* it closes only if it says so, and without its body only after a HEAD or *)
(* where no body is expected.                                              *)
Sane(res, req, body, bare) ==
  /\ res \in Responses /\ res.body = body /\ res.no_body_framing = bare
  /\ bare <=> res.status \in {"204", "304"}
  /\ bare => ~res.send_body
  /\ ~bare => res.send_body \/ is_head(req)
  /\ res.status # "100"
  /\ res.close_after => ~res.keep_alive

LEMMA TextIsSane ==
  ASSUME NEW req \in Request, NEW body \in Nat
  PROVE  /\ Sane(text_response(req, body), req, body, FALSE)
         /\ Sane(closing_response(req), req, 1, FALSE)
  <1>1. /\ req.minor \in {0, 1} /\ req.keep_alive \in BOOLEAN
        /\ (~is_head(req)) \in BOOLEAN
    BY DEF Request, is_head
  <1>2. ASSUME NEW b \in Nat
        PROVE  LET r == text_response(req, b)
               IN  /\ r \in Responses /\ r.body = b /\ r.no_body_framing = FALSE
                   /\ r.status = "200" /\ r.send_body = ~is_head(req)
                   /\ r.close_after = FALSE
    <2> DEFINE p == Plain("200", b)
    <2>1. /\ p \in Responses /\ p.status = "200" /\ p.body = b
          /\ p.no_body_framing = FALSE /\ p.close_after = FALSE
      <3>1. "200" \in Statuses
        BY DEF Statuses
      <3> QED
        BY SMT, <3>1 DEF Plain, Responses
    <2>2. text_response(req, b)
            = [p EXCEPT !.minor = req.minor, !.keep_alive = req.keep_alive,
                        !.send_body = ~is_head(req)]
      BY DEF text_response
    <2> HIDE DEF p
    <2> QED
      BY <1>1, <2>1, <2>2 DEF Responses
  <1>3. Sane(text_response(req, body), req, body, FALSE)
    BY <1>1, <1>2 DEF Sane
  <1>4. Sane(closing_response(req), req, 1, FALSE)
    <2> DEFINE t == text_response(req, 1)
               c == [t EXCEPT !.close_after = TRUE, !.keep_alive = FALSE]
    <2>1. /\ t \in Responses /\ t.body = 1 /\ t.no_body_framing = FALSE
          /\ t.status = "200" /\ t.send_body = ~is_head(req)
      BY <1>2
    <2>2. closing_response(req) = c
      BY DEF closing_response, Text
    <2> HIDE DEF t
    <2>3. /\ c \in Responses /\ c.body = 1 /\ c.no_body_framing = FALSE
          /\ c.status = "200" /\ c.send_body = ~is_head(req) /\ c.keep_alive = FALSE
      BY <2>1 DEF Responses
    <2> QED
      BY <2>2, <2>3 DEF Sane
  <1> QED
    BY <1>3, <1>4

LEMMA ErrorIsSane ==
  ASSUME NEW req \in Request, NEW status \in {"400", "404", "405", "500"}
  PROVE  /\ Sane(error_response(req, status), req, 1, FALSE)
         /\ Sane(make_error_response(status, req.keep_alive), req, 1, FALSE)
  <1>1. /\ req.minor \in {0, 1} /\ req.keep_alive \in BOOLEAN
        /\ is_head(req) \in BOOLEAN
    BY DEF Request, is_head
  <1>2. status \in Statuses /\ status \notin {"100", "204", "304"}
    BY DEF Statuses
  <1> DEFINE bare == status \in {"204", "304"}
             p == Plain(status, 1)
             m == [p EXCEPT !.keep_alive = req.keep_alive, !.send_body = TRUE,
                            !.no_body_framing = FALSE]
             e == [m EXCEPT !.minor = req.minor, !.send_body = @ /\ ~is_head(req)]
  <1>3. make_error_response(status, req.keep_alive) = m
    <2>1. bare = FALSE
      BY SMT, <1>2
    <2>2. make_error_response(status, req.keep_alive)
            = [Plain(status, IF bare THEN 0 ELSE Text)
                 EXCEPT !.keep_alive = req.keep_alive, !.send_body = ~bare,
                        !.no_body_framing = bare]
      BY DEF make_error_response
    <2> HIDE DEF bare
    <2>3. (IF bare THEN 0 ELSE Text) = 1 /\ (~bare) = TRUE
      BY <2>1 DEF Text
    <2> QED
      BY <2>1, <2>2, <2>3
  <1>4. error_response(req, status) = e
    BY <1>3 DEF error_response
  <1>5. p \in Responses /\ p.status = status /\ p.body = 1 /\ p.close_after = FALSE
    BY SMT, <1>2 DEF Plain, Responses
  <1> HIDE DEF p
  <1>6. /\ m \in Responses /\ m.status = status /\ m.body = 1 /\ m.close_after = FALSE
        /\ m.send_body = TRUE /\ m.no_body_framing = FALSE
    BY <1>1, <1>5 DEF Responses
  <1> HIDE DEF m
  <1>7. /\ e \in Responses /\ e.status = status /\ e.body = 1 /\ e.close_after = FALSE
        /\ e.send_body = (m.send_body /\ ~is_head(req)) /\ e.no_body_framing = FALSE
    BY <1>1, <1>6 DEF Responses
  <1> HIDE DEF e
  <1> QED
    BY <1>1, <1>2, <1>3, <1>4, <1>6, <1>7 DEF Sane

LEMMA OptionsIsSane ==
  ASSUME NEW req \in Request
  PROVE  Sane(options_response(req), req, 0, TRUE)
  <1>1. req.minor \in {0, 1} /\ req.keep_alive \in BOOLEAN
    BY DEF Request
  <1> DEFINE p == Plain("204", 0)
             o == [p EXCEPT !.no_body_framing = TRUE, !.send_body = FALSE,
                            !.keep_alive = req.keep_alive, !.minor = req.minor]
  <1>2. options_response(req) = o
    BY DEF options_response
  <1>3. p \in Responses /\ p.status = "204" /\ p.body = 0 /\ p.close_after = FALSE
    <2>1. "204" \in Statuses
      BY DEF Statuses
    <2> QED
      BY SMT, <2>1 DEF Plain, Responses
  <1> HIDE DEF p
  <1>4. /\ o \in Responses /\ o.status = "204" /\ o.body = 0 /\ o.close_after = FALSE
        /\ o.send_body = FALSE /\ o.no_body_framing = TRUE
    BY <1>1, <1>3 DEF Responses
  <1> QED
    BY <1>2, <1>4 DEF Sane

(* What a route answers with, by its body and framing.                     *)
RouteBody(req, max, body, bare) ==
  body \in {1, req.body, Least2(extract_number(req), max)} \/ (bare /\ body = 0)

(* Every route makes sense, and a HEAD has the body and framing of the GET. *)
LEMMA RoutesAreSane ==
  ASSUME NEW req \in Request, NEW max \in Nat
  PROVE  \E body \in Nat, bare \in BOOLEAN :
           /\ Sane(handle_request(req, max), req, body, bare)
           /\ RouteBody(req, max, body, bare)
           /\ is_head(req) =>
                LET get == [req EXCEPT !.method = "Get"]
                IN  Sane(handle_request(get, max), get, body, bare)
  <1> DEFINE get == [req EXCEPT !.method = "Get"]
             big == Least2(extract_number(req), max)
             Both(body, bare) ==
               /\ Sane(handle_request(req, max), req, body, bare)
               /\ is_head(req) => Sane(handle_request(get, max), get, body, bare)
  <1>1. /\ req.method \in Method /\ req.path \in Path /\ req.body \in Nat
        /\ req.n \in Nat
    BY DEF Request
  <1>2. /\ get \in Request /\ get.method = "Get" /\ get.path = req.path
        /\ get.body = req.body /\ get.n = req.n
    BY DEF Request, Method
  <1>3. big \in Nat /\ Least2(extract_number(get), max) = big
    <2>1. extract_number(get) = extract_number(req)
      BY <1>2 DEF extract_number
    <2>2. big \in Nat
      BY SMT, <1>1, HandlerAssumption DEF extract_number, Least2
    <2> QED
      BY <2>1, <2>2
  <1> DEFINE Goal == \E body \in Nat, bare \in BOOLEAN : /\ Both(body, bare)
                                                      /\ RouteBody(req, max, body, bare)
  <1> HIDE DEF get
  <1>a. /\ Both(1, FALSE) => Goal
        /\ Both(req.body, FALSE) => Goal
        /\ Both(big, FALSE) => Goal
        /\ Both(0, TRUE) => Goal
    <2> HIDE DEF Both
    <2>1. 1 \in Nat /\ 0 \in Nat
      BY SMT
    <2>2. /\ RouteBody(req, max, 1, FALSE) /\ RouteBody(req, max, req.body, FALSE)
          /\ RouteBody(req, max, big, FALSE) /\ RouteBody(req, max, 0, TRUE)
      BY DEF RouteBody
    <2> QED
      BY <1>1, <1>3, <2>1, <2>2
  <1>b. SUFFICES Goal
    BY DEF get
  <1> HIDE DEF Goal, big
  <1>4. CASE req.method = "Options"
    <2>1. handle_request(req, max) = options_response(req) /\ ~is_head(req)
      BY <1>4 DEF handle_request, is_head
    <2>2. Both(0, TRUE)
      BY <2>1, OptionsIsSane
    <2> QED
      BY <1>a, <2>2
  <1>5. CASE req.method # "Options" /\ req.path = "*"
    <2>1. /\ handle_request(req, max) = error_response(req, "400")
          /\ handle_request(get, max) = error_response(get, "400")
      BY <1>2, <1>5 DEF handle_request
    <2>2. Both(1, FALSE)
      BY <1>2, <2>1, ErrorIsSane
    <2> QED
      BY <1>a, <2>2
  <1>6. CASE req.method \in {"Get", "Head"} /\ req.path # "*"
    <2>1. /\ handle_request(req, max) = handle_get_head(req, max)
          /\ handle_request(get, max) = handle_get_head(get, max)
      BY <1>2, <1>6 DEF handle_request
    <2>2. CASE req.path \in {"/", "/index.html", "/health", "/info", "/slow"}
      <3>1. /\ handle_get_head(req, max) = text_response(req, 1)
            /\ handle_get_head(get, max) = text_response(get, 1)
        BY <1>2, <2>2 DEF handle_get_head, Text
      <3>2. Both(1, FALSE)
        BY <1>2, <2>1, <3>1, TextIsSane
      <3> QED
        BY <1>a, <3>2
    <2>3. CASE req.path = "/echo"
      <3>1. /\ handle_get_head(req, max) = text_response(req, req.body)
            /\ handle_get_head(get, max) = text_response(get, req.body)
        BY <1>2, <2>3 DEF handle_get_head
      <3>2. Both(req.body, FALSE)
        BY <1>1, <1>2, <2>1, <3>1, TextIsSane
      <3> QED
        BY <1>a, <3>2
    <2>4. CASE req.path = "/boom"
      <3>1. /\ handle_get_head(req, max) = error_response(req, "500")
            /\ handle_get_head(get, max) = error_response(get, "500")
        BY <1>2, <2>4 DEF handle_get_head
      <3>2. Both(1, FALSE)
        BY <1>2, <2>1, <3>1, ErrorIsSane
      <3> QED
        BY <1>a, <3>2
    <2>5. CASE req.path = "/close"
      <3>1. /\ handle_get_head(req, max) = closing_response(req)
            /\ handle_get_head(get, max) = closing_response(get)
        BY <1>2, <2>5 DEF handle_get_head
      <3>2. Both(1, FALSE)
        BY <1>1, <1>2, <2>1, <3>1, TextIsSane
      <3> QED
        BY <1>a, <3>2
    <2>6. CASE req.path = "/big"
      <3>1. /\ handle_get_head(req, max) = text_response(req, big)
            /\ handle_get_head(get, max) = text_response(get, big)
        BY <1>2, <1>3, <2>6 DEF handle_get_head, big
      <3>2. Both(big, FALSE)
        BY <1>2, <1>3, <2>1, <3>1, TextIsSane
      <3> QED
        BY <1>a, <3>2
    <2>7. CASE req.path \notin {"/", "/index.html", "/health", "/info", "/slow",
                                "/echo", "/boom", "/close", "/big"}
      <3>1. /\ handle_get_head(req, max) = error_response(req, "404")
            /\ handle_get_head(get, max) = error_response(get, "404")
        BY <1>2, <2>7 DEF handle_get_head
      <3>2. Both(1, FALSE)
        BY <1>2, <2>1, <3>1, ErrorIsSane
      <3> QED
        BY <1>a, <3>2
    <2> QED
      BY <2>2, <2>3, <2>4, <2>5, <2>6, <2>7
  <1>7. CASE req.method = "Post" /\ req.path # "*"
    <2>1. handle_request(req, max) = handle_post(req) /\ ~is_head(req)
      BY <1>7 DEF handle_request, is_head
    <2>2. CASE req.path = "/echo"
      <3>1. handle_post(req) = text_response(req, req.body)
        BY <2>2 DEF handle_post
      <3>2. Both(req.body, FALSE)
        BY <1>1, <2>1, <3>1, TextIsSane
      <3> QED
        BY <1>a, <3>2
    <2>3. CASE req.path # "/echo"
      <3>1. handle_post(req) \in {text_response(req, 1), error_response(req, "500"),
                                  error_response(req, "404")}
        BY <2>3 DEF handle_post, Text
      <3>2. Both(1, FALSE)
        BY <2>1, <3>1, TextIsSane, ErrorIsSane
      <3> QED
        BY <1>a, <3>2
    <2> QED
      BY <2>2, <2>3
  <1>8. CASE req.method = "Unknown" /\ req.path # "*"
    <2>1. handle_request(req, max) = error_response(req, "405") /\ ~is_head(req)
      BY <1>8 DEF handle_request, is_head
    <2>2. Both(1, FALSE)
      BY <2>1, ErrorIsSane
    <2> QED
      BY <1>a, <2>2
  <1> QED
    BY <1>1, <1>4, <1>5, <1>6, <1>7, <1>8 DEF Method

(* What the job does to a handler's response.                              *)
Fitted(res, req) ==
  [res EXCEPT !.minor = req.minor, !.send_body = @ /\ ~is_head(req),
              !.keep_alive = @ /\ req.keep_alive]

(* It leaves a sane response sane.                                         *)
LEMMA JobKeepsSane ==
  ASSUME NEW req \in Request, NEW res, NEW body, NEW bare, Sane(res, req, body, bare)
  PROVE  /\ Sane(Fitted(res, req), req, body, bare)
         /\ Fitted(res, req).send_body => ~is_head(req)
  <1> DEFINE a == Fitted(res, req)
  <1>1. /\ res \in Responses /\ req.minor \in {0, 1} /\ req.keep_alive \in BOOLEAN
        /\ is_head(req) \in BOOLEAN
    BY DEF Sane, Request, is_head
  <1>2. /\ a \in Responses /\ a.status = res.status /\ a.body = res.body
        /\ a.no_body_framing = res.no_body_framing /\ a.close_after = res.close_after
        /\ a.send_body = (res.send_body /\ ~is_head(req))
        /\ a.keep_alive = (res.keep_alive /\ req.keep_alive)
    BY <1>1 DEF Responses, Fitted
  <1> HIDE DEF a
  <1>3. Sane(a, req, body, bare) /\ (a.send_body => ~is_head(req))
    BY <1>2 DEF Sane
  <1> QED
    BY <1>3 DEF a

(* The answer to a request: sane, without a body to a HEAD, and to a HEAD  *)
(* with the head the GET would have had.                                   *)
LEMMA AnswerFacts ==
  ASSUME NEW req \in Request, NEW max \in Nat, NEW threw \in BOOLEAN
  PROVE  \E body \in Nat, bare \in BOOLEAN :
           /\ Sane(Answer(req, max, threw), req, body, bare)
           /\ Answer(req, max, threw).send_body => ~is_head(req)
           /\ RouteBody(req, max, body, bare)
           /\ is_head(req) =>
                LET get == [req EXCEPT !.method = "Get"]
                IN  Sane(Answer(get, max, threw), get, body, bare)
  <1> DEFINE get == [req EXCEPT !.method = "Get"]
             made(r) == IF threw THEN make_error_response("500", r.keep_alive)
                        ELSE handle_request(r, max)
  <1>1. get \in Request
    BY DEF Request, Method
  <1>2. \A r : Answer(r, max, threw) = Fitted(made(r), r)
    BY DEF Answer, Fitted
  <1> HIDE DEF get
  <1>3. \E body \in Nat, bare \in BOOLEAN :
          /\ Sane(made(req), req, body, bare)
          /\ RouteBody(req, max, body, bare)
          /\ is_head(req) => Sane(made(get), get, body, bare)
    <2>1. CASE threw
      <3>1. 1 \in Nat
        BY SMT
      <3>2. Sane(made(req), req, 1, FALSE) /\ Sane(made(get), get, 1, FALSE)
        BY <1>1, <2>1, ErrorIsSane
      <3>3. RouteBody(req, max, 1, FALSE)
        BY DEF RouteBody
      <3> QED
        BY <3>1, <3>2, <3>3
    <2>2. CASE ~threw
      <3>1. made(req) = handle_request(req, max) /\ made(get) = handle_request(get, max)
        BY <2>2
      <3> QED
        BY <3>1, RoutesAreSane DEF get
    <2> QED
      BY <2>1, <2>2
  <1>4. PICK body \in Nat, bare \in BOOLEAN :
          /\ Sane(made(req), req, body, bare)
          /\ RouteBody(req, max, body, bare)
          /\ is_head(req) => Sane(made(get), get, body, bare)
    BY <1>3
  <1> HIDE DEF made
  <1>5. /\ Sane(Answer(req, max, threw), req, body, bare)
        /\ Answer(req, max, threw).send_body => ~is_head(req)
    BY <1>2, <1>4, JobKeepsSane
  <1>6. is_head(req) => Sane(Answer(get, max, threw), get, body, bare)
    BY <1>1, <1>2, <1>4, JobKeepsSane
  <1> QED
    BY <1>4, <1>5, <1>6 DEF get

-----------------------------------------------------------------------------
(* The server's word                                                       *)

(* Only the last response announces the end, and then the connection       *)
(* closes; a body that is not the one announced comes with the             *)
(* announcement; the connection closes unannounced only if it is dead or   *)
(* draining; and while a request is in flight it does not close.           *)
KeepsWord(k) ==
  /\ k \in K
  /\ \A i \in 1..Len(k.queued) :
       /\ k.queued[i].told.close => i = Len(k.queued) /\ k.c.close_after
       /\ k.queued[i].sent # k.queued[i].told.body => k.queued[i].told.close
  /\ k.c.close_after /\ k.c.alive /\ ~k.c.draining =>
       k.queued # <<>> /\ k.queued[Len(k.queued)].told.close
  /\ k.c.in_flight => ~k.c.close_after

(* Flushing says nothing.                                                  *)
LEMMA FlushKeepsWord ==
  ASSUME NEW k, KeepsWord(k)
  PROVE  KeepsWord(flush(k))
  <1>1. k \in K /\ k.c \in ConnType
    BY DEF KeepsWord, K
  <1>2. /\ flush(k) \in K /\ flush(k).queued = k.queued
        /\ flush(k).c = [k.c EXCEPT !.out = flush(k).c.out]
    BY <1>1, FlushFacts
  <1> DEFINE f == flush(k)
  <1> HIDE DEF f
  <1>3. /\ f.c.close_after = k.c.close_after /\ f.c.alive = k.c.alive
        /\ f.c.draining = k.c.draining /\ f.c.in_flight = k.c.in_flight
    BY <1>1, <1>2 DEF f, ConnType
  <1>4. f \in K /\ f.queued = k.queued
    BY <1>2 DEF f
  <1>5. KeepsWord(f)
    BY <1>3, <1>4 DEF KeepsWord
  <1> QED
    BY <1>5 DEF f

(* Queueing on a connection that is not closing.                           *)
LEMMA QueueKeepsWord ==
  ASSUME NEW k, NEW q, NEW res, NEW bytes, NEW sent,
         KeepsWord(k), ~k.c.close_after, ~k.c.in_flight,
         res \in Responses, res.close_after => ~res.keep_alive,
         Queues(k, q, res, bytes, sent),
         sent # Said(res, Finals(k.queued) + 1).body => ~res.keep_alive
  PROVE  KeepsWord(q)
  <1> DEFINE e == EntryOf(k.queued, res, sent)
             n == Len(k.queued)
  <1>1. k \in K /\ k.c \in ConnType /\ k.queued \in Seq(Entries)
    BY DEF KeepsWord, K
  <1>2. /\ q \in K /\ q.queued = Append(k.queued, e) /\ sent \in Nat
        /\ q.c = [k.c EXCEPT !.out = q.c.out, !.close_after = q.c.close_after]
        /\ q.c.close_after <=> ~res.keep_alive
    BY DEF Queues
  <1>3. e \in Entries
    BY <1>1, <1>2, EntryIsEntry
  <1>4. /\ e.told.close = ~res.keep_alive /\ e.sent = sent
        /\ e.told.body = Said(res, Finals(k.queued) + 1).body
    BY DEF EntryOf, Said
  <1> HIDE DEF e
  <1>5. /\ n \in Nat /\ Len(q.queued) = n + 1 /\ q.queued[n + 1] = e
        /\ \A i \in 1..n : q.queued[i] = k.queued[i]
        /\ q.queued # <<>>
        /\ \A i \in 1..(n + 1) : i = n + 1 \/ i \in 1..n
    BY SMT, <1>1, <1>2, <1>3
  <1>6. /\ q.c.in_flight = k.c.in_flight
    BY <1>1, <1>2 DEF ConnType
  <1>7. \A i \in 1..n : ~k.queued[i].told.close
    BY DEF KeepsWord
  <1>8. ASSUME NEW i \in 1..Len(q.queued)
        PROVE  /\ q.queued[i].told.close => i = Len(q.queued) /\ q.c.close_after
               /\ q.queued[i].sent # q.queued[i].told.body => q.queued[i].told.close
    <2>1. CASE i = n + 1
      BY <1>2, <1>4, <1>5, <2>1
    <2>2. CASE i \in 1..n
      BY <1>5, <1>7, <2>2 DEF KeepsWord
    <2> QED
      BY <1>5, <2>1, <2>2
  <1> QED
    BY <1>2, <1>4, <1>5, <1>6, <1>8 DEF KeepsWord

-----------------------------------------------------------------------------
(* What the client reads                                                   *)

Tolds == [status : Statuses, body : Nat, close : BOOLEAN]
Readers == [head : Seq(Units), need : Nat, done : Seq(Tolds), finals : Nat]

(* The final responses among the first n.                                  *)
After(q, n) == IF n = 0 THEN 0 ELSE q[n].finals

(* What is on the way to the client.                                       *)
Stream(k) == k.wire \o view(k.c.out)

(* off[n] is where in the stream the n-th response ends and the next one   *)
(* begins; the client has read everything before 1.  What a dead           *)
(* connection has dropped is beyond the end of the stream.                 *)
Placed(S, q, alive, off) ==
  /\ off \in [0..Len(q) -> Int]
  /\ \A i \in 1..Len(q) : /\ off[i] = off[i - 1] + 1 + q[i].sent
                          /\ off[i - 1] < off[Len(q)]
                          /\ q[i].finals = After(q, i - 1) + Final(q[i].told)
  /\ \A i \in 1..Len(q) : off[i - 1] \in 1..Len(S) =>
       /\ S[off[i - 1]].kind = "head"
       /\ Told(S[off[i - 1]], After(q, i - 1) + 1) = q[i].told
  /\ off[Len(q)] > Len(S)
  /\ alive => off[Len(q)] = Len(S) + 1

(* The client is between two responses, or needs so many units of the next *)
(* one's body.                                                             *)
Between(r, q, off) == r.head = <<>> /\ off[Len(r.done)] = 1
Within(r, q, off) ==
  LET n == Len(r.done)
  IN  /\ r.head # <<>> /\ n + 1 \in 1..Len(q)
      /\ Told(r.head[1], r.finals + 1) = q[n + 1].told
      /\ r.need \in 1..q[n + 1].told.body
      /\ off[n] = r.need - q[n + 1].told.body

NoneCloses(done) == \A i \in 1..Len(done) : ~done[i].close

(* It has understood the first responses, and until one of them announces  *)
(* the end it knows where the next one begins.                             *)
Follows(r, q, off) ==
  /\ r \in Readers /\ Len(r.done) \in 0..Len(q)
  /\ \A i \in 1..Len(r.done) : r.done[i] = q[i].told
  /\ NoneCloses(r.done) => /\ r.finals = After(q, Len(r.done))
                           /\ Between(r, q, off) \/ Within(r, q, off)

Decodes(k) == \E off : /\ Placed(Stream(k), k.queued, k.c.alive, off)
                       /\ Follows(reader, k.queued, off)

(* Responses are only added.                                               *)
Grows(p, q) == Len(p) <= Len(q) /\ \A i \in 1..Len(p) : q[i] = p[i]

LEMMA GrowsTransitive ==
  ASSUME NEW p \in Seq(Entries), NEW q \in Seq(Entries), NEW r \in Seq(Entries),
         Grows(p, q), Grows(q, r)
  PROVE  Grows(p, r)
  BY SMT DEF Grows

(* The decoder does not mind more responses.                               *)
LEMMA FollowsLonger ==
  ASSUME NEW r, NEW p \in Seq(Entries), NEW q \in Seq(Entries), NEW off, NEW ext,
         Follows(r, p, off), Grows(p, q), \A n \in 0..Len(p) : ext[n] = off[n]
  PROVE  Follows(r, q, ext)
  <1> DEFINE n == Len(r.done)
  <1>1. /\ n \in 0..Len(p) /\ \A i \in 1..n : r.done[i] = p[i].told
        /\ r \in Readers
    BY DEF Follows
  <1>2. /\ n \in 0..Len(q) /\ \A i \in 1..n : i \in 1..Len(p)
        /\ (n # 0 => n \in 1..Len(p)) /\ (n + 1 \in 1..Len(p) => n + 1 \in 1..Len(q))
    BY SMT, <1>1 DEF Grows
  <1> HIDE DEF n
  <1>3. \A i \in 1..Len(p) : q[i] = p[i]
    BY DEF Grows
  <1>4. After(q, n) = After(p, n) /\ ext[n] = off[n]
    BY <1>1, <1>2, <1>3 DEF After
  <1>5. Between(r, p, off) => Between(r, q, ext)
    BY <1>4 DEF Between, n
  <1>6. Within(r, p, off) => Within(r, q, ext)
    <2> SUFFICES ASSUME Within(r, p, off) PROVE Within(r, q, ext)
      OBVIOUS
    <2>1. n + 1 \in 1..Len(p) /\ n + 1 \in 1..Len(q) /\ q[n + 1] = p[n + 1]
      BY <1>2, <1>3 DEF Within, n
    <2> QED
      BY <1>4, <2>1 DEF Within, n
  <1> QED
    BY <1>1, <1>2, <1>3, <1>4, <1>5, <1>6 DEF Follows, n

(* Flushing does not change the stream.                                    *)
LEMMA FlushDecodes ==
  ASSUME NEW k \in K, Decodes(k)
  PROVE  Decodes(flush(k))
  <1> DEFINE f == flush(k)
  <1>1. /\ f.queued = k.queued /\ f.c = [k.c EXCEPT !.out = f.c.out]
        /\ Stream(f) = Stream(k) /\ k.c \in ConnType
    BY FlushFacts DEF Stream, K
  <1> HIDE DEF f
  <1>2. f.c.alive = k.c.alive
    BY <1>1 DEF ConnType
  <1>3. Decodes(f)
    BY <1>1, <1>2 DEF Decodes
  <1> QED
    BY <1>3 DEF f

(* bytes are the response that e is the entry of, behind those of q.       *)
IsNext(q, bytes, e) ==
  /\ bytes \in Seq(Units) /\ e \in Entries /\ Len(bytes) = 1 + e.sent
  /\ bytes[1].kind = "head" /\ Told(bytes[1], Finals(q) + 1) = e.told
  /\ e.finals = Finals(q) + Final(e.told)

(* ext is off, with the place of that response.                            *)
PlacedBehind(S, q, off, bytes, e, ext) ==
  /\ Placed(S \o bytes, Append(q, e), TRUE, ext)
  /\ \A n \in 0..Len(q) : ext[n] = off[n]

LEMMA PlacedNext ==
  ASSUME NEW S \in Seq(Units), NEW q \in Seq(Entries), NEW off, Placed(S, q, TRUE, off),
         NEW bytes, NEW e, IsNext(q, bytes, e)
  PROVE  \E ext : PlacedBehind(S, q, off, bytes, e, ext)
  <1> DEFINE N == Len(q)
             p == Append(q, e)
             T == S \o bytes
             ext == [n \in 0..(N + 1) |-> IF n \in 0..N THEN off[n] ELSE off[N] + 1 + e.sent]
  <1>1. /\ N \in Nat /\ p \in Seq(Entries) /\ Len(p) = N + 1 /\ p[N + 1] = e
        /\ \A i \in 1..N : p[i] = q[i]
        /\ Len(S) \in Nat /\ e.sent \in Nat
    <2>1. e \in Entries /\ e.sent \in Nat
      BY DEF IsNext, Entries
    <2>2. N \in Nat /\ Len(S) \in Nat
      BY SMT
    <2> QED
      BY <2>1, <2>2, FinalsFacts
  <1>2. /\ off \in [0..N -> Int] /\ off[N] = Len(S) + 1
        /\ \A i \in 1..N : /\ off[i] = off[i - 1] + 1 + q[i].sent
                           /\ off[i - 1] < off[N]
                           /\ q[i].finals = After(q, i - 1) + Final(q[i].told)
        /\ \A i \in 1..N : off[i - 1] \in 1..Len(S) =>
             /\ S[off[i - 1]].kind = "head"
             /\ Told(S[off[i - 1]], After(q, i - 1) + 1) = q[i].told
    BY DEF Placed
  <1>3. /\ \A i \in 1..N : i \in 0..N /\ i - 1 \in 0..N /\ i \in 1..(N + 1)
        /\ \A n \in 0..N : n \in 0..(N + 1)
        /\ N \in 0..N /\ N + 1 \notin 0..N /\ N + 1 \in 0..(N + 1) /\ (N + 1) - 1 = N
        /\ \A i \in 1..(N + 1) : i \in 1..N \/ i = N + 1
        /\ \A i \in 1..N : i - 1 # 0 => i - 1 \in 1..N
        /\ N # 0 => N \in 1..N
        /\ 0 \in 0..N
    BY SMT, <1>1
  <1>4. /\ T \in Seq(Units) /\ Len(T) = Len(S) + 1 + e.sent
        /\ T[Len(S) + 1] = bytes[1] /\ \A i \in 1..Len(S) : T[i] = S[i]
    <2>1. bytes \in Seq(Units) /\ Len(bytes) = 1 + e.sent
      BY DEF IsNext
    <2>2. IsJoin(Units, S, bytes, T)
      BY <2>1, JoinFacts
    <2>3. 1 \in 1..(1 + e.sent) /\ Len(S) + (1 + e.sent) = Len(S) + 1 + e.sent
      BY SMT, <1>1
    <2> HIDE DEF T
    <2> QED
      BY <2>1, <2>2, <2>3 DEF IsJoin
  <1>5. \A i \in 1..N : After(p, i - 1) = After(q, i - 1)
    BY <1>1, <1>3 DEF After
  <1>6. After(p, N) = Finals(q)
    <2>1. N = Len(q) /\ (N = 0 <=> q = <<>>)
      BY SMT
    <2> HIDE DEF N, p
    <2>2. CASE N = 0
      BY <2>1, <2>2 DEF After, Finals
    <2>3. CASE N # 0
      <3>1. p[N] = q[N]
        BY <1>1, <1>3, <2>3
      <3> QED
        BY <2>1, <2>3, <3>1 DEF After, Finals
    <2> QED
      BY <2>2, <2>3
  <1>7. /\ \A n \in 0..N : ext[n] = off[n]
        /\ ext[N + 1] = off[N] + 1 + e.sent
        /\ DOMAIN ext = 0..(N + 1)
    BY <1>3
  <1>8. ext \in [0..(N + 1) -> Int]
    BY SMT, <1>1, <1>2
  <1> HIDE DEF p, T, ext, N
  <1>9. ext[N + 1] = Len(T) + 1 /\ off[N] < ext[N + 1]
    <2>1. /\ off[N] = Len(S) + 1 /\ ext[N + 1] = off[N] + 1 + e.sent
          /\ Len(T) = Len(S) + 1 + e.sent /\ Len(S) \in Nat /\ e.sent \in Nat
      BY <1>1, <1>2, <1>4, <1>7
    <2> QED
      BY SMT, <2>1
  <1>10. ASSUME NEW i \in 1..(N + 1)
         PROVE  /\ ext[i] = ext[i - 1] + 1 + p[i].sent
                /\ ext[i - 1] < ext[N + 1]
                /\ p[i].finals = After(p, i - 1) + Final(p[i].told)
                /\ ext[i - 1] \in 1..Len(T) =>
                     /\ T[ext[i - 1]].kind = "head"
                     /\ Told(T[ext[i - 1]], After(p, i - 1) + 1) = p[i].told
    <2>1. CASE i \in 1..N
      <3>1. /\ ext[i] = off[i] /\ ext[i - 1] = off[i - 1] /\ p[i] = q[i]
            /\ After(p, i - 1) = After(q, i - 1)
        BY <1>1, <1>3, <1>5, <1>7, <2>1
      <3>2. off[i - 1] \in Int /\ off[N] \in Int /\ ext[N + 1] \in Int
        BY <1>2, <1>3, <1>8, <2>1
      <3>3. ext[i - 1] < ext[N + 1]
        <4>1. off[i - 1] < off[N]
          BY <1>2, <2>1
        <4> QED
          BY SMT, <1>9, <3>1, <3>2, <4>1
      <3>4. ext[i - 1] \in 1..Len(T) => off[i - 1] \in 1..Len(S)
        <4>1. off[i - 1] < off[N] /\ off[N] = Len(S) + 1
          BY <1>2, <2>1
        <4> QED
          BY SMT, <1>1, <3>1, <3>2, <4>1
      <3>5. ext[i - 1] \in 1..Len(T) => T[ext[i - 1]] = S[off[i - 1]]
        <4> SUFFICES ASSUME ext[i - 1] \in 1..Len(T) PROVE T[ext[i - 1]] = S[off[i - 1]]
          OBVIOUS
        <4>1. T[off[i - 1]] = S[off[i - 1]]
          BY <1>4, <3>4
        <4> QED
          BY <3>1, <4>1
      <3> QED
        BY <1>2, <2>1, <3>1, <3>3, <3>4, <3>5
    <2>2. CASE i = N + 1
      <3>1. i - 1 = N /\ ext[i - 1] = off[N] /\ p[i] = e /\ ext[i] = off[N] + 1 + e.sent
        BY <1>1, <1>3, <1>7, <2>2
      <3>2. /\ bytes[1].kind = "head" /\ Told(bytes[1], Finals(q) + 1) = e.told
            /\ e.finals = Finals(q) + Final(e.told)
        BY DEF IsNext
      <3>3. T[off[N]] = bytes[1]
        BY <1>2, <1>4
      <3> QED
        BY <1>6, <1>9, <2>2, <3>1, <3>2, <3>3
    <2> QED
      BY <1>3, <2>1, <2>2
  <1>11. ext[N + 1] > Len(T)
    <2>1. Len(T) \in Nat
      BY SMT, <1>4
    <2> QED
      BY SMT, <1>9, <2>1
  <1>12. Placed(T, p, TRUE, ext)
    BY <1>1, <1>8, <1>9, <1>10, <1>11 DEF Placed
  <1> QED
    BY <1>7, <1>12 DEF PlacedBehind, p, T, N

Associates(s, t, u) == s \o (t \o u) = (s \o t) \o u

LEMMA Associative ==
  ASSUME NEW S, NEW s \in Seq(S), NEW t \in Seq(S), NEW u \in Seq(S)
  PROVE  Associates(s, t, u)
  BY SMT DEF Associates

(* So the client will make sense of it.                                    *)
LEMMA QueueDecodes ==
  ASSUME NEW k \in K, NEW q, NEW res \in Responses, Framed(res), NEW bytes, NEW sent,
         k.c.alive, Decodes(k), Queues(k, q, res, bytes, sent)
  PROVE  Decodes(q)
  <1> DEFINE e == EntryOf(k.queued, res, sent)
  <1>1. /\ k.c \in ConnType /\ k.queued \in Seq(Entries) /\ k.wire \in Seq(Units)
        /\ k.c.out \in ByteBufs(Units) /\ sent \in Nat
    BY DEF K, ConnType, Queues, Wires
  <1>2. e \in Entries
    BY <1>1, EntryIsEntry
  <1>3. /\ q.queued = Append(k.queued, e) /\ bytes \in Seq(Units)
        /\ q.wire = k.wire /\ view(q.c.out) = view(k.c.out) \o bytes
        /\ q.c = [k.c EXCEPT !.out = q.c.out, !.close_after = q.c.close_after]
        /\ Len(bytes) = sent + 1 /\ bytes[1] = HeadOf(res) /\ q.queued \in Seq(Entries)
    BY DEF Queues, IsMessage, K
  <1>4. q.c.alive = k.c.alive
    BY <1>1, <1>3 DEF ConnType
  <1>5. view(k.c.out) \in Seq(Units)
    BY <1>1, ViewFacts
  <1>6. Stream(q) = Stream(k) \o bytes /\ Stream(k) \in Seq(Units)
    <2>1. Associates(k.wire, view(k.c.out), bytes)
      <3>1. k.wire \in Seq(Units) /\ view(k.c.out) \in Seq(Units) /\ bytes \in Seq(Units)
        BY <1>1, <1>3, <1>5
      <3> QED
        BY <3>1, Associative
    <2>2. IsJoin(Units, k.wire, view(k.c.out), Stream(k))
      BY <1>1, <1>5, JoinFacts DEF Stream
    <2> QED
      BY <1>3, <2>1, <2>2 DEF Stream, IsJoin, Associates
  <1>7. /\ e.sent = sent /\ e.told = Said(res, Finals(k.queued) + 1)
        /\ e.finals = Finals(k.queued) + Final(res) /\ Final(e.told) = Final(res)
    BY DEF EntryOf, Said, Final
  <1> HIDE DEF e
  <1>8. Told(bytes[1], Finals(k.queued) + 1) = e.told /\ bytes[1].kind = "head"
    <2>1. HeadOf(res).kind = "head"
      BY DEF HeadOf, MessageHead
    <2>2. Told(HeadOf(res), Finals(k.queued) + 1) = Said(res, Finals(k.queued) + 1)
      BY HeadSays
    <2> QED
      BY <1>3, <1>7, <2>1, <2>2
  <1>9. IsNext(k.queued, bytes, e)
    <2>1. Len(bytes) = 1 + e.sent
      BY SMT, <1>1, <1>3, <1>7
    <2> QED
      BY <1>2, <1>3, <1>7, <1>8, <2>1 DEF IsNext
  <1>10. PICK off : Placed(Stream(k), k.queued, TRUE, off) /\ Follows(reader, k.queued, off)
    <2>1. k.c.alive = TRUE
      BY <1>1 DEF ConnType
    <2> QED
      BY <2>1 DEF Decodes
  <1>a. PICK ext : PlacedBehind(Stream(k), k.queued, off, bytes, e, ext)
    <2>1. Stream(k) \in Seq(Units) /\ k.queued \in Seq(Entries)
      BY <1>1, <1>6
    <2>2. Placed(Stream(k), k.queued, TRUE, off)
      BY <1>10
    <2> QED
      BY <1>9, <2>1, <2>2, PlacedNext
  <1>11. /\ Placed(Stream(k) \o bytes, Append(k.queued, e), TRUE, ext)
         /\ \A n \in 0..Len(k.queued) : ext[n] = off[n]
    BY <1>a DEF PlacedBehind
  <1>12. Grows(k.queued, q.queued)
    <2>1. /\ Len(q.queued) = Len(k.queued) + 1
          /\ \A i \in 1..Len(k.queued) : q.queued[i] = k.queued[i]
      <3> DEFINE a == Append(k.queued, e)
      <3>1. /\ Len(a) = Len(k.queued) + 1
            /\ \A i \in 1..Len(k.queued) : a[i] = k.queued[i]
        BY <1>1, <1>2, FinalsFacts
      <3> QED
        BY <1>3, <3>1
    <2>2. Len(k.queued) <= Len(q.queued)
      <3>1. Len(k.queued) \in Nat
        BY SMT, <1>1
      <3> QED
        BY SMT, <2>1, <3>1
    <2> QED
      BY <2>1, <2>2 DEF Grows
  <1>13. Follows(reader, q.queued, ext)
    BY <1>1, <1>3, <1>10, <1>11, <1>12, FollowsLonger
  <1>14. q.c.alive = TRUE
    BY <1>1, <1>4 DEF ConnType
  <1>15. Placed(Stream(q), q.queued, q.c.alive, ext)
    BY <1>3, <1>6, <1>11, <1>14
  <1> QED
    BY <1>13, <1>15 DEF Decodes

(* What a dead connection drops is beyond the end of the stream.           *)
LEMMA PlacedShorter ==
  ASSUME NEW S \in Seq(Units), NEW T \in Seq(Units), NEW q, NEW alive, NEW off,
         Placed(S, q, alive, off), Grows(T, S), off[Len(q)] \in Int
  PROVE  Placed(T, q, FALSE, off)
  <1>1. Len(T) \in Nat /\ Len(S) \in Nat /\ Len(T) <= Len(S)
    BY SMT DEF Grows
  <1>2. \A p \in 1..Len(T) : p \in 1..Len(S) /\ T[p] = S[p]
    <2>1. \A p \in 1..Len(T) : p \in 1..Len(S)
      BY SMT, <1>1
    <2> QED
      BY <2>1 DEF Grows
  <1>3. off[Len(q)] > Len(T)
    <2>1. off[Len(q)] > Len(S)
      BY DEF Placed
    <2> QED
      BY SMT, <1>1, <2>1
  <1> QED
    BY <1>2, <1>3 DEF Placed

LEMMA GivenUpDecodes ==
  ASSUME NEW k \in K, Decodes(k), NEW j \in K, j.wire = k.wire, j.queued = k.queued,
         j.c.alive => k.c.alive,
         j.c.out = k.c.out \/ (j.c.out = EmptyBuf /\ ~j.c.alive)
  PROVE  Decodes(j)
  <1>1. PICK off : /\ Placed(Stream(k), k.queued, k.c.alive, off)
                   /\ Follows(reader, k.queued, off)
    BY DEF Decodes
  <1>2. CASE j.c.out = k.c.out
    <2>1. Stream(j) = Stream(k)
      BY <1>2 DEF Stream
    <2>2. Placed(Stream(j), j.queued, j.c.alive, off)
      BY <1>1, <2>1 DEF Placed
    <2> QED
      BY <1>1, <2>2 DEF Decodes
  <1>3. CASE j.c.out = EmptyBuf /\ ~j.c.alive
    <2>1. /\ k.wire \in Seq(Units) /\ view(k.c.out) \in Seq(Units)
          /\ k.queued \in Seq(Entries) /\ j.c.alive = FALSE
      <3>1. k.c.out \in ByteBufs(Units) /\ k.wire \in Wires /\ j.c.alive \in BOOLEAN
        BY DEF K, ConnType
      <3>2. view(k.c.out) \in Seq(Units)
        BY <3>1, ViewFacts
      <3> QED
        BY <1>3, <3>1, <3>2 DEF Wires, K
    <2>2. view(EmptyBuf) = <<>> /\ <<>> \in Seq(Units) /\ Len(<<>>) = 0
      BY SMT DEF view, EmptyBuf
    <2>3. Stream(j) = k.wire \o <<>>
      BY <1>3, <2>2 DEF Stream
    <2>4. /\ IsJoin(Units, k.wire, view(k.c.out), Stream(k))
          /\ IsJoin(Units, k.wire, <<>>, Stream(j))
      BY <2>1, <2>2, <2>3, JoinFacts DEF Stream
    <2>5. Grows(Stream(j), Stream(k))
      <3>1. Len(k.wire) + Len(<<>>) = Len(k.wire)
            /\ Len(k.wire) <= Len(k.wire) + Len(view(k.c.out))
        <4>1. Len(k.wire) \in Nat /\ Len(view(k.c.out)) \in Nat
          BY SMT, <2>1
        <4>2. \A a, b \in Nat : a + 0 = a /\ a <= a + b
          BY SMT
        <4> QED
          BY <2>2, <4>1, <4>2
      <3> QED
        BY <2>4, <3>1 DEF Grows, IsJoin
    <2>6. Stream(k) \in Seq(Units) /\ Stream(j) \in Seq(Units)
      BY <2>4 DEF IsJoin
    <2>7. off[Len(k.queued)] \in Int
      <3>1. Len(k.queued) \in 0..Len(k.queued)
        BY SMT, <2>1
      <3> QED
        BY <1>1, <3>1 DEF Placed
    <2>8. Placed(Stream(j), k.queued, FALSE, off)
      BY <1>1, <2>5, <2>6, <2>7, PlacedShorter
    <2> QED
      BY <1>1, <2>1, <2>8 DEF Decodes
  <1> QED
    BY <1>2, <1>3

-----------------------------------------------------------------------------
(* The course of a connection                                              *)

(* HeadAnnouncesGet, of the entries of q.                                  *)
AsGet(e) ==
  e.told.status \notin LoopError \cup {"100"} /\ ToHead(e.finals) =>
    \E threw \in BOOLEAN :
      e.length =
        serialize_response(Answer([script[e.finals].req EXCEPT !.method = "Get"],
                                  cfg["max_response"], threw))[1].length

(* OutputBounded, of a buffer that stores n units.                         *)
Fits(n) ==
  \/ \E largest \in {Text, cfg["max_body"], cfg["max_response"]} :
       n <= cfg["max_output"] + 1 + largest
  \/ n <= 2 * cfg["max_output"] - 2

(* While a request is in flight there is one final response less than the  *)
(* parser has taken messages, last_head is about that request, its body is *)
(* one the parser admits, and there is at most max_output to write.        *)
InFlight(k, n) ==
  /\ n \in 1..Len(script) /\ Finals(k.queued) = n - 1
  /\ k.c.last_head = is_head(script[n].req)
  /\ script[n].req.body <= cfg["max_body"]
  /\ size(k.c.out) <= cfg["max_output"]

Steady(k, n) ==
  /\ KeepsWord(k)
  /\ n \in 0..Len(script)
  /\ k.c.in_flight => InFlight(k, n)
  /\ ~k.c.in_flight /\ ~k.c.close_after => Finals(k.queued) = n
  /\ \A i \in 1..Len(k.queued) : AsGet(k.queued[i])
  /\ Fits(Len(k.c.out.data))

(* k is what the connection is to become: its ghost extends the present    *)
(* one, and the client will make sense of its output.                      *)
Course(k, n) == Steady(k, n) /\ Decodes(k) /\ Grows(queued, k.queued)

Limited == /\ cfg["max_body"] \in Nat /\ cfg["max_response"] \in Nat
           /\ cfg["max_output"] \in Nat /\ script \in Seq(Message)
           /\ queued \in Seq(Entries)

(* Less fits where more does, and so does max_output with one response.    *)
LEMMA FitsFacts ==
  ASSUME Limited
  PROVE  /\ \A m, n \in Nat : m <= n /\ Fits(n) => Fits(m)
         /\ \A n \in Nat, b \in Nat :
              n <= cfg["max_output"] /\ b \in {Text, cfg["max_body"], cfg["max_response"]} =>
                Fits(n + 1 + b)
         /\ Fits(0) /\ Fits(1)
         /\ \A n \in Nat : n + 2 <= 2 * cfg["max_output"] => Fits(n)
  <1> DEFINE O == cfg["max_output"]
             B == cfg["max_body"]
             R == cfg["max_response"]
  <1>1. O \in Nat /\ B \in Nat /\ R \in Nat /\ Text = 1
    BY DEF Limited, Text
  <1>2. \A n : Fits(n) <=> \/ n <= O + 1 + 1 \/ n <= O + 1 + B \/ n <= O + 1 + R
                           \/ n <= 2 * O - 2
    BY <1>1 DEF Fits
  <1> HIDE DEF O, B, R, Fits
  <1>3. \A m, n \in Nat : m <= n /\ Fits(n) => Fits(m)
    BY SMT, <1>1, <1>2
  <1>4. \A n \in Nat, b \in Nat : n <= O /\ b \in {Text, B, R} => Fits(n + 1 + b)
    BY SMT, <1>1, <1>2
  <1>5. Fits(0) /\ Fits(1) /\ \A n \in Nat : n + 2 <= 2 * O => Fits(n)
    BY SMT, <1>1, <1>2
  <1> QED
    BY <1>3, <1>4, <1>5 DEF O, B, R

(* What a buffer stores, and what of it is still to be written.            *)
LEMMA OutFacts ==
  ASSUME NEW k \in K
  PROVE  size(k.c.out) \in Nat /\ Len(k.c.out.data) \in Nat
  <1>1. k.c.out \in ByteBufs(Units)
    BY DEF K, ConnType
  <1>2. Len(k.c.out.data) \in Nat
    BY SMT, <1>1 DEF ByteBufs
  <1> QED
    BY <1>1, <1>2, ViewFacts

(* Flushing goes on with the course.                                       *)
LEMMA FlushKeepsCourse ==
  ASSUME NEW k, NEW n, Limited, Course(k, n)
  PROVE  Course(flush(k), n)
  <1> DEFINE f == flush(k)
  <1>1. k \in K /\ k.c \in ConnType /\ KeepsWord(k)
    BY DEF Course, Steady, KeepsWord, K
  <1>2. /\ f \in K /\ f.queued = k.queued
        /\ f.c = [k.c EXCEPT !.out = f.c.out]
        /\ size(f.c.out) <= size(k.c.out)
        /\ Len(f.c.out.data) <= Len(k.c.out.data)
    BY <1>1, FlushFacts
  <1>3. KeepsWord(f)
    BY <1>1, FlushKeepsWord
  <1> HIDE DEF f
  <1>4. /\ f.c.close_after = k.c.close_after /\ f.c.in_flight = k.c.in_flight
        /\ f.c.last_head = k.c.last_head
    BY <1>1, <1>2 DEF ConnType
  <1>5. /\ size(f.c.out) \in Nat /\ Len(f.c.out.data) \in Nat
        /\ size(k.c.out) \in Nat /\ Len(k.c.out.data) \in Nat
    BY <1>1, <1>2, OutFacts
  <1>6. Fits(Len(f.c.out.data))
    BY <1>2, <1>5, FitsFacts DEF Course, Steady
  <1>7. size(k.c.out) <= cfg["max_output"] => size(f.c.out) <= cfg["max_output"]
    BY SMT, <1>2, <1>5 DEF Limited
  <1>8. k.c.in_flight => InFlight(f, n)
    BY <1>2, <1>4, <1>7 DEF Course, Steady, InFlight
  <1>9. Steady(f, n)
    BY <1>2, <1>3, <1>4, <1>6, <1>8 DEF Course, Steady
  <1>10. Decodes(f)
    BY <1>1, FlushDecodes DEF Course, f
  <1>11. Course(f, n)
    BY <1>2, <1>9, <1>10 DEF Course
  <1> QED
    BY <1>11 DEF f

(* The connection may answer: it is alive, nothing is in flight, nothing   *)
(* closes it, and there is at most max_output to write.                    *)
Open(k, n) == /\ Course(k, n) /\ k.c.alive /\ ~k.c.close_after /\ ~k.c.in_flight
              /\ size(k.c.out) <= cfg["max_output"]

(* What queueing on it does to the ghost and to the connection.            *)
Extends(k, q, e) ==
  /\ q \in K /\ e \in Entries
  /\ q.c.in_flight = k.c.in_flight /\ q.c.alive = k.c.alive
  /\ Finals(q.queued) = e.finals /\ Grows(k.queued, q.queued)
  /\ \A i \in 1..Len(q.queued) :
       q.queued[i] = e \/ \E j \in 1..Len(k.queued) : q.queued[i] = k.queued[j]

LEMMA QueueExtends ==
  ASSUME NEW k \in K, NEW q, NEW res \in Responses, NEW bytes, NEW sent,
         Queues(k, q, res, bytes, sent)
  PROVE  Extends(k, q, EntryOf(k.queued, res, sent))
  <1> DEFINE e == EntryOf(k.queued, res, sent)
  <1>1. k.c \in ConnType /\ k.queued \in Seq(Entries) /\ sent \in Nat
    BY DEF K, Queues
  <1>2. e \in Entries
    BY <1>1, EntryIsEntry
  <1> HIDE DEF e
  <1>3. /\ q \in K /\ q.queued = Append(k.queued, e)
        /\ q.c = [k.c EXCEPT !.out = q.c.out, !.close_after = q.c.close_after]
    BY DEF Queues, e
  <1>4. q.c.in_flight = k.c.in_flight /\ q.c.alive = k.c.alive
    BY <1>1, <1>3 DEF ConnType
  <1>5. /\ Len(q.queued) = Len(k.queued) + 1 /\ q.queued[Len(k.queued) + 1] = e
        /\ Finals(q.queued) = e.finals
        /\ \A i \in 1..Len(k.queued) : q.queued[i] = k.queued[i]
    <2> DEFINE a == Append(k.queued, e)
    <2>1. /\ Len(a) = Len(k.queued) + 1 /\ a[Len(k.queued) + 1] = e
          /\ Finals(a) = e.finals /\ \A i \in 1..Len(k.queued) : a[i] = k.queued[i]
      BY <1>1, <1>2, FinalsFacts
    <2> QED
      BY <1>3, <2>1
  <1>6. \A i \in 1..Len(q.queued) : i = Len(k.queued) + 1 \/ i \in 1..Len(k.queued)
    BY SMT, <1>1, <1>5
  <1>7. Grows(k.queued, q.queued)
    <2>1. Len(k.queued) \in Nat
      BY SMT, <1>1
    <2>2. Len(k.queued) <= Len(q.queued)
      BY SMT, <1>5, <2>1
    <2> QED
      BY <1>5, <2>2 DEF Grows
  <1>8. Extends(k, q, e)
    BY <1>2, <1>3, <1>4, <1>5, <1>6, <1>7 DEF Extends
  <1> QED
    BY <1>8 DEF e

(* And the ghost goes on growing.                                          *)
LEMMA ExtendsGrows ==
  ASSUME NEW k \in K, NEW q, NEW e, Limited, Extends(k, q, e), Grows(queued, k.queued)
  PROVE  Grows(queued, q.queued)
  <1>1. queued \in Seq(Entries) /\ k.queued \in Seq(Entries) /\ q.queued \in Seq(Entries)
    BY DEF Limited, K, Extends
  <1>2. Grows(k.queued, q.queued)
    BY DEF Extends
  <1> QED
    BY <1>1, <1>2, GrowsTransitive

(* An error the connection answers with is on course, whatever the parser  *)
(* has taken.                                                              *)
LEMMA ErrorKeepsCourse ==
  ASSUME NEW k, NEW n, Limited, Open(k, n), NEW status \in LoopError,
         NEW m \in 0..Len(script)
  PROVE  Course(queue_error(k, status), m)
  <1> DEFINE q == queue_error(k, status)
             res == ErrorOf(k, status)
  <1>1. /\ KeepsWord(k) /\ k \in K /\ ~k.c.close_after /\ ~k.c.in_flight
        /\ size(k.c.out) <= cfg["max_output"] /\ k.c.alive
        /\ \A i \in 1..Len(k.queued) : AsGet(k.queued[i])
        /\ Decodes(k) /\ Grows(queued, k.queued)
    BY DEF Open, Course, Steady, KeepsWord
  <1>2. /\ res \in Responses /\ Framed(res) /\ res.status = status /\ ~res.keep_alive
    BY <1>1, ErrorIsResponse
  <1>3. PICK bytes \in Seq(Units), sent \in 0..1 :
          Queues(k, q, res, bytes, sent) /\ Len(q.c.out.data) <= size(k.c.out) + 2
    BY <1>1, QueueErrorFacts
  <1> DEFINE e == EntryOf(k.queued, res, sent)
  <1>4. Extends(k, q, e)
    BY <1>1, <1>2, <1>3, QueueExtends
  <1>5. KeepsWord(q) /\ Decodes(q) /\ Grows(queued, q.queued)
    <2>1. KeepsWord(q)
      BY <1>1, <1>2, <1>3, QueueKeepsWord
    <2>2. Decodes(q)
      BY <1>1, <1>2, <1>3, QueueDecodes
    <2>3. Grows(queued, q.queued)
      BY <1>1, <1>4, ExtendsGrows
    <2> QED
      BY <2>1, <2>2, <2>3
  <1>6. q.c.close_after
    BY <1>2, <1>3 DEF Queues
  <1>7. AsGet(e)
    <2>1. e.told.status = status
      BY <1>2 DEF EntryOf, Said
    <2> QED
      BY <2>1 DEF AsGet
  <1> HIDE DEF q, res, e
  <1>8. ~q.c.in_flight /\ \A i \in 1..Len(q.queued) : AsGet(q.queued[i])
    BY <1>1, <1>4, <1>7 DEF Extends
  <1>9. Fits(Len(q.c.out.data))
    <2>1. q \in K
      BY <1>4 DEF Extends
    <2>2. /\ size(k.c.out) \in Nat /\ Len(q.c.out.data) \in Nat
      BY <1>1, <2>1, OutFacts
    <2>3. 1 \in Nat /\ Text = 1 /\ size(k.c.out) + 1 + 1 \in Nat
          /\ Len(q.c.out.data) <= size(k.c.out) + 1 + 1
      BY SMT, <1>3, <2>2 DEF Text
    <2>4. Fits(size(k.c.out) + 1 + 1)
      BY <1>1, <2>2, <2>3, FitsFacts
    <2> QED
      BY <2>2, <2>3, <2>4, FitsFacts
  <1>10. Course(q, m)
    BY <1>5, <1>6, <1>8, <1>9 DEF Course, Steady
  <1> QED
    BY <1>10 DEF q

(* Flushing does not close or dispatch.                                    *)
LEMMA FlushKeepsOpen ==
  ASSUME NEW k, NEW n, Limited, Open(k, n)
  PROVE  Open(flush(k), n)
  <1> DEFINE f == flush(k)
  <1>1. k \in K /\ k.c \in ConnType
    BY DEF Open, Course, Steady, KeepsWord, K
  <1>2. /\ f \in K /\ f.c = [k.c EXCEPT !.out = f.c.out]
        /\ size(f.c.out) <= size(k.c.out)
    BY <1>1, FlushFacts
  <1>3. Course(f, n)
    BY FlushKeepsCourse DEF Open
  <1> HIDE DEF f
  <1>4. /\ f.c.close_after = k.c.close_after /\ f.c.in_flight = k.c.in_flight
        /\ f.c.alive = k.c.alive
    BY <1>1, <1>2 DEF ConnType
  <1>5. size(f.c.out) \in Nat /\ size(k.c.out) \in Nat
    BY <1>1, <1>2, OutFacts
  <1>6. size(k.c.out) <= cfg["max_output"] => size(f.c.out) <= cfg["max_output"]
    BY SMT, <1>2, <1>5 DEF Limited
  <1>7. Open(f, n)
    BY <1>3, <1>4, <1>6 DEF Open
  <1> QED
    BY <1>7 DEF f

(* The 100: one unit, below the limit.                                     *)
LEMMA ContinueKeepsOpen ==
  ASSUME NEW k, NEW n, Limited, Open(k, n), size(k.c.out) < cfg["max_output"],
         NEW full \in BOOLEAN
  PROVE  Open(Continued(k, full), n)
  <1>1. /\ KeepsWord(k) /\ k \in K /\ ~k.c.close_after /\ ~k.c.in_flight
        /\ n \in 0..Len(script) /\ Finals(k.queued) = n /\ k.c.alive
        /\ \A i \in 1..Len(k.queued) : AsGet(k.queued[i])
        /\ Decodes(k) /\ Grows(queued, k.queued)
    BY DEF Open, Course, Steady, KeepsWord
  <1>2. PICK q : /\ Queues(k, q, ContinueRes, kContinue, 0)
                 /\ Continued(k, full) = flush(q)
                 /\ Len(q.c.out.data) <= 2 * size(k.c.out) + 1
                 /\ size(k.c.out) > 0 => Len(q.c.out.data) < 2 * size(k.c.out) + 1
    BY <1>1, ContinuedFacts
  <1> DEFINE e == EntryOf(k.queued, ContinueRes, 0)
  <1>3. /\ ContinueRes \in Responses /\ ContinueRes.keep_alive /\ Framed(ContinueRes)
        /\ ~ContinueRes.close_after /\ ContinueRes.status = "100"
        /\ Final(ContinueRes) = 0
    BY ContinueIsResponse DEF ContinueRes
  <1> HIDE DEF ContinueRes
  <1>4. Extends(k, q, e)
    BY <1>1, <1>2, <1>3, QueueExtends
  <1>5. Said(ContinueRes, Finals(k.queued) + 1).body = 0
    BY <1>3 DEF Said
  <1>6. KeepsWord(q) /\ Decodes(q) /\ Grows(queued, q.queued) /\ q.c.alive
    <2>1. KeepsWord(q)
      BY <1>1, <1>2, <1>3, <1>5, QueueKeepsWord
    <2>2. Decodes(q)
      BY <1>1, <1>2, <1>3, QueueDecodes
    <2>3. Grows(queued, q.queued)
      BY <1>1, <1>4, ExtendsGrows
    <2> QED
      BY <1>1, <1>4, <2>1, <2>2, <2>3 DEF Extends
  <1>7. ~q.c.close_after /\ size(q.c.out) = size(k.c.out) + 1 + 0
    BY <1>1, <1>2, <1>3 DEF Queues
  <1>8. e.told.status = "100" /\ e.finals = Finals(k.queued) + 0
    BY <1>3 DEF EntryOf, Said
  <1> HIDE DEF e
  <1>9. AsGet(e) /\ Finals(q.queued) = n
    <2>1. AsGet(e)
      BY <1>8 DEF AsGet
    <2>2. n + 0 = n
      BY SMT, <1>1 DEF Limited
    <2> QED
      BY <1>1, <1>4, <1>8, <2>1, <2>2 DEF Extends
  <1>10. ~q.c.in_flight /\ \A i \in 1..Len(q.queued) : AsGet(q.queued[i])
    BY <1>1, <1>4, <1>9 DEF Extends
  <1>11. Fits(Len(q.c.out.data)) /\ size(q.c.out) <= cfg["max_output"]
    <2>1. q \in K
      BY <1>4 DEF Extends
    <2>2. /\ size(k.c.out) \in Nat /\ Len(q.c.out.data) \in Nat /\ 1 \in Nat
          /\ cfg["max_output"] \in Nat
      BY SMT, <1>1, <2>1, OutFacts DEF Limited
    <2>3. Len(q.c.out.data) <= 1 \/ Len(q.c.out.data) + 2 <= 2 * cfg["max_output"]
      BY SMT, <1>2, <2>2
    <2>4. size(q.c.out) <= cfg["max_output"]
      BY SMT, <1>7, <2>2
    <2> QED
      BY <2>2, <2>3, <2>4, FitsFacts
  <1>12. Open(q, n)
    BY <1>1, <1>6, <1>7, <1>9, <1>10, <1>11 DEF Open, Course, Steady
  <1> QED
    BY <1>2, <1>12, FlushKeepsOpen

(* A message is dispatched, refused with a 503 or answered with an error.  *)
LEMMA DrainKeepsCourse ==
  ASSUME NEW k, NEW n, Limited, Open(k, n), n < Len(script), NEW accepts \in BOOLEAN
  PROVE  Course(drain_requests(k, script[n + 1], accepts), n + 1)
  <1> DEFINE m == script[n + 1]
             req == m.req
             k1 == [k EXCEPT !.c.minor = req.minor, !.c.last_head = is_head(req),
                             !.c.in_flight = accepts]
  <1>1. /\ KeepsWord(k) /\ k \in K /\ ~k.c.close_after /\ ~k.c.in_flight
        /\ n \in 0..Len(script) /\ Finals(k.queued) = n
        /\ \A i \in 1..Len(k.queued) : AsGet(k.queued[i])
        /\ Fits(Len(k.c.out.data)) /\ size(k.c.out) <= cfg["max_output"]
        /\ k.c.alive /\ Decodes(k) /\ Grows(queued, k.queued)
    BY DEF Open, Course, Steady, KeepsWord
  <1>2. n + 1 \in 0..Len(script) /\ n + 1 \in 1..Len(script) /\ n = (n + 1) - 1
    BY SMT, <1>1 DEF Limited
  <1>3. m \in Message /\ req \in Request
    <2>1. m \in Message
      BY SMT, <1>2 DEF Limited
    <2> QED
      BY <2>1 DEF Message
  <1> HIDE DEF req
  <1>4. req.minor \in {0, 1} /\ is_head(req) \in BOOLEAN /\ req.body \in Nat
    BY <1>3 DEF Request, is_head
  <1>5. /\ k1 \in K /\ k1.queued = k.queued /\ k1.wire = k.wire /\ k1.c.out = k.c.out
        /\ k1.c.close_after = k.c.close_after /\ k1.c.in_flight = accepts
        /\ k1.c.alive = k.c.alive /\ k1.c.draining = k.c.draining
        /\ k1.c.last_head = is_head(req)
    <2> DEFINE d == [k.c EXCEPT !.minor = req.minor, !.last_head = is_head(req),
                                !.in_flight = accepts]
    <2>1. k.c \in ConnType /\ k.wire \in Wires /\ k.queued \in Seq(Entries)
      BY <1>1 DEF K
    <2>2. /\ d \in ConnType /\ d.out = k.c.out /\ d.close_after = k.c.close_after
          /\ d.in_flight = accepts /\ d.alive = k.c.alive /\ d.draining = k.c.draining
          /\ d.last_head = is_head(req)
      BY <1>4, <2>1 DEF ConnType
    <2>3. With(k, d, k1)
      BY <1>1 DEF K, With
    <2> HIDE DEF d, k1
    <2>4. k \in K /\ d \in ConnType
      BY <1>1, <2>2
    <2>5. Holds(k, d, k1)
      BY <2>3, <2>4, OtherConn
    <2> QED
      BY <2>2, <2>5 DEF Holds
  <1> HIDE DEF k1
  <1>6. KeepsWord(k1) /\ Decodes(k1) /\ Grows(queued, k1.queued)
    <2>1. KeepsWord(k1)
      BY <1>1, <1>5 DEF KeepsWord
    <2>2. Decodes(k1)
      BY <1>1, <1>5, GivenUpDecodes
    <2> QED
      BY <1>1, <1>5, <2>1, <2>2
  <1>7. CASE Judgement(m) = "request" /\ accepts
    <2>1. drain_requests(k, m, accepts) = k1
      BY <1>7 DEF drain_requests, Dispatch, k1, req
    <2>2. req.body <= cfg["max_body"]
      <3>1. ~(req.body > cfg["max_body"])
        BY <1>7 DEF Judgement, req
      <3> QED
        BY SMT, <1>4, <3>1 DEF Limited
    <2>3. InFlight(k1, n + 1)
      BY <1>1, <1>2, <1>5, <2>2 DEF InFlight, req
    <2>4. Course(k1, n + 1)
      BY <1>1, <1>2, <1>5, <1>6, <1>7, <2>3 DEF Course, Steady
    <2> QED
      BY <2>1, <2>4
  <1>8. CASE Judgement(m) = "request" /\ ~accepts
    <2>1. drain_requests(k, m, accepts) = queue_error(k1, "503")
      BY <1>8 DEF drain_requests, Dispatch, k1, req
    <2>2. Open(k1, n)
      BY <1>1, <1>5, <1>6, <1>8 DEF Open, Course, Steady
    <2>3. "503" \in LoopError
      BY DEF LoopError
    <2> QED
      BY <1>2, <2>1, <2>2, <2>3, ErrorKeepsCourse
  <1>9. CASE Judgement(m) # "request"
    <2> DEFINE status == Judgement(m)
    <2>1. drain_requests(k, m, accepts) = flush(queue_error(k, status))
      BY <1>9 DEF drain_requests
    <2>2. status \in LoopError
      BY <1>9 DEF Judgement, LoopError
    <2> HIDE DEF status
    <2>3. Course(queue_error(k, status), n + 1)
      BY <1>2, <2>2, ErrorKeepsCourse
    <2> QED
      BY <2>1, <2>3, FlushKeepsCourse
  <1> QED
    BY <1>7, <1>8, <1>9

(* The answer to the request in flight.                                    *)
LEMMA ResultKeepsCourse ==
  ASSUME NEW k, NEW n, Limited, Course(k, n), k.c.alive, k.c.in_flight,
         NEW threw \in BOOLEAN
  PROVE  Course(queue_response([k EXCEPT !.c.in_flight = FALSE],
                               Answer(script[n].req, cfg["max_response"], threw)), n)
  <1> DEFINE req == script[n].req
             max == cfg["max_response"]
             res == Answer(req, max, threw)
             k0 == [k EXCEPT !.c.in_flight = FALSE]
             q == queue_response(k0, res)
  <1>1. /\ KeepsWord(k) /\ k \in K /\ ~k.c.close_after
        /\ n \in 0..Len(script) /\ n \in 1..Len(script) /\ Finals(k.queued) = n - 1
        /\ \A i \in 1..Len(k.queued) : AsGet(k.queued[i])
        /\ size(k.c.out) <= cfg["max_output"]
        /\ k.c.last_head = is_head(req) /\ req.body <= cfg["max_body"]
        /\ Decodes(k) /\ Grows(queued, k.queued)
    BY DEF Course, Steady, KeepsWord, InFlight
  <1>2. req \in Request /\ max \in Nat /\ n <= Len(script) /\ (n - 1) + 1 = n
    <2>1. script[n] \in Message
      BY SMT, <1>1 DEF Limited
    <2>2. n <= Len(script) /\ (n - 1) + 1 = n
      BY SMT, <1>1 DEF Limited
    <2> QED
      BY <2>1, <2>2 DEF Message, Limited
  <1>3. ToHead(n) <=> is_head(req)
    BY <1>2 DEF ToHead
  <1>4. /\ k0 \in K /\ k0.queued = k.queued /\ k0.wire = k.wire /\ k0.c.out = k.c.out
        /\ k0.c.close_after = k.c.close_after /\ ~k0.c.in_flight
        /\ k0.c.alive = k.c.alive /\ k0.c.draining = k.c.draining
        /\ k0.c.last_head = k.c.last_head
    <2> DEFINE d == [k.c EXCEPT !.in_flight = FALSE]
    <2>1. k.c \in ConnType /\ k.wire \in Wires /\ k.queued \in Seq(Entries)
      BY <1>1 DEF K
    <2>2. /\ d \in ConnType /\ d.out = k.c.out /\ d.close_after = k.c.close_after
          /\ ~d.in_flight /\ d.alive = k.c.alive /\ d.draining = k.c.draining
          /\ d.last_head = k.c.last_head
      BY <2>1 DEF ConnType
    <2>3. With(k, d, k0)
      BY <1>1 DEF K, With
    <2> HIDE DEF d, k0
    <2>4. k \in K /\ d \in ConnType
      BY <1>1, <2>2
    <2>5. Holds(k, d, k0)
      BY <2>3, <2>4, OtherConn
    <2> QED
      BY <2>2, <2>5 DEF Holds
  <1> HIDE DEF k0, req, max
  <1>5. KeepsWord(k0) /\ Decodes(k0) /\ Grows(queued, k0.queued)
    <2>1. KeepsWord(k0)
      BY <1>1, <1>4 DEF KeepsWord
    <2>2. Decodes(k0)
      BY <1>1, <1>4, GivenUpDecodes
    <2> QED
      BY <1>1, <1>4, <2>1, <2>2
  <1>6. PICK body \in Nat, bare \in BOOLEAN :
          /\ Sane(res, req, body, bare)
          /\ res.send_body => ~is_head(req)
          /\ RouteBody(req, max, body, bare)
          /\ is_head(req) =>
               LET get == [req EXCEPT !.method = "Get"]
               IN  Sane(Answer(get, max, threw), get, body, bare)
    BY <1>2, AnswerFacts
  <1> HIDE DEF res
  <1>7. /\ res \in Responses /\ res.body = body /\ res.status # "100"
        /\ (bare <=> res.status \in {"204", "304"}) /\ (bare => ~res.send_body)
        /\ (~bare => res.send_body \/ is_head(req))
        /\ res.no_body_framing = bare /\ (res.close_after => ~res.keep_alive)
    BY <1>6 DEF Sane
  <1>8. Framed(res) /\ Final(res) = 1
    BY <1>7 DEF Framed, Final
  <1>9. PICK bytes \in Seq(Units), sent \in Nat :
          /\ Queues(k0, q, res, bytes, sent)
          /\ sent = IF res.send_body /\ ~k0.c.last_head THEN res.body ELSE 0
          /\ Len(q.c.out.data) = size(k0.c.out) + 1 + sent
    BY <1>4, <1>7, <1>8, QueueResponseFacts
  <1> DEFINE e == EntryOf(k0.queued, res, sent)
  <1>10. Extends(k0, q, e)
    BY <1>4, <1>7, <1>9, QueueExtends
  <1>11. sent = Said(res, Finals(k0.queued) + 1).body
    <2>1. Finals(k0.queued) + 1 = n
      BY <1>1, <1>2, <1>4
    <2>2. Said(res, n).body = IF bare \/ is_head(req) THEN 0 ELSE res.body
      BY <1>3, <1>7 DEF Said
    <2> QED
      BY <1>1, <1>4, <1>6, <1>7, <1>9, <2>1, <2>2
  <1>12. KeepsWord(q) /\ Decodes(q) /\ Grows(queued, q.queued)
    <2>1. KeepsWord(q)
      BY <1>1, <1>4, <1>5, <1>7, <1>9, <1>11, QueueKeepsWord
    <2>2. Decodes(q)
      BY <1>4, <1>5, <1>7, <1>8, <1>9, QueueDecodes
    <2>3. Grows(queued, q.queued)
      BY <1>4, <1>5, <1>10, ExtendsGrows
    <2> QED
      BY <2>1, <2>2, <2>3
  <1>13. e.finals = n
    BY <1>1, <1>2, <1>4, <1>8 DEF EntryOf
  <1>14. AsGet(e)
    <2> SUFFICES ASSUME is_head(req)
                 PROVE  e.length = serialize_response(
                          Answer([req EXCEPT !.method = "Get"], max, threw))[1].length
      BY <1>3, <1>13 DEF AsGet, req, max
    <2> DEFINE get == [req EXCEPT !.method = "Get"]
               a == Answer(get, max, threw)
    <2>1. Sane(a, get, body, bare)
      BY <1>6
    <2> HIDE DEF a, get
    <2>2. a \in Responses /\ a.body = body /\ a.no_body_framing = bare
      BY <2>1 DEF Sane
    <2>3. serialize_response(a)[1] = HeadOf(a)
      BY <2>2, Serialized DEF IsMessage
    <2>4. HeadOf(a).length = IF bare THEN <<>> ELSE <<body>>
      BY <2>2 DEF HeadOf, MessageHead
    <2>5. e.length = IF bare THEN <<>> ELSE <<body>>
      BY <1>7 DEF EntryOf
    <2> QED
      BY <2>3, <2>4, <2>5 DEF a, get
  <1> HIDE DEF q, e
  <1>15. /\ ~q.c.in_flight /\ Finals(q.queued) = n
         /\ \A i \in 1..Len(q.queued) : AsGet(q.queued[i])
    BY <1>1, <1>4, <1>10, <1>13, <1>14 DEF Extends
  <1>16. Fits(Len(q.c.out.data))
    <2> DEFINE s == size(k.c.out)
    <2>1. s \in Nat /\ Len(q.c.out.data) = s + 1 + sent
      BY <1>1, <1>4, <1>9, OutFacts
    <2>2. /\ req.body \in Nat /\ req.n \in Nat /\ NumberCap \in Nat
          /\ cfg["max_body"] \in Nat /\ cfg["max_output"] \in Nat
      BY <1>2, HandlerAssumption DEF Request, Limited
    <2> HIDE DEF s
    <2>3. sent <= Text \/ sent <= cfg["max_body"] \/ sent <= max
      BY SMT, <1>1, <1>2, <1>6, <1>7, <1>9, <2>2 DEF RouteBody, Least2, Text, extract_number
    <2>4. PICK b \in {Text, cfg["max_body"], max} : sent <= b
      BY <2>3
    <2>5. b \in Nat
      BY SMT, <1>2, <2>2 DEF Text
    <2>6. Fits(s + 1 + b)
      BY <1>1, <2>1, <2>4, <2>5, FitsFacts DEF s, max
    <2>7. /\ s + 1 + sent \in Nat /\ s + 1 + b \in Nat /\ s + 1 + sent <= s + 1 + b
      BY SMT, <2>1, <2>4, <2>5
    <2> QED
      BY <2>1, <2>6, <2>7, FitsFacts
  <1>17. Course(q, n)
    BY <1>1, <1>12, <1>15, <1>16 DEF Course, Steady
  <1> QED
    BY <1>17 DEF q, res, req, max, k0

-----------------------------------------------------------------------------
(* The steps of the process                                                *)

(* Before the server serves, the connection is new.                        *)
Fresh == /\ conn = NewConn /\ wire = <<>> /\ queued = <<>> /\ taken = 0
         /\ reader = NewReader

DeliveryInv ==
  /\ ConfigInv /\ script \in Seq(Message)
  /\ Fresh \/ (stage \in {"serving", "exited"} /\ Course(Now, taken))

LEMMA ConfigLimits == DeliveryInv => Limited
  <1> SUFFICES ASSUME DeliveryInv PROVE Limited
    OBVIOUS
  <1>1. {"max_body", "max_response", "max_output"} \subseteq Sized
    BY DEF Sized
  <1> QED
    <2>1. queued \in Seq(Entries)
      <3>1. CASE Fresh
        <4>1. <<>> \in Seq(Entries)
          BY SMT
        <4> QED
          BY <3>1, <4>1 DEF Fresh
      <3>2. CASE Course(Now, taken)
        BY <3>2 DEF Course, Steady, KeepsWord, K, Now
      <3> QED
        BY <3>1, <3>2 DEF DeliveryInv
    <2> QED
      BY <1>1, <2>1 DEF DeliveryInv, ConfigInv, Limited

LEMMA FreshIsOnCourse ==
  ASSUME Limited, Fresh
  PROVE  Course(Now, taken)
  <1>1. /\ Now = [c |-> NewConn, wire |-> <<>>, queued |-> <<>>]
        /\ Now.c = NewConn /\ Now.wire = <<>> /\ Now.queued = <<>> /\ taken = 0
    BY DEF Now, Fresh
  <1>2. <<>> \in Seq(Entries) /\ <<>> \in Seq(Units) /\ Len(<<>>) = 0 /\ 0 \in Nat /\ 0 <= 0
        /\ 1 \in {0, 1} /\ 1..0 = {} /\ 0 <= SendRoom /\ 0 \in 0..Len(script)
    BY SMT, DeliveryAssumption DEF Limited
  <1>3. EmptyBuf \in ByteBufs(Units) /\ Len(EmptyBuf.data) = 0
    BY <1>2 DEF EmptyBuf, ByteBufs
  <1>4. NewConn \in ConnType /\ NewConn.out = EmptyBuf
        /\ ~NewConn.close_after /\ ~NewConn.in_flight
    BY <1>2, <1>3 DEF NewConn, ConnType
  <1>5. Now \in K
    BY <1>1, <1>2, <1>4 DEF K, Wires
  <1>6. Finals(<<>>) = 0 /\ Fits(0)
    BY FitsFacts DEF Finals
  <1>7. KeepsWord(Now)
    BY <1>1, <1>2, <1>4, <1>5 DEF KeepsWord
  <1>8. Steady(Now, taken)
    BY <1>1, <1>2, <1>3, <1>4, <1>6, <1>7 DEF Steady
  <1>9. Decodes(Now)
    <2> DEFINE off == [n \in 0..0 |-> 1]
    <2>1. Stream(Now) = <<>>
      <3>1. view(EmptyBuf) = <<>> /\ <<>> \o <<>> = <<>>
        BY SMT DEF view, EmptyBuf
      <3> QED
        BY <1>1, <1>4, <3>1 DEF Stream
    <2>2. off \in [0..0 -> Int] /\ off[0] = 1 /\ 1 > 0 /\ 1 = 0 + 1 /\ 0 \in 0..0
      BY SMT
    <2> HIDE DEF off
    <2>3. Placed(<<>>, <<>>, conn.alive, off)
      BY <1>2, <2>2 DEF Placed
    <2>4. <<>> \in Seq(Tolds)
      BY SMT
    <2>5. reader \in Readers /\ reader.head = <<>> /\ reader.done = <<>> /\ reader.finals = 0
      BY <1>2, <2>4 DEF Fresh, NewReader, Readers
    <2>6. Follows(reader, <<>>, off)
      BY <1>2, <2>2, <2>5 DEF Follows, Between, After
    <2> QED
      BY <1>1, <2>1, <2>3, <2>6 DEF Decodes, Fresh
  <1>10. Grows(queued, Now.queued)
    BY <1>1, <1>2 DEF Grows, Fresh
  <1> QED
    BY <1>8, <1>9, <1>10 DEF Course

(* The connection becomes what its handler makes of it.                    *)
LEMMA BecomesSteady ==
  ASSUME NEW k, NEW n, Steady(k, n), Becomes(k), taken' = n, UNCHANGED <<script, cfg>>
  PROVE  Steady(Now, taken)' /\ Now' = k
  <1>1. k \in K /\ conn' = k.c /\ wire' = k.wire /\ queued' = k.queued
    BY DEF Steady, KeepsWord, Becomes
  <1>2. Now' = k
    BY <1>1 DEF Now, K
  <1>3. script' = script /\ cfg' = cfg
    OBVIOUS
  <1>4. \A e : AsGet(e) => AsGet(e)'
    BY <1>3 DEF AsGet, ToHead
  <1>5. \A m : Fits(m) => Fits(m)'
    BY <1>3 DEF Fits
  <1>6. \A j, m : InFlight(j, m) => InFlight(j, m)'
    BY <1>3 DEF InFlight
  <1>7. \A j, m : Steady(j, m) => Steady(j, m)'
    BY <1>3, <1>4, <1>5, <1>6 DEF Steady
  <1> QED
    BY <1>2, <1>7

(* The client's view of a stream depends on what it has sent.              *)
LEMMA SameView ==
  ASSUME script' = script
  PROVE  /\ \A S, q, alive, off : Placed(S, q, alive, off) => Placed(S, q, alive, off)'
         /\ \A r, q, off : Follows(r, q, off) => Follows(r, q, off)'
  <1>1. \A h, n : Told(h, n)' = Told(h, n)
    BY DEF Told, BodyOf, ToHead
  <1>2. \A S, q, alive, off : Placed(S, q, alive, off) => Placed(S, q, alive, off)'
    <2> SUFFICES ASSUME NEW S, NEW q, NEW alive, NEW off, Placed(S, q, alive, off)
                 PROVE  Placed(S, q, alive, off)'
      OBVIOUS
    <2>1. \A i \in 1..Len(q) : off[i - 1] \in 1..Len(S) =>
             /\ S[off[i - 1]].kind = "head"
             /\ Told(S[off[i - 1]], After(q, i - 1) + 1)' = q[i].told
      BY <1>1 DEF Placed
    <2> QED
      BY <2>1 DEF Placed, After
  <1>3. \A r, q, off : Within(r, q, off) => Within(r, q, off)'
    BY <1>1 DEF Within
  <1>4. \A r, q, off : Follows(r, q, off) => Follows(r, q, off)'
    BY <1>3 DEF Follows
  <1> QED
    BY <1>2, <1>4

Proceeds == Course(Now, taken)' /\ Grows(queued, queued')

LEMMA BecomesOnCourse ==
  ASSUME NEW k, NEW n, Limited, Course(k, n), Becomes(k), taken' = n,
         UNCHANGED <<script, cfg, reader>>
  PROVE  Proceeds
  <1>1. Steady(Now, taken)' /\ Now' = k
    BY BecomesSteady DEF Course
  <1>2. queued' = k.queued /\ k.queued \in Seq(Entries)
    BY DEF Course, Steady, KeepsWord, K, Becomes
  <1>3. Decodes(Now)'
    <2>1. PICK off : /\ Placed(Stream(k), k.queued, k.c.alive, off)
                     /\ Follows(reader, k.queued, off)
      BY DEF Course, Decodes
    <2>2. PICK r : r = reader
      OBVIOUS
    <2>3. /\ Placed(Stream(k), k.queued, k.c.alive, off)'
          /\ Follows(r, k.queued, off)' /\ reader' = r
      BY <2>1, <2>2, SameView
    <2> QED
      BY <1>1, <2>3 DEF Decodes
  <1>4. Grows(queued', queued')
    <2>1. Len(k.queued) <= Len(k.queued)
      BY SMT, <1>2
    <2> QED
      BY <1>2, <2>1 DEF Grows
  <1>5. Grows(queued, queued')
    BY <1>2 DEF Course
  <1>6. Course(Now, taken)'
    BY <1>1, <1>2, <1>3, <1>4 DEF Course, Now
  <1> QED
    BY <1>5, <1>6 DEF Proceeds

LEMMA NowFacts ==
  /\ Now.c = conn /\ Now.wire = wire /\ Now.queued = queued
  /\ Now = [c |-> conn, wire |-> wire, queued |-> queued]
  BY DEF Now

(* on_readable() of a connection that wants to read.                       *)
LEMMA ReadableOnCourse ==
  ASSUME Limited, Course(Now, taken), on_readable
  PROVE  Proceeds
  <1> DEFINE k == Now
             m == script[taken + 1]
             After100 == IF Asks(m) THEN {Continued(k, full) : full \in BOOLEAN}
                         ELSE {k}
  <1>1. /\ ~k.c.close_after /\ ~k.c.in_flight /\ size(k.c.out) < cfg["max_output"]
        /\ taken < Len(script) /\ script' = script /\ cfg' = cfg /\ reader' = reader
        /\ k.c.alive
        /\ \E j \in After100 :
             \/ Asks(m) /\ Becomes(j) /\ expected' = TRUE /\ UNCHANGED taken
             \/ \E accepts \in BOOLEAN :
                  /\ Becomes(drain_requests(j, m, accepts))
                  /\ expected' = FALSE /\ taken' = taken + 1
    BY NowFacts DEF on_readable, want_read, Serving, configVars
  <1>2. Open(k, taken)
    <2>1. k \in K
      BY DEF Course, Steady, KeepsWord
    <2>2. size(k.c.out) \in Nat
      BY <2>1, OutFacts
    <2>3. size(k.c.out) <= cfg["max_output"]
      BY SMT, <1>1, <2>2 DEF Limited
    <2> QED
      BY <1>1, <2>3 DEF Open
  <1> HIDE DEF k, m
  <1>3. \A j \in After100 : Open(j, taken)
    BY <1>1, <1>2, ContinueKeepsOpen
  <1>4. PICK j \in After100 :
          \/ Becomes(j) /\ UNCHANGED taken
          \/ \E accepts \in BOOLEAN :
               Becomes(drain_requests(j, m, accepts)) /\ taken' = taken + 1
    BY <1>1
  <1> HIDE DEF After100
  <1>5. Open(j, taken)
    BY <1>3, <1>4
  <1>6. CASE Becomes(j) /\ UNCHANGED taken
    <2>1. Course(j, taken)
      BY <1>5 DEF Open
    <2> QED
      BY <1>1, <1>6, <2>1, BecomesOnCourse
  <1>7. CASE \E accepts \in BOOLEAN :
               Becomes(drain_requests(j, m, accepts)) /\ taken' = taken + 1
    <2>1. PICK accepts \in BOOLEAN :
            Becomes(drain_requests(j, m, accepts)) /\ taken' = taken + 1
      BY <1>7
    <2>2. Course(drain_requests(j, m, accepts), taken + 1)
      BY <1>1, <1>5, DrainKeepsCourse DEF m
    <2> QED
      BY <1>1, <2>1, <2>2, BecomesOnCourse
  <1> QED
    BY <1>4, <1>6, <1>7

(* on_readable() of more than a request may have.                          *)
LEMMA TooMuchOnCourse ==
  ASSUME Limited, Course(Now, taken), on_readable_too_much
  PROVE  Proceeds
  <1>1. /\ ~Now.c.close_after /\ ~Now.c.in_flight /\ size(Now.c.out) < cfg["max_output"]
        /\ script' = script /\ cfg' = cfg /\ taken' = taken /\ reader' = reader
        /\ Now.c.alive /\ Becomes(flush(queue_error(Now, "413")))
    BY NowFacts DEF on_readable_too_much, want_read, Serving, configVars
  <1>2. Now \in K /\ taken \in 0..Len(script)
    BY DEF Course, Steady, KeepsWord
  <1>3. size(Now.c.out) \in Nat
    BY <1>2, OutFacts
  <1>4. size(Now.c.out) <= cfg["max_output"]
    BY SMT, <1>1, <1>3 DEF Limited
  <1>5. Open(Now, taken) /\ "413" \in LoopError
    BY <1>1, <1>4 DEF Open, LoopError
  <1>6. Course(queue_error(Now, "413"), taken)
    BY <1>2, <1>5, ErrorKeepsCourse
  <1>7. Course(flush(queue_error(Now, "413")), taken)
    BY <1>6, FlushKeepsCourse
  <1> QED
    BY <1>1, <1>7, BecomesOnCourse

(* on_worker_result() *)
LEMMA ResultOnCourse ==
  ASSUME Limited, Course(Now, taken), NEW threw \in BOOLEAN, on_worker_result(threw)
  PROVE  Proceeds
  <1> DEFINE q == queue_response([Now EXCEPT !.c.in_flight = FALSE],
                                 Answer(script[taken].req, cfg["max_response"], threw))
  <1>1. /\ Now.c.alive /\ Now.c.in_flight /\ Becomes(flush(q))
        /\ script' = script /\ cfg' = cfg /\ taken' = taken /\ reader' = reader
    BY NowFacts DEF on_worker_result, Serving, configVars
  <1>2. Course(q, taken)
    BY <1>1, ResultKeepsCourse
  <1> HIDE DEF q
  <1>3. Course(flush(q), taken)
    BY <1>2, FlushKeepsCourse
  <1> QED
    BY <1>1, <1>3, BecomesOnCourse

(* on_writable() *)
LEMMA WritableOnCourse ==
  ASSUME Limited, Course(Now, taken), on_writable
  PROVE  Proceeds
  <1>1. /\ Becomes(flush(Now)) /\ script' = script /\ cfg' = cfg /\ taken' = taken
        /\ reader' = reader
    BY DEF on_writable, Serving, configVars
  <1>2. Course(flush(Now), taken)
    BY FlushKeepsCourse
  <1> QED
    BY <1>1, <1>2, BecomesOnCourse

(* A connection may be given up, with its output, or start to drain.       *)
LEMMA GivenUpOnCourse ==
  ASSUME NEW k, NEW n, Limited, Course(k, n), NEW d \in ConnType, NEW j, With(k, d, j),
         d.last_head = k.c.last_head, d.in_flight = k.c.in_flight,
         d.out = k.c.out \/ (d.out = EmptyBuf /\ ~d.alive),
         k.c.close_after => d.close_after,
         k.c.draining => d.draining,
         d.alive => k.c.alive,
         d.close_after /\ ~k.c.close_after => ~d.in_flight /\ (d.draining \/ ~d.alive)
  PROVE  Course(j, n)
  <1>1. k \in K /\ KeepsWord(k)
    BY DEF Course, Steady, KeepsWord
  <1>2. Holds(k, d, j)
    BY <1>1, OtherConn
  <1>3. j \in K /\ j.c = d /\ j.queued = k.queued /\ j.wire = k.wire
    BY <1>2 DEF Holds
  <1>4. KeepsWord(j)
    BY <1>1, <1>3 DEF KeepsWord
  <1>5. size(EmptyBuf) = 0 /\ Len(EmptyBuf.data) = 0
    BY SMT DEF size, EmptyBuf
  <1>6. /\ size(k.c.out) \in Nat /\ Len(k.c.out.data) \in Nat /\ cfg["max_output"] \in Nat
        /\ 0 <= cfg["max_output"]
    <2>1. cfg["max_output"] \in Nat
      BY DEF Limited
    <2>2. 0 <= cfg["max_output"]
      BY SMT, <2>1
    <2> QED
      BY <1>1, <2>1, <2>2, OutFacts
  <1>7. Fits(Len(d.out.data)) /\ (k.c.in_flight => size(d.out) <= cfg["max_output"])
    <2>1. CASE d.out = k.c.out
      BY <2>1 DEF Course, Steady, InFlight
    <2>2. CASE d.out = EmptyBuf
      BY <1>5, <1>6, <2>2, FitsFacts
    <2> QED
      BY <2>1, <2>2
  <1>8. k.c.in_flight => InFlight(j, n)
    BY <1>3, <1>7 DEF Course, Steady, InFlight
  <1>9. Steady(j, n)
    BY <1>3, <1>4, <1>7, <1>8 DEF Course, Steady
  <1>10. Decodes(j)
    <2>1. Decodes(k)
      BY DEF Course
    <2> QED
      BY <1>1, <1>3, <2>1, GivenUpDecodes
  <1> QED
    BY <1>3, <1>9, <1>10 DEF Course

(* on_tick(): draining ends, the client is given up, or it gets a 408.     *)
LEMMA TickOnCourse ==
  ASSUME Limited, Course(Now, taken), on_tick
  PROVE  Proceeds
  <1>1. /\ ~finished(conn) /\ ~conn.in_flight
        /\ script' = script /\ cfg' = cfg /\ taken' = taken /\ reader' = reader
        /\ \/ conn.draining /\ Becomes([Now EXCEPT !.c.close_after = TRUE])
           \/ Becomes([Now EXCEPT !.c.alive = FALSE, !.c.close_after = TRUE,
                                  !.c.out = EmptyBuf])
           \/ conn.out = EmptyBuf /\ Becomes(flush(queue_error(Now, "408")))
    BY DEF on_tick, Serving, configVars
  <1>2. /\ Now \in K /\ Now.c = conn /\ conn \in ConnType /\ taken \in 0..Len(script)
    BY NowFacts DEF Course, Steady, KeepsWord, K
  <1>3. CASE conn.draining /\ Becomes([Now EXCEPT !.c.close_after = TRUE])
    <2> DEFINE d == [conn EXCEPT !.close_after = TRUE]
               j == [Now EXCEPT !.c.close_after = TRUE]
    <2>1. With(Now, d, j)
      BY <1>2 DEF With
    <2>2. /\ d \in ConnType /\ d.last_head = conn.last_head
          /\ d.in_flight = conn.in_flight /\ d.out = conn.out /\ d.close_after
          /\ d.draining = conn.draining /\ d.alive = conn.alive
      BY <1>2 DEF ConnType
    <2> HIDE DEF d, j
    <2>3. Course(j, taken)
      BY <1>1, <1>2, <1>3, <2>1, <2>2, GivenUpOnCourse
    <2> QED
      BY <1>1, <1>3, <2>3, BecomesOnCourse DEF j
  <1>4. CASE Becomes([Now EXCEPT !.c.alive = FALSE, !.c.close_after = TRUE,
                                 !.c.out = EmptyBuf])
    <2> DEFINE d == [conn EXCEPT !.alive = FALSE, !.close_after = TRUE, !.out = EmptyBuf]
               j == [Now EXCEPT !.c.alive = FALSE, !.c.close_after = TRUE,
                                !.c.out = EmptyBuf]
    <2>1. With(Now, d, j)
      BY <1>2 DEF With
    <2>2. EmptyBuf \in ByteBufs(Units)
      BY SMT DEF EmptyBuf, ByteBufs
    <2>3. /\ d \in ConnType /\ d.last_head = conn.last_head
          /\ d.in_flight = conn.in_flight /\ d.out = EmptyBuf /\ d.close_after
          /\ d.draining = conn.draining /\ ~d.alive
      BY <1>2, <2>2 DEF ConnType
    <2> HIDE DEF d, j
    <2>4. Course(j, taken)
      BY <1>1, <1>2, <2>1, <2>3, GivenUpOnCourse
    <2> QED
      BY <1>1, <1>4, <2>4, BecomesOnCourse DEF j
  <1>5. CASE conn.out = EmptyBuf /\ Becomes(flush(queue_error(Now, "408")))
    <2>1. ~conn.close_after /\ conn.alive
      BY <1>1, <1>5 DEF finished
    <2>2. size(conn.out) <= cfg["max_output"]
      BY SMT, <1>5 DEF size, EmptyBuf, Limited
    <2>3. Open(Now, taken) /\ "408" \in LoopError
      BY <1>1, <1>2, <2>1, <2>2 DEF Open, LoopError
    <2>4. Course(queue_error(Now, "408"), taken)
      BY <1>2, <2>3, ErrorKeepsCourse
    <2>5. Course(flush(queue_error(Now, "408")), taken)
      BY <2>4, FlushKeepsCourse
    <2> QED
      BY <1>1, <1>5, <2>5, BecomesOnCourse
  <1> QED
    BY <1>1, <1>3, <1>4, <1>5

LEMMA DrainingOnCourse ==
  ASSUME Limited, Course(Now, taken), begin_draining
  PROVE  Proceeds
  <1> DEFINE close == conn.close_after \/ (~conn.in_flight /\ conn.out = EmptyBuf)
             d == [conn EXCEPT !.draining = TRUE, !.close_after = close]
             j == [Now EXCEPT !.c.draining = TRUE, !.c.close_after = close]
  <1>1. /\ Now \in K /\ Now.c = conn /\ conn \in ConnType
    BY NowFacts DEF Course, Steady, KeepsWord, K
  <1>2. /\ script' = script /\ cfg' = cfg /\ taken' = taken /\ reader' = reader
        /\ Becomes([Now EXCEPT !.c.draining = TRUE,
                               !.c.close_after = @ \/ (~conn.in_flight
                                                         /\ conn.out = EmptyBuf)])
    BY DEF begin_draining, Serving, configVars
  <1>3. With(Now, d, j)
    BY <1>1 DEF With
  <1>4. [Now EXCEPT !.c.draining = TRUE,
                    !.c.close_after = @ \/ (~conn.in_flight /\ conn.out = EmptyBuf)] = j
    BY <1>1
  <1>5. close \in BOOLEAN
    BY <1>1 DEF ConnType
  <1> HIDE DEF j, close
  <1>6. /\ d \in ConnType /\ d.last_head = conn.last_head
        /\ d.in_flight = conn.in_flight /\ d.out = conn.out /\ d.close_after = close
        /\ d.draining = TRUE /\ d.alive = conn.alive
    BY <1>1, <1>5 DEF ConnType
  <1> HIDE DEF d
  <1>7. Course(j, taken)
    BY <1>1, <1>3, <1>6, GivenUpOnCourse DEF close
  <1> QED
    BY <1>2, <1>4, <1>7, BecomesOnCourse

(* The client reads one unit: every response is one unit nearer.           *)
Nearer(S, q, alive, off, less) ==
  /\ Placed(Tail(S), q, alive, less)
  /\ \A n \in 0..Len(q) : less[n] = off[n] - 1

LEMMA Shifted ==
  ASSUME NEW a \in Int, NEW b \in Int, NEW n \in Nat, a = b + 1 + n
  PROVE  a - 1 = (b - 1) + 1 + n
  BY SMT

LEMMA PlacedTail ==
  ASSUME NEW S \in Seq(Units), S # <<>>, NEW q \in Seq(Entries), NEW alive, NEW off,
         Placed(S, q, alive, off)
  PROVE  \E less : Nearer(S, q, alive, off, less)
  <1> DEFINE N == Len(q)
             T == Tail(S)
             less == [n \in 0..N |-> off[n] - 1]
  <1>1. /\ off \in [0..N -> Int] /\ off[N] > Len(S)
        /\ alive => off[N] = Len(S) + 1
        /\ \A i \in 1..N : /\ off[i] = off[i - 1] + 1 + q[i].sent
                           /\ off[i - 1] < off[N]
                           /\ q[i].finals = After(q, i - 1) + Final(q[i].told)
                           /\ q[i].sent \in Nat
        /\ \A i \in 1..N : off[i - 1] \in 1..Len(S) =>
             /\ S[off[i - 1]].kind = "head"
             /\ Told(S[off[i - 1]], After(q, i - 1) + 1) = q[i].told
    <2>1. \A i \in 1..N : q[i] \in Entries
      BY SMT
    <2> QED
      BY <2>1 DEF Placed, Entries
  <1>2. /\ N \in Nat /\ N \in 0..N /\ \A i \in 1..N : i \in 0..N /\ i - 1 \in 0..N
    BY SMT
  <1>3. /\ Len(S) \in Nat /\ Len(S) >= 1 /\ Len(T) = Len(S) - 1
        /\ \A m \in 1..Len(T) : m + 1 \in 1..Len(S) /\ T[m] = S[m + 1]
    BY SMT
  <1>4. \A n \in 0..N : less[n] = off[n] - 1
    OBVIOUS
  <1>5. less \in [0..N -> Int]
    BY SMT, <1>1
  <1> HIDE DEF N, T, less
  <1>6. less[N] > Len(T) /\ (alive => less[N] = Len(T) + 1)
    <2>1. less[N] = off[N] - 1 /\ off[N] \in Int
      BY <1>1, <1>2, <1>4
    <2>2. less[N] > Len(T)
      BY SMT, <1>1, <1>3, <2>1
    <2>3. off[N] = Len(S) + 1 => less[N] = Len(T) + 1
      BY SMT, <1>3, <2>1
    <2> QED
      BY <1>1, <2>2, <2>3
  <1>7. ASSUME NEW i \in 1..N
        PROVE  /\ less[i] = less[i - 1] + 1 + q[i].sent
               /\ less[i - 1] < less[N]
               /\ less[i - 1] \in 1..Len(T) =>
                    /\ T[less[i - 1]].kind = "head"
                    /\ Told(T[less[i - 1]], After(q, i - 1) + 1) = q[i].told
    <2>1. /\ less[i] = off[i] - 1 /\ less[i - 1] = off[i - 1] - 1 /\ less[N] = off[N] - 1
          /\ off[i] \in Int /\ off[i - 1] \in Int /\ off[N] \in Int
          /\ off[i] = off[i - 1] + 1 + q[i].sent /\ off[i - 1] < off[N]
          /\ q[i].sent \in Nat
      BY <1>1, <1>2, <1>4
    <2>2. less[i] = less[i - 1] + 1 + q[i].sent /\ less[i - 1] < less[N]
          /\ less[i - 1] + 1 = off[i - 1]
      <3>1. less[i] = less[i - 1] + 1 + q[i].sent
        <4>1. off[i] - 1 = (off[i - 1] - 1) + 1 + q[i].sent
          BY <2>1, Shifted
        <4> QED
          BY <2>1, <4>1
      <3>2. less[i - 1] < less[N]
        BY SMT, <2>1
      <3>3. less[i - 1] + 1 = off[i - 1]
        BY SMT, <2>1
      <3> QED
        BY <3>1, <3>2, <3>3
    <2>3. less[i - 1] \in 1..Len(T) =>
            off[i - 1] \in 1..Len(S) /\ T[less[i - 1]] = S[off[i - 1]]
      BY <1>3, <2>2
    <2> QED
      BY <1>1, <2>2, <2>3
  <1>8. Placed(T, q, alive, less)
    BY <1>1, <1>5, <1>6, <1>7 DEF Placed, N
  <1> QED
    BY <1>4, <1>8 DEF Nearer, T, N

(* What ClientReads makes of a unit.                                       *)
NextReader(unit, r) ==
  LET in_body == reader.head # <<>>
      told == Told(IF in_body THEN reader.head[1] ELSE unit, reader.finals + 1)
      need == IF in_body THEN reader.need - 1 ELSE told.body
  IN  r = IF ~in_body /\ unit.kind # "head" THEN Understood(Garbage)
          ELSE IF need = 0 THEN Understood(told)
          ELSE [reader EXCEPT !.head = IF in_body THEN @ ELSE <<unit>>,
                              !.need = need]

(* The client has understood one response more, as it was queued.          *)
ReadsNext(q, r) == /\ Len(reader.done) + 1 \in 1..Len(q)
                   /\ r.done = Append(reader.done, q[Len(reader.done) + 1].told)

Matched(q) ==
  \A i \in 1..Len(q) : ~q[i].told.close => q[i].sent = q[i].told.body

LEMMA ReadFollows ==
  ASSUME NEW S \in Seq(Units), S # <<>>, NEW q \in Seq(Entries), NEW alive, NEW off,
         Placed(S, q, alive, off), Follows(reader, q, off), NoneCloses(reader.done),
         Matched(q), NEW less, Nearer(S, q, alive, off, less),
         NEW r, NextReader(S[1], r)
  PROVE  Follows(r, q, less) /\ (r.done = reader.done \/ ReadsNext(q, r))
  <1> DEFINE n == Len(reader.done)
             t == q[n + 1].told
  <1>1. /\ n \in 0..Len(q) /\ reader \in Readers /\ reader.finals = After(q, n)
        /\ Between(reader, q, off) \/ Within(reader, q, off)
        /\ \A i \in 1..n : reader.done[i] = q[i].told
    BY DEF Follows
  <1>2. /\ Len(q) \in Nat /\ n \in Nat /\ Len(S) \in Nat /\ Len(S) >= 1 /\ 1 \in 1..Len(S)
        /\ S[1] \in Units /\ (n + 1) - 1 = n
        /\ n # Len(q) => n + 1 \in 1..Len(q) /\ n + 1 \in 0..Len(q)
        /\ \A i \in 1..Len(q) : i \in 0..Len(q) /\ q[i] \in Entries
    BY SMT, <1>1
  <1>3. n + 1 \in 1..Len(q) /\ n + 1 \in 0..Len(q)
    <2>1. CASE Within(reader, q, off)
      BY <1>2, <2>1 DEF Within
    <2>2. CASE Between(reader, q, off)
      <3>1. off[n] = 1 /\ off[Len(q)] > Len(S)
        BY <2>2 DEF Between, Placed
      <3>2. ~(1 > Len(S))
        BY SMT, <1>2
      <3> QED
        BY <1>2, <3>1, <3>2
    <2> QED
      BY <1>1, <2>1, <2>2
  <1>4. /\ q[n + 1] \in Entries /\ t \in Tolds /\ t.body \in Nat /\ q[n + 1].sent \in Nat
        /\ reader.done \in Seq(Tolds) /\ reader.finals \in Nat /\ reader.need \in Nat
    BY <1>1, <1>2, <1>3 DEF Entries, Tolds, Readers
  <1>5. /\ off[n + 1] = off[n] + 1 + q[n + 1].sent
        /\ q[n + 1].finals = After(q, n) + Final(t)
        /\ ~t.close => q[n + 1].sent = t.body
        /\ off[n] \in 1..Len(S) => S[off[n]].kind = "head"
                                     /\ Told(S[off[n]], After(q, n) + 1) = t
        /\ less[n] = off[n] - 1 /\ less[n + 1] = off[n + 1] - 1
        /\ off[n] \in Int /\ off[n + 1] \in Int
    BY <1>1, <1>2, <1>3 DEF Placed, Matched, Nearer
  <1> HIDE DEF t, n
  <1>6. ASSUME r = Understood(t), ~t.close => off[n + 1] = 2
        PROVE  Follows(r, q, less) /\ ReadsNext(q, r)
    <2> DEFINE done == Append(reader.done, t)
    <2>1. /\ done \in Seq(Tolds) /\ Len(done) = n + 1 /\ done[n + 1] = t
          /\ \A i \in 1..n : done[i] = reader.done[i]
          /\ \A i \in 1..(n + 1) : i \in 1..n \/ i = n + 1
          /\ n + 1 \in 1..(n + 1) /\ n + 1 # 0
      BY SMT, <1>2, <1>4 DEF n
    <2> HIDE DEF done
    <2>2. /\ r.done = done /\ r.head = <<>> /\ r.need = 0
          /\ r.finals = reader.finals + Final(t)
      BY <1>6 DEF Understood, done
    <2>3. <<>> \in Seq(Units) /\ 0 \in Nat /\ reader.finals + Final(t) \in Nat
      BY SMT, <1>4 DEF Final
    <2>4. r \in Readers
      BY <1>6, <2>1, <2>2, <2>3 DEF Understood, Readers, done
    <2>5. r.finals = After(q, n + 1)
      BY <1>1, <1>5, <2>1, <2>2 DEF After
    <2>6. \A i \in 1..(n + 1) : r.done[i] = q[i].told
      BY <1>1, <2>1, <2>2 DEF t
    <2>7. NoneCloses(r.done) => Between(r, q, less)
      <3> SUFFICES ASSUME NoneCloses(r.done) PROVE Between(r, q, less)
        OBVIOUS
      <3>1. ~t.close
        BY <2>1, <2>2 DEF NoneCloses
      <3>2. less[n + 1] = 2 - 1 /\ 2 - 1 = 1
        BY SMT, <1>5, <1>6, <3>1
      <3> QED
        BY <2>1, <2>2, <3>2 DEF Between
    <2>8. Follows(r, q, less)
      BY <1>3, <2>1, <2>2, <2>4, <2>5, <2>6, <2>7 DEF Follows
    <2>9. ReadsNext(q, r)
      BY <1>3, <2>2 DEF ReadsNext, n, t, done
    <2> QED
      BY <2>8, <2>9
  <1>7. ASSUME NEW head \in Seq(Units), head # <<>>, Told(head[1], reader.finals + 1) = t,
               NEW need \in 1..t.body, less[n] = need - t.body,
               r = [reader EXCEPT !.head = head, !.need = need]
        PROVE  Follows(r, q, less) /\ r.done = reader.done
    <2>1. need \in Nat
      BY SMT, <1>4
    <2>2. /\ r \in Readers /\ r.done = reader.done /\ r.finals = reader.finals
          /\ r.head = head /\ r.need = need
      BY <1>1, <1>7, <2>1 DEF Readers
    <2>3. Within(r, q, less)
      BY <1>3, <1>7, <2>2 DEF Within, n, t
    <2> QED
      BY <1>1, <2>2, <2>3 DEF Follows, n
  <1>8. CASE Between(reader, q, off)
    <2>1. reader.head = <<>> /\ off[n] = 1
      BY <1>8 DEF Between, n
    <2>2. S[1].kind = "head" /\ Told(S[1], reader.finals + 1) = t
      BY <1>1, <1>2, <1>5, <2>1
    <2>3. r = IF t.body = 0 THEN Understood(t)
              ELSE [reader EXCEPT !.head = <<S[1]>>, !.need = t.body]
      BY <2>1, <2>2 DEF NextReader
    <2>4. CASE t.body = 0
      <3>1. q[n + 1].sent = 0 => off[n + 1] = 2
        BY SMT, <1>5, <2>1
      <3> QED
        BY <1>5, <1>6, <2>3, <2>4, <3>1
    <2>5. CASE t.body # 0
      <3>1. /\ t.body \in 1..t.body /\ less[n] = t.body - t.body
            /\ <<S[1]>> \in Seq(Units) /\ <<S[1]>> # <<>> /\ <<S[1]>>[1] = S[1]
        <4>1. t.body \in 1..t.body
          BY SMT, <1>4, <2>5
        <4>2. less[n] = t.body - t.body
          BY SMT, <1>4, <1>5, <2>1
        <4>3. <<S[1]>> \in Seq(Units) /\ <<S[1]>> # <<>> /\ <<S[1]>>[1] = S[1]
          BY SMT, <1>2
        <4> QED
          BY <4>1, <4>2, <4>3
      <3> QED
        BY <1>7, <2>2, <2>3, <2>5, <3>1
    <2> QED
      BY <2>4, <2>5
  <1>9. CASE Within(reader, q, off)
    <2>1. /\ reader.head # <<>> /\ Told(reader.head[1], reader.finals + 1) = t
          /\ reader.need \in 1..t.body /\ off[n] = reader.need - t.body
      BY <1>9 DEF Within, n, t
    <2>2. r = IF reader.need - 1 = 0 THEN Understood(t)
              ELSE [reader EXCEPT !.head = reader.head, !.need = reader.need - 1]
      BY <2>1 DEF NextReader
    <2>3. CASE reader.need - 1 = 0
      <3>1. q[n + 1].sent = t.body => off[n + 1] = 2
        <4>1. /\ off[n + 1] = off[n] + 1 + q[n + 1].sent /\ off[n] = reader.need - t.body
              /\ t.body \in Nat /\ q[n + 1].sent \in Nat /\ reader.need \in Nat
          BY <1>4, <1>5, <2>1
        <4>2. reader.need = 1
          BY SMT, <2>3, <4>1
        <4>3. off[n] = 1 - t.body
          BY <4>1, <4>2
        <4> QED
          BY SMT, <4>1, <4>3
      <3> QED
        BY <1>5, <1>6, <2>2, <2>3, <3>1
    <2>4. CASE reader.need - 1 # 0
      <3>1. reader.need - 1 \in 1..t.body
        BY SMT, <1>4, <2>1, <2>4
      <3>2. less[n] = (reader.need - 1) - t.body
        <4>1. /\ less[n] = off[n] - 1 /\ off[n] = reader.need - t.body
              /\ t.body \in Nat /\ reader.need \in Nat
          BY <1>4, <1>5, <2>1
        <4> QED
          BY SMT, <4>1
      <3>3. reader.head \in Seq(Units)
        BY <1>1 DEF Readers
      <3> QED
        BY <1>7, <2>1, <2>2, <2>4, <3>1, <3>2, <3>3
    <2> QED
      BY <2>3, <2>4
  <1> QED
    BY <1>1, <1>8, <1>9

LEMMA ReadDecodes ==
  ASSUME Limited, Course(Now, taken), ClientReads
  PROVE  Decodes(Now)' /\ (reader'.done = reader.done \/ ReadsNext(queued, reader'))
  <1> DEFINE S == Stream(Now)
             v == view(conn.out)
  <1>1. /\ wire # <<>> /\ wire' = Tail(wire) /\ NoneCloses(reader.done)
        /\ script' = script /\ conn' = conn /\ queued' = queued
        /\ NextReader(Head(wire), reader')
    <2>1. \A i \in DOMAIN reader.done : ~reader.done[i].close
      BY DEF ClientReads
    <2>2. reader.done \in Seq(Tolds)
      BY DEF Course, Decodes, Follows, Readers
    <2>3. NoneCloses(reader.done)
      BY SMT, <2>1, <2>2 DEF NoneCloses
    <2> QED
      BY <2>3 DEF ClientReads, NextReader
  <1>2. /\ conn \in ConnType /\ wire \in Seq(Units) /\ queued \in Seq(Entries)
        /\ v \in Seq(Units)
    <2>1. conn \in ConnType /\ wire \in Wires /\ queued \in Seq(Entries)
      BY NowFacts DEF Course, Steady, KeepsWord, K
    <2>2. v \in Seq(Units)
      BY <2>1, ViewFacts DEF ConnType
    <2> QED
      BY <2>1, <2>2 DEF Wires
  <1>3. S = wire \o v /\ Stream(Now)' = Tail(wire) \o v
    BY <1>1, NowFacts DEF Stream, Now
  <1> HIDE DEF S, v
  <1>4. wire \o v \in Seq(Units) /\ wire \o v # <<>> /\ (wire \o v)[1] = Head(wire)
    BY SMT, <1>1, <1>2
  <1>5. Tail(wire \o v) = Tail(wire) \o v
    BY SMT, <1>1, <1>2
  <1>6. S \in Seq(Units) /\ S # <<>> /\ S[1] = Head(wire) /\ Stream(Now)' = Tail(S)
    BY <1>3, <1>4, <1>5
  <1>7. Matched(queued)
    BY NowFacts DEF Matched, Course, Steady, KeepsWord
  <1>8. PICK off : Placed(S, queued, conn.alive, off) /\ Follows(reader, queued, off)
    BY NowFacts DEF Course, Decodes, S
  <1>9. PICK less : Nearer(S, queued, conn.alive, off, less)
    BY <1>2, <1>6, <1>8, PlacedTail
  <1>10. PICK r : r = reader'
    OBVIOUS
  <1>11. NextReader(S[1], r)
    BY <1>1, <1>6, <1>10
  <1>12. Follows(r, queued, less) /\ (r.done = reader.done \/ ReadsNext(queued, r))
    BY <1>1, <1>2, <1>6, <1>7, <1>8, <1>9, <1>11, ReadFollows
  <1>13. Placed(Tail(S), queued, conn.alive, less)
    BY <1>9 DEF Nearer
  <1>14. PICK T, q, alive : T = Tail(S) /\ q = queued /\ alive = conn.alive
    OBVIOUS
  <1>15. Placed(T, q, alive, less)' /\ Follows(r, q, less)'
    BY <1>1, <1>12, <1>13, <1>14, SameView
  <1>16. /\ Stream(Now)' = T /\ Now.queued' = q /\ Now.c.alive' = alive
    BY <1>1, <1>6, <1>14 DEF Now
  <1>17. Decodes(Now)'
    BY <1>10, <1>15, <1>16 DEF Decodes
  <1> QED
    BY <1>10, <1>12, <1>17

LEMMA ReadingOnCourse ==
  ASSUME Limited, Course(Now, taken), ClientReads
  PROVE  Proceeds
  <1> DEFINE j == [c |-> conn, wire |-> Tail(wire), queued |-> queued]
  <1>1. /\ wire # <<>> /\ wire' = Tail(wire)
        /\ UNCHANGED <<script, cfg, taken, conn, queued>>
    BY DEF ClientReads, Serving, configVars
  <1>2. /\ Now \in K /\ conn \in ConnType /\ wire \in Wires /\ queued \in Seq(Entries)
    BY NowFacts DEF Course, Steady, KeepsWord, K
  <1>3. Tail(wire) \in Wires
    <2>1. wire \in Seq(Units) /\ Len(wire) <= SendRoom
      BY <1>2 DEF Wires
    <2>2. Tail(wire) \in Seq(Units) /\ Len(Tail(wire)) <= SendRoom
      BY SMT, <1>1, <2>1, DeliveryAssumption
    <2> QED
      BY <2>2 DEF Wires
  <1>4. j \in K /\ j.c = conn /\ j.queued = queued
    BY <1>2, <1>3 DEF K
  <1>5. Becomes(j)
    BY <1>1 DEF Becomes
  <1> HIDE DEF j
  <1>6. KeepsWord(j)
    BY <1>4, NowFacts DEF Course, Steady, KeepsWord
  <1>7. Steady(j, taken)
    BY <1>4, <1>6, NowFacts DEF Course, Steady, InFlight
  <1>8. Steady(Now, taken)'
    BY <1>1, <1>5, <1>7, BecomesSteady
  <1>9. Decodes(Now)'
    BY ReadDecodes
  <1>10. Grows(queued, queued) /\ queued' = queued /\ Now.queued' = queued
    BY <1>1, NowFacts DEF Course, Now
  <1>11. Grows(queued, Now.queued)'
    BY <1>10 DEF Grows
  <1> QED
    BY <1>8, <1>9, <1>10, <1>11 DEF Proceeds, Course

LEMMA DeliveryInvInit == Init => DeliveryInv
  <1> SUFFICES ASSUME Init PROVE DeliveryInv
    OBVIOUS
  <1>1. ConfigInv
    BY ConfigInvInit DEF Init, StartupInit
  <1>2. script \in Seq(Message)
    BY DeliveryAssumption DEF Init, StartupInit, ConfigInit
  <1> QED
    BY <1>1, <1>2 DEF DeliveryInv, Init, Fresh

(* A step keeps the invariant and the responses queued, and either the     *)
(* client has understood what it had, or the next response and nothing     *)
(* else has happened.                                                      *)
Advances ==
  /\ DeliveryInv' /\ Grows(queued, queued')
  /\ \/ reader'.done = reader.done
     \/ queued' = queued /\ ReadsNext(queued, reader')

LEMMA DeliverySteps == DeliveryInv /\ [Next]_vars => Advances
  <1> SUFFICES ASSUME DeliveryInv, [Next]_vars PROVE Advances
    OBVIOUS
  <1>1. Limited
    BY ConfigLimits
  <1>2. CASE Starting
    <2>1. StartupStep /\ UNCHANGED <<script, taken, expected, conn, wire, queued, reader>>
      BY <1>2 DEF Starting
    <2>2. ConfigInv'
      BY <2>1, OnlyArgumentsConfigure, ConfigInvStep DEF DeliveryInv
    <2>3. CASE Fresh
      <3>1. Len(<<>>) <= Len(<<>>)
        BY SMT
      <3>2. Grows(queued, queued')
        BY <2>1, <2>3, <3>1 DEF Fresh, Grows
      <3>3. DeliveryInv'
        BY <2>1, <2>2, <2>3 DEF DeliveryInv, Fresh
      <3> QED
        BY <2>1, <3>2, <3>3 DEF Advances
    <2>4. CASE stage \in {"serving", "exited"} /\ Course(Now, taken)
      <3>1. stage' = "exited" /\ cfg' = cfg
        BY <2>1, <2>4 DEF StartupStep, PrepareSignals, ParseArguments, ArgumentsParsed,
          Setup, OpenPortFile, WritePortFile, SyncPortFile, RenamePortFile,
          PowerFailure, configVars
      <3>2. Becomes(Now)
        BY <2>1, NowFacts DEF Becomes
      <3>3. Proceeds
        BY <1>1, <2>1, <2>4, <3>1, <3>2, BecomesOnCourse
      <3> QED
        BY <2>1, <2>2, <3>1, <3>3 DEF Advances, Proceeds, DeliveryInv
    <2> QED
      BY <2>3, <2>4 DEF DeliveryInv
  <1>3. ASSUME Serving, script' = script, Course(Now, taken) => Proceeds,
               Course(Now, taken) =>
                 \/ reader'.done = reader.done
                 \/ queued' = queued /\ ReadsNext(queued, reader')
        PROVE  Advances
    <2>1. Course(Now, taken)
      BY <1>1, FreshIsOnCourse DEF DeliveryInv
    <2>2. ConfigInv'
      BY <1>3, ConfigInvStep DEF DeliveryInv, Serving
    <2>3. stage' = "serving"
      BY <1>3 DEF Serving, startupVars
    <2> QED
      BY <1>3, <2>1, <2>2, <2>3 DEF Advances, Proceeds, DeliveryInv
  <1>4. CASE on_readable
    BY <1>1, <1>3, <1>4, ReadableOnCourse DEF on_readable
  <1>5. CASE on_readable_too_much
    BY <1>1, <1>3, <1>5, TooMuchOnCourse DEF on_readable_too_much
  <1>6. CASE Result
    BY <1>1, <1>3, <1>6, ResultOnCourse DEF Result, on_worker_result
  <1>7. CASE on_writable
    BY <1>1, <1>3, <1>7, WritableOnCourse DEF on_writable
  <1>8. CASE on_tick
    BY <1>1, <1>3, <1>8, TickOnCourse DEF on_tick
  <1>9. CASE begin_draining
    BY <1>1, <1>3, <1>9, DrainingOnCourse DEF begin_draining
  <1>10. CASE ClientReads
    <2>1. Serving /\ script' = script /\ queued' = queued
      BY <1>10 DEF ClientReads
    <2> QED
      BY <1>1, <1>3, <1>10, <2>1, ReadingOnCourse, ReadDecodes
  <1>11. CASE UNCHANGED vars
    <2>1. UNCHANGED <<stage, cfg, script, taken, conn, wire, queued, reader, configVars>>
      BY <1>11 DEF vars, startupVars, configVars
    <2>2. ConfigInv'
      BY <2>1, ConfigInvStep DEF DeliveryInv
    <2>3. CASE Fresh
      <3>1. Len(<<>>) <= Len(<<>>)
        BY SMT
      <3>2. Grows(queued, queued')
        BY <2>1, <2>3, <3>1 DEF Fresh, Grows
      <3>3. DeliveryInv'
        BY <2>1, <2>2, <2>3 DEF DeliveryInv, Fresh
      <3> QED
        BY <2>1, <3>2, <3>3 DEF Advances
    <2>4. CASE stage \in {"serving", "exited"} /\ Course(Now, taken)
      <3>1. Becomes(Now)
        BY <2>1, NowFacts DEF Becomes
      <3>2. Proceeds
        BY <1>1, <2>1, <2>4, <3>1, BecomesOnCourse
      <3> QED
        BY <2>1, <2>2, <2>4, <3>2 DEF Advances, Proceeds, DeliveryInv
    <2> QED
      BY <2>3, <2>4 DEF DeliveryInv
  <1>12. CASE AtRest
    BY <1>11, <1>12 DEF AtRest
  <1> QED
    BY <1>2, <1>4, <1>5, <1>6, <1>7, <1>8, <1>9, <1>10, <1>11, <1>12 DEF Next

LEMMA DeliveryInvStep == DeliveryInv /\ [Next]_vars => DeliveryInv'
  BY DeliverySteps DEF Advances

LEMMA AlwaysOnCourse == Spec => []DeliveryInv
  BY DeliveryInvInit, DeliveryInvStep, PTL DEF Spec

LEMMA OnCourse == DeliveryInv => Limited /\ Course(Now, taken)
  BY ConfigLimits, FreshIsOnCourse DEF DeliveryInv

(* What the server has promised grows with what it has queued.             *)
LEMMA PromisedFacts ==
  ASSUME NEW q \in Seq(Entries)
  PROVE  /\ Promised(q) \in Seq(Tolds) /\ Len(Promised(q)) = Len(q)
         /\ \A i \in 1..Len(q) : Promised(q)[i] = q[i].told
  <1>1. \A i \in 1..Len(q) : q[i] \in Entries
    BY SMT
  <1>2. \A i \in 1..Len(q) : q[i].told \in Tolds
    BY <1>1 DEF Entries, Tolds
  <1> QED
    BY SMT, <1>2 DEF Promised

LEMMA LongerBegins ==
  ASSUME NEW T, NEW p \in Seq(T), NEW q \in Seq(T), Grows(p, q)
  PROVE  /\ SubSeq(q, 1, Len(p)) = p
         /\ Len(q) > Len(p) \/ q = p
  <1>1. SubSeq(q, 1, Len(p)) = p
    BY SMT DEF Grows
  <1>2. Len(q) > Len(p) \/ q = p
    BY SMT DEF Grows
  <1> QED
    BY <1>1, <1>2

(* So every step is one of the channel.                                    *)
LEMMA ChannelStep ==
  DeliveryInv /\ [Next]_vars =>
    [Channel!Give \/ Channel!Read]_<<Promised(queued), reader.done>>
  <1> SUFFICES ASSUME DeliveryInv, [Next]_vars
               PROVE  \/ Channel!Give \/ Channel!Read
                      \/ UNCHANGED <<Promised(queued), reader.done>>
    OBVIOUS
  <1>1. /\ DeliveryInv' /\ Grows(queued, queued')
        /\ \/ reader'.done = reader.done
           \/ queued' = queued /\ ReadsNext(queued, reader')
    BY DeliverySteps DEF Advances
  <1>2. /\ Limited /\ Course(Now, taken)
        /\ Limited' /\ Course(Now, taken)'
    <2>1. DeliveryInv' => Limited' /\ Course(Now, taken)'
      BY OnCourse, PTL
    <2> QED
      BY <1>1, <2>1, OnCourse
  <1>3. queued \in Seq(Entries) /\ queued' \in Seq(Entries)
    BY <1>2 DEF Limited
  <1>4. \A i \in 1..Len(queued') : queued'[i].told.close => i = Len(queued')
    <2>1. Now'.queued = queued'
      BY DEF Now
    <2> QED
      BY <1>2, <2>1 DEF Course, Steady, KeepsWord
  <1>5. PICK q : q = queued'
    OBVIOUS
  <1>6. CASE Len(q) > Len(queued)
    <2>1. /\ Promised(q) \in Seq(Tolds) /\ Len(Promised(q)) = Len(q)
          /\ Promised(queued) \in Seq(Tolds) /\ Len(Promised(queued)) = Len(queued)
          /\ \A i \in 1..Len(q) : Promised(q)[i] = q[i].told
          /\ \A i \in 1..Len(queued) : Promised(queued)[i] = queued[i].told
      BY <1>3, <1>5, PromisedFacts
    <2>2. Grows(Promised(queued), Promised(q))
      <3>1. Len(queued) <= Len(q) /\ \A i \in 1..Len(queued) : i \in 1..Len(q)
        BY SMT, <1>3, <1>5, <1>6
      <3>2. \A i \in 1..Len(queued) : q[i] = queued[i]
        BY <1>1, <1>5 DEF Grows
      <3> QED
        BY <2>1, <3>1, <3>2 DEF Grows
    <2>3. SubSeq(Promised(q), 1, Len(Promised(queued))) = Promised(queued)
      BY <2>1, <2>2, LongerBegins
    <2>4. \A i \in 1..(Len(Promised(q)) - 1) : ~Promised(q)[i].close
      <3>1. \A i \in 1..(Len(q) - 1) : i \in 1..Len(q) /\ i # Len(q)
        BY SMT, <1>3, <1>5
      <3> QED
        BY <1>4, <1>5, <2>1, <3>1
    <2>5. reader'.done = reader.done
      <3>1. q # queued
        BY SMT, <1>3, <1>6
      <3> QED
        BY <1>1, <1>5, <3>1
    <2>6. Promised(queued)' = Promised(q)
      BY <1>5 DEF Promised
    <2>7. Channel!Give
      BY <1>6, <2>1, <2>3, <2>4, <2>5, <2>6 DEF Channel!Give
    <2> QED
      BY <2>7
  <1>7. CASE q = queued
    <2>1. Promised(queued)' = Promised(queued) /\ queued' = queued
      BY <1>5, <1>7 DEF Promised
    <2>2. CASE reader'.done = reader.done
      BY <2>1, <2>2
    <2>3. CASE ReadsNext(queued, reader')
      <3>1. /\ Len(reader.done) + 1 \in 1..Len(queued)
            /\ reader'.done = Append(reader.done, queued[Len(reader.done) + 1].told)
        BY <2>3 DEF ReadsNext
      <3>2. /\ Len(Promised(queued)) = Len(queued)
            /\ Promised(queued)[Len(reader.done) + 1] = queued[Len(reader.done) + 1].told
        BY <1>3, <3>1, PromisedFacts
      <3>3. reader.done \in Seq(Tolds)
        BY <1>2 DEF Course, Decodes, Follows, Readers
      <3>4. Len(reader.done) < Len(queued)
        BY SMT, <1>3, <3>1, <3>3
      <3>5. Channel!Read
        BY <2>1, <3>1, <3>2, <3>4 DEF Channel!Read
      <3> QED
        BY <3>5
    <2> QED
      BY <1>1, <2>2, <2>3
  <1> QED
    BY <1>1, <1>3, <1>5, <1>6, <1>7, LongerBegins

(* What the invariant says of the properties.                              *)
LEMMA DeliveryInvMeans ==
  DeliveryInv => /\ MismatchIsLast /\ PersistenceAgreed
                 /\ OutputBounded /\ HeadAnnouncesGet
  <1> SUFFICES ASSUME DeliveryInv
               PROVE  /\ MismatchIsLast /\ PersistenceAgreed
                      /\ OutputBounded /\ HeadAnnouncesGet
    OBVIOUS
  <1>1. Limited
    BY OnCourse
  <1>2. Course(Now, taken)
    BY OnCourse
  <1>3. KeepsWord(Now) /\ Now \in K /\ queued \in Seq(Entries)
    BY <1>2, NowFacts DEF Course, Steady, KeepsWord, K
  <1>4. MismatchIsLast
    BY <1>3, NowFacts DEF KeepsWord, MismatchIsLast
  <1>5. PersistenceAgreed
    <2>1. queued # <<>> => Len(queued) \in 1..Len(queued)
      BY SMT, <1>3
    <2> QED
      BY <1>3, <2>1, NowFacts DEF KeepsWord, PersistenceAgreed, Announced
  <1>6. OutputBounded
    BY <1>2, NowFacts DEF Course, Steady, OutputBounded, Fits
  <1>7. HeadAnnouncesGet
    BY <1>2, NowFacts DEF Course, Steady, HeadAnnouncesGet, AsGet
  <1> QED
    BY <1>4, <1>5, <1>6, <1>7

(* A body that is not the one its head announces (queue_response(),        *)
(* queue_error() and last_head_) is in the last response of its            *)
(* connection, which says so: no later response is read as part of it.     *)
THEOREM BodiesAreAsAnnounced == Spec => []MismatchIsLast
  BY AlwaysOnCourse, DeliveryInvMeans, PTL

(* Server and client agree on whether the connection goes on: close_after_ *)
(* is set with a response exactly if its Connection field and version say  *)
(* so, but for draining and a client that is given up.                     *)
THEOREM PersistenceIsAgreed == Spec => []PersistenceAgreed
  BY AlwaysOnCourse, DeliveryInvMeans, PTL

(* want_read()'s look at max_output_bytes bounds what out_ stores, for any *)
(* limits on the command line and any room in the socket.                  *)
THEOREM OutputIsBounded == Spec => []OutputBounded
  BY AlwaysOnCourse, DeliveryInvMeans, PTL

(* A HEAD is answered with the length of the GET, on every route, whoever  *)
(* suppresses the body: the handler, the job or queue_response().          *)
THEOREM HeadsAnnounceGets == Spec => []HeadAnnouncesGet
  BY AlwaysOnCourse, DeliveryInvMeans, PTL

(* Whatever flush(), the socket's room and the client's reads make of it,  *)
(* the bytes of out_ are, for the client that decodes them, the responses  *)
(* queue_response() and queue_error() have been given: whole, in order,    *)
(* and none after one that announces the end.                              *)
THEOREM ClientReadsResponses == Spec => ImplementsChannel
  <1>1. Init => Channel!ChannelInit
    <2> SUFFICES ASSUME Init PROVE Channel!ChannelInit
      OBVIOUS
    <2>1. queued = <<>> /\ reader.done = <<>>
      BY DEF Init, NewReader
    <2>2. Promised(<<>>) = <<>>
      BY SMT DEF Promised
    <2> QED
      BY <2>1, <2>2 DEF Channel!ChannelInit
  <1> QED
    BY <1>1, ChannelStep, AlwaysOnCourse, PTL
       DEF Spec, ImplementsChannel, Channel!ChannelSpec

(* The process that serves is one main() has started: what is proved above *)
(* of the configuration and the port file holds while it serves.           *)
THEOREM ServesAfterStartup == Spec => StartupSpec
  <1>1. Init => StartupInit
    BY DEF Init
  <1>2. [Next]_vars => [StartupStep]_<<configVars, startupVars>>
    <2> SUFFICES ASSUME [Next]_vars
                 PROVE  StartupStep \/ UNCHANGED <<configVars, startupVars>>
      OBVIOUS
    <2>1. CASE Starting
      BY <2>1 DEF Starting
    <2>2. CASE Serving
      BY <2>2 DEF Serving
    <2>3. CASE UNCHANGED vars
      BY <2>3 DEF vars
    <2> QED
      BY <2>1, <2>2, <2>3 DEF Next, on_readable, on_readable_too_much, Result,
        on_worker_result, on_writable, on_tick, begin_draining, ClientReads, AtRest
  <1> QED
    BY <1>1, <1>2, PTL DEF Spec, StartupSpec

=============================================================================
