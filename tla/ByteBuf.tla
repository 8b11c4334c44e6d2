------------------------------- MODULE ByteBuf ------------------------------
(***************************************************************************)
(* ByteBuf (common.h): a string with a read cursor, b = [data, start].     *)
(* What its users see is view(b); how much of the consumed prefix is still *)
(* stored is nobody's business but the memory's.  DeliveryProofs shows     *)
(* that to its users it is a plain sequence.                               *)
(***************************************************************************)
EXTENDS Naturals, Sequences

EmptyBuf == [data |-> <<>>, start |-> 0]

ByteBufs(Byte) == {b \in [data : Seq(Byte), start : Nat] : b.start <= Len(b.data)}

size(b) == Len(b.data) - b.start
view(b) == SubSeq(b.data, b.start + 1, Len(b.data))

compact(b) == [data |-> view(b), start |-> 0]

consume(b, n) == IF b.start + n = Len(b.data) THEN EmptyBuf
                 ELSE [b EXCEPT !.start = @ + n]

(* full: the string would have to grow.  Its capacity is the library's     *)
(* choice, so callers leave it open.                                       *)
compact_for_append(b, full) ==
  IF b.start # 0 /\ (b.start >= size(b) \/ full) THEN compact(b) ELSE b

append(b, s, full) == [compact_for_append(b, full) EXCEPT !.data = @ \o s]

(* append_target() and what its caller appends to it.                      *)
append_to_target(b, s) == [compact(b) EXCEPT !.data = @ \o s]
=============================================================================
