-------------------------- MODULE HttpParserProofs --------------------------
(***************************************************************************)
(* TLAPS proofs about HttpParser, for all limits and all inputs.           *)
(***************************************************************************)
EXTENDS HttpParser, SequenceTheorems, TLAPS

(* The inductive invariant.                                                *)
Inv == TypeOK /\ LimitsHold /\ NothingSkipped /\ StateIsConsistent

-----------------------------------------------------------------------------
(* Buffers                                                                 *)

(* What consume(n) leaves of a buffer.                                     *)
LEMMA Rest ==
  ASSUME NEW S, NEW s \in Seq(S), NEW n \in Nat, n <= Len(s)
  PROVE  /\ SubSeq(s, n + 1, Len(s)) \in Seq(S)
         /\ Len(SubSeq(s, n + 1, Len(s))) = Len(s) - n
<1>1. \A i \in (n + 1)..Len(s) : s[i] \in S
  BY ElementOfSeq
<1>2. Len(s) \in Nat
  BY LenProperties
<1> QED BY <1>1, <1>2, SubSeqProperties

(* The first n bytes of a buffer.                                          *)
LEMMA Front ==
  ASSUME NEW S, NEW s \in Seq(S), NEW n \in Nat, n <= Len(s)
  PROVE  /\ SubSeq(s, 1, n) \in Seq(S)
         /\ Len(SubSeq(s, 1, n)) = n
<1>1. \A i \in 1..n : s[i] \in S
  BY ElementOfSeq, LenProperties
<1> QED BY <1>1, SubSeqProperties

(* What append() makes of a buffer.                                        *)
LEMMA Longer ==
  ASSUME NEW S, NEW s \in Seq(S), NEW t \in Seq(S)
  PROVE  /\ s \o t \in Seq(S) /\ Len(s \o t) = Len(s) + Len(t)
         /\ \A i \in 1..Len(s) : (s \o t)[i] = s[i]
<1>1. Len(s) \in Nat /\ Len(t) \in Nat
  BY LenProperties
<1>2. \A i \in 1..Len(s) : i \in 1..(Len(s) + Len(t)) /\ i <= Len(s)
  BY <1>1
<1>3. \A i \in 1..(Len(s) + Len(t)) :
        (s \o t)[i] = IF i <= Len(s) THEN s[i] ELSE t[i - Len(s)]
  BY ConcatProperties
<1> QED BY <1>2, <1>3, ConcatProperties

(* A line with its CRLF lies within the buffer.                            *)
LEMMA LineFits ==
  ASSUME TypeOK, NEW n \in Nat, line_ready(n)
  PROVE  /\ n + 2 <= Len(buf)
         /\ Line(n) \in Seq(Byte) /\ Len(Line(n)) = n
<1>1. Len(buf) \in Nat /\ p.scan \in Nat /\ buf \in Seq(Byte)
  BY LenProperties DEF TypeOK, Parser
<1>2. n + 2 <= Len(buf)
  BY <1>1 DEF line_ready, FirstLF, From
<1> QED BY <1>1, <1>2, Front DEF Line

(* Consuming n bytes leaves a buffer that is shorter by n.                 *)
LEMMA Consumption ==
  ASSUME TypeOK, NEW n \in Nat, n <= Len(buf), Consume(n)
  PROVE  buf' \in Seq(Byte) /\ Len(buf') = Len(buf) - n
BY Rest DEF Consume, TypeOK

(* The sizes a head and a chunk announce are numbers.                      *)
LEMMA LengthIsNumber ==
  ASSUME NEW headers, NEW minor,
         \/ Accepted(headers, minor)
         \/ finish_headers(headers, minor) \notin Rejections
  PROVE  ContentLength(headers) \in 0..MaxBody
<1>1. CASE Named(headers, "l") = {}
  BY <1>1, ParserAssumption DEF ContentLength
<1>2. CASE Named(headers, "l") # {}
  <2>1. /\ FramingOK(headers, minor)
        /\ ContentLength(headers) <= MaxBody \/ ~(ContentLength(headers) > MaxBody)
    BY DEF Accepted, finish_headers, Rejections
  <2>2. Value(Tail(The(headers, "l")), 10) \in 0..MaxNumber
    BY <1>2, <2>1 DEF FramingOK, parse_content_length
  <2> QED BY <1>2, <2>1, <2>2, ParserAssumption DEF ContentLength
<1> QED BY <1>1, <1>2

(* A chunk-size line that is accepted yields a natural number.             *)
LEMMA SizeIsNumber ==
  ASSUME NEW line, parse_chunk_size(line) = "ok"
  PROVE  Value(Hex(line), 16) \in Nat
BY ParserAssumption DEF parse_chunk_size

-----------------------------------------------------------------------------
(* Init and the calls                                                      *)

(* reset() leaves a well-formed parser.                                    *)
LEMMA ResetIsParser == reset \in Parser
<1>1. <<>> \in Seq(Byte) /\ <<>> \in Seq(Seq(Byte))
  BY EmptySeq
<1> QED BY <1>1 DEF reset, Parser, State

(* A new parser satisfies the invariant.                                   *)
LEMMA InvInit == Init => Inv
<1> SUFFICES ASSUME Init PROVE Inv
  OBVIOUS
<1>1. Len(<<>>) = 0 /\ <<>> \in Seq(Byte) /\ <<>> \in Seq(Request) /\ <<>> \in Seq(Nat)
  BY EmptySeq
<1>2. TypeOK
  BY <1>1, ResetIsParser, ParserAssumption, LenProperties DEF Init, TypeOK, Status
<1>3. LimitsHold
  BY <1>1, ParserAssumption DEF Init, LimitsHold, reset
<1>4. NothingSkipped
  BY <1>1 DEF Init, NothingSkipped, reset
<1>5. StateIsConsistent
  BY <1>1, ParserAssumption DEF Init, StateIsConsistent, reset
<1> QED BY <1>2, <1>3, <1>4, <1>5 DEF Inv

(* Appending moves no byte: what the cursor has passed stays passed.       *)
LEMMA InvCall ==
  ASSUME Inv, NEW n \in 0..(Len(input) - fed), Call(n)
  PROVE  Inv'
<1> DEFINE more == SubSeq(input, fed + 1, fed + n)
<1>1. /\ input \in Seq(Byte) /\ fed \in 0..Len(input) /\ buf \in Seq(Byte)
      /\ p \in Parser /\ Len(input) \in Nat /\ Len(buf) \in Nat
  BY LenProperties DEF Inv, TypeOK
<1>2. more \in Seq(Byte) /\ Len(more) = n
  <2>1. \A i \in (fed + 1)..(fed + n) : input[i] \in Byte
    BY <1>1, ElementOfSeq
  <2> QED BY <1>1, <2>1, SubSeqProperties
<1> HIDE DEF more
<1>3. buf' = buf \o more
  BY DEF Call, more
<1>4. /\ buf' \in Seq(Byte) /\ Len(buf') = Len(buf) + n
      /\ \A i \in 1..Len(buf) : buf'[i] = buf[i]
  BY <1>1, <1>2, <1>3, Longer
<1>5. TypeOK'
  BY <1>1, <1>4 DEF Inv, TypeOK, Call, Status, Rejections
<1>6. p' = p /\ status \notin Rejections
  BY DEF Call, Rejections
<1>7. p.consumed \in Nat /\ p.scan \in Nat
  BY <1>1 DEF Parser
<1>8. LimitsHold'
  <2>1. status' \notin Rejections => p.consumed + Len(buf') <= MaxRequest
    BY <1>1, <1>4, <1>7, ParserAssumption DEF Call, Rejections
  <2> QED BY <1>6, <2>1 DEF Inv, LimitsHold
<1>9. NothingSkipped'
  <2>1. p.scan <= Len(buf) /\ \A i \in 1..p.scan : buf[i] # "LF"
    BY <1>6 DEF Inv, NothingSkipped
  <2>2. p.scan <= Len(buf') /\ \A i \in 1..p.scan : buf'[i] # "LF"
    BY <1>1, <1>4, <1>7, <2>1
  <2> QED BY <1>6, <2>2 DEF NothingSkipped
<1>10. StateIsConsistent'
  BY <1>6 DEF Inv, StateIsConsistent
<1> QED BY <1>5, <1>8, <1>9, <1>10 DEF Inv

-----------------------------------------------------------------------------
(* The steps of parse()                                                    *)

(* The facts about the state every step starts from.                       *)
LEMMA Before ==
  ASSUME Inv
  PROVE  /\ buf \in Seq(Byte) /\ Len(buf) \in Nat /\ p \in Parser
         /\ p.headers \in Seq(Seq(Byte)) /\ Len(p.headers) \in Nat
         /\ p.body \in Seq(Byte) /\ Len(p.body) \in Nat
         /\ p.scan \in Nat /\ p.consumed \in Nat /\ p.header_bytes \in Nat
         /\ p.body_remaining \in Nat /\ p.chunk_remaining \in Nat
BY LenProperties DEF Inv, TypeOK, Parser

(* Consuming input moves the counter and resets scan, nothing else.        *)
LEMMA AfterConsuming ==
  ASSUME Inv, NEW n \in Nat
  PROVE  LET q == Consumed(p, n)
         IN  /\ q \in Parser /\ q.consumed = p.consumed + n /\ q.scan = 0
             /\ q.state = p.state /\ q.headers = p.headers /\ q.body = p.body
             /\ q.body_remaining = p.body_remaining
             /\ q.chunk_remaining = p.chunk_remaining
             /\ q.header_bytes = p.header_bytes
             /\ q.expect_chunk_crlf = p.expect_chunk_crlf
<1>1. p \in Parser /\ p.consumed + n \in Nat
  BY Before
<1> QED BY <1>1 DEF Consumed, Parser

(* Looking for a line that is not there, or only looking.                  *)
LEMMA InvLook ==
  ASSUME Inv, status = "parsing", NEW i \in Nat,
         p' = [p EXCEPT !.scan = i], status' \in Status,
         status' \notin Rejections =>
           i <= Len(buf) /\ \A j \in 1..i : buf[j] # "LF",
         UNCHANGED <<input, fed, buf, requests, continues>>
  PROVE  Inv'
<1>1. status \notin Rejections
  BY DEF Rejections
<1>2. /\ p'.scan = i /\ p'.state = p.state /\ p'.body = p.body
      /\ p'.headers = p.headers /\ p'.body_remaining = p.body_remaining
      /\ p'.chunk_remaining = p.chunk_remaining /\ p'.consumed = p.consumed
      /\ p'.header_bytes = p.header_bytes
      /\ p'.expect_chunk_crlf = p.expect_chunk_crlf
  BY Before DEF Parser
<1>3. TypeOK'
  BY Before DEF Inv, TypeOK, Parser
<1>4. LimitsHold'
  BY <1>1, <1>2 DEF Inv, LimitsHold
<1>5. NothingSkipped'
  BY <1>2 DEF NothingSkipped
<1>6. StateIsConsistent'
  BY <1>1, <1>2 DEF Inv, StateIsConsistent
<1> QED BY <1>3, <1>4, <1>5, <1>6 DEF Inv

(* Waiting for more input keeps the invariant.                             *)
LEMMA InvIncomplete == Inv /\ Incomplete => Inv'
<1> SUFFICES ASSUME Inv, Incomplete PROVE Inv'
  OBVIOUS
<1>1. status = "parsing" /\ Len(buf) \in Nat /\ p.scan \in Nat
  BY Before DEF Incomplete, AtLine, In, AtChunkCRLF, AtChunkSize
<1>2. \A j \in 1..Len(buf) : buf[j] # "LF"
  <2>1. p.scan <= Len(buf) /\ \A j \in 1..p.scan : buf[j] # "LF"
    BY <1>1 DEF Inv, NothingSkipped, Rejections
  <2>2. From = p.scan
    BY <1>1, <2>1 DEF From
  <2> QED BY <1>1, <2>1, <2>2 DEF Incomplete, NoLF
<1> QED BY <1>1, <1>2, InvLook DEF Incomplete, Status, Rejections

(* Rejecting a line that ends in a bare LF keeps the invariant.            *)
LEMMA InvRejectBareLF ==
  ASSUME Inv, NEW i \in 1..Len(buf), RejectBareLF(i)
  PROVE  Inv'
<1>1. status = "parsing" /\ i - 1 \in Nat
  BY Before DEF RejectBareLF, AtLine, In, AtChunkCRLF, AtChunkSize
<1> QED BY <1>1, InvLook DEF RejectBareLF, Status, Rejections

(* Consuming n bytes and going on, or stopping, with q.                    *)
LEMMA InvAdvance ==
  ASSUME Inv, status = "parsing", NEW n \in Nat, n <= Len(buf), Consume(n),
         NEW q, q \in Parser, q.consumed = p.consumed + n, q.scan = 0,
         p' = q, status' \in Status,
         UNCHANGED <<input, fed, requests>>, continues' \in Seq(Nat),
         Len(q.body) + q.body_remaining + q.chunk_remaining <= MaxBody,
         Len(q.headers) <= MaxFields,
         status' \notin Rejections => q.header_bytes <= MaxHeader + 2,
         StateIsConsistent'
  PROVE  Inv'
<1>1. buf' \in Seq(Byte) /\ Len(buf') = Len(buf) - n
  BY Consumption DEF Inv
<1>2. Len(buf) \in Nat /\ p.consumed \in Nat
  BY Before
<1>3. TypeOK'
  BY <1>1 DEF Inv, TypeOK
<1>4. p'.consumed + Len(buf') <= MaxRequest
  BY <1>1, <1>2, ParserAssumption DEF Inv, LimitsHold, Rejections
<1>5. LimitsHold'
  BY <1>4 DEF LimitsHold
<1>6. NothingSkipped'
  BY <1>1, <1>2 DEF NothingSkipped
<1> QED BY <1>3, <1>5, <1>6 DEF Inv

(* Handing a request over.                                                 *)
LEMMA InvEmit ==
  ASSUME Inv, status = "parsing", NEW n \in Nat, n <= Len(buf), Consume(n),
         NEW q, q \in Parser, Emit(q)
  PROVE  Inv'
<1>1. buf' \in Seq(Byte) /\ Len(buf') = Len(buf) - n
  BY Consumption DEF Inv
<1>2. Len(buf) \in Nat /\ p.consumed \in Nat
  BY Before
<1>3. Len(<<>>) = 0
  BY EmptySeq
<1>4. TypeOK'
  <2>1. [minor |-> q.minor, headers |-> q.headers, keep_alive |-> q.keep_alive,
         body |-> q.body, header_bytes |-> q.header_bytes,
         total_bytes |-> q.consumed] \in Request
    BY DEF Parser, Request
  <2>2. requests' \in Seq(Request)
    BY <2>1, AppendProperties DEF Emit, Inv, TypeOK
  <2> QED BY <1>1, <2>2, ResetIsParser DEF Emit, Inv, TypeOK, Status
<1>5. LimitsHold'
  <2>1. Len(buf') <= MaxRequest
    BY <1>1, <1>2, ParserAssumption DEF Inv, LimitsHold, Rejections
  <2> QED BY <1>1, <1>2, <1>3, <2>1, ParserAssumption DEF Emit, LimitsHold, reset
<1>6. NothingSkipped'
  BY <1>1, <1>2 DEF Emit, NothingSkipped, reset
<1>7. StateIsConsistent'
  BY ParserAssumption DEF Emit, StateIsConsistent, reset
<1> QED BY <1>4, <1>5, <1>6, <1>7 DEF Inv

(* A request line keeps the invariant.                                     *)
LEMMA InvRequestLine ==
  ASSUME Inv, NEW n \in Nat, RequestLine(n)
  PROVE  Inv'
<1>1. status = "parsing" /\ p.state = "kRequestLine" /\ line_ready(n)
  BY DEF RequestLine, In
<1>2. n + 2 <= Len(buf) /\ n + 2 \in Nat
  BY <1>1, LineFits DEF Inv
<1>3. CASE n > MaxLine
  BY <1>1, <1>2, <1>3, InvLook DEF RequestLine, Continue, Status, Rejections
<1>4. CASE ~(n > MaxLine)
  <2> DEFINE verdict == parse_request_line(Line(n))
             r == Consumed(p, n + 2)
             q == IF verdict # "ok" THEN r
                  ELSE [r EXCEPT !.state = "kHeaders",
                                 !.minor = IF buf[1] = "g" THEN 1 ELSE 0]
  <2>1. Consume(n + 2) /\ Continue(verdict, q)
    BY <1>4 DEF RequestLine
  <2>2. verdict \in {"ok", "kBadRequest"}
    BY DEF parse_request_line
  <2> HIDE DEF verdict
  <2>3. /\ q \in Parser /\ q.consumed = p.consumed + (n + 2) /\ q.scan = 0
        /\ q.body = p.body /\ q.headers = p.headers
        /\ q.body_remaining = p.body_remaining
        /\ q.chunk_remaining = p.chunk_remaining
        /\ q.header_bytes = p.header_bytes
        /\ q.expect_chunk_crlf = p.expect_chunk_crlf
        /\ q.state \in {"kRequestLine", "kHeaders"}
    <3> HIDE DEF r
    <3>1. /\ r \in Parser /\ r.consumed = p.consumed + (n + 2) /\ r.scan = 0
          /\ r.state = p.state /\ r.headers = p.headers /\ r.body = p.body
          /\ r.body_remaining = p.body_remaining
          /\ r.chunk_remaining = p.chunk_remaining
          /\ r.header_bytes = p.header_bytes
          /\ r.expect_chunk_crlf = p.expect_chunk_crlf
      BY <1>2, AfterConsuming DEF r
    <3>2. CASE verdict # "ok"
      BY <1>1, <3>1, <3>2
    <3>3. CASE verdict = "ok"
      BY <3>1, <3>3 DEF Parser, State
    <3> QED BY <3>2, <3>3
  <2> HIDE DEF q
  <2>4. p.header_bytes = 0
    BY <1>1 DEF Inv, StateIsConsistent
  <2>5. StateIsConsistent'
    BY <1>1, <2>1, <2>3, <2>4, ParserAssumption
    DEF Inv, StateIsConsistent, Continue
  <2>6. p' = q /\ status' \in Status /\ UNCHANGED <<input, fed, requests, continues>>
    BY <2>1, <2>2 DEF Continue, Status, Rejections
  <2>7. q.header_bytes <= MaxHeader + 2
    BY <2>3, <2>4, ParserAssumption
  <2>8. /\ Len(q.body) + q.body_remaining + q.chunk_remaining <= MaxBody
        /\ Len(q.headers) <= MaxFields
    BY <2>3 DEF Inv, LimitsHold
  <2>9. continues' \in Seq(Nat)
    BY <2>6 DEF Inv, TypeOK
  <2> QED BY <1>1, <1>2, <2>1, <2>3, <2>5, <2>6, <2>7, <2>8, <2>9, InvAdvance
<1> QED BY <1>3, <1>4

(* A field is counted before it is judged, and stored only below the limit.*)
LEMMA InvFieldLine ==
  ASSUME Inv, NEW n \in Nat, FieldLine(n)
  PROVE  Inv'
<1> DEFINE verdict == parse_header_line(Line(n), p.headers)
           size == p.header_bytes + n + 2
           r == [Consumed(p, n + 2) EXCEPT !.header_bytes = size]
           q == IF verdict # "ok" THEN r
                ELSE [r EXCEPT !.headers = Append(@, Line(n))]
           answer == IF verdict # "ok" THEN verdict
                     ELSE IF size > MaxHeader THEN "kTooLarge" ELSE "ok"
<1>1. /\ status = "parsing" /\ p.state \in {"kHeaders", "kChunkTrailer"}
      /\ line_ready(n)
  BY DEF FieldLine, In
<1>2. n + 2 <= Len(buf) /\ n + 2 \in Nat /\ Line(n) \in Seq(Byte)
  BY <1>1, LineFits DEF Inv
<1>3. Consume(n + 2) /\ Continue(answer, q)
  BY DEF FieldLine
<1>4. /\ verdict \in {"ok", "kBadRequest", "kTooLarge"}
      /\ verdict = "ok" => ~(Len(p.headers) >= MaxFields)
  BY DEF parse_header_line
<1> HIDE DEF verdict
<1>5. /\ Append(p.headers, Line(n)) \in Seq(Seq(Byte))
      /\ Len(Append(p.headers, Line(n))) = Len(p.headers) + 1
  BY <1>2, Before, AppendProperties
<1>6. /\ size \in Nat
      /\ p.consumed + (n + 2) \in Nat
  <2>1. p.header_bytes \in Nat /\ p.consumed \in Nat
    BY Before
  <2> QED BY <2>1
<1> HIDE DEF size
<1>7. r \in Parser /\ r.headers = p.headers
  BY <1>6, Before DEF Consumed, Parser
<1>8. /\ q \in Parser /\ q.consumed = p.consumed + (n + 2) /\ q.scan = 0
      /\ q.body = p.body /\ q.body_remaining = p.body_remaining
      /\ q.chunk_remaining = p.chunk_remaining /\ q.header_bytes = size
      /\ q.expect_chunk_crlf = p.expect_chunk_crlf /\ q.state = p.state
      /\ q.headers = IF verdict # "ok" THEN p.headers
                     ELSE Append(p.headers, Line(n))
  BY <1>5, <1>6, Before DEF Consumed, Parser
<1> HIDE DEF q, r
<1>9. /\ p' = q /\ status' \in Status
      /\ UNCHANGED <<input, fed, requests, continues>>
      /\ status' \notin Rejections => ~(size > MaxHeader)
  BY <1>3, <1>4 DEF Continue, Status, Rejections
<1>10. Len(q.headers) <= MaxFields
  BY <1>4, <1>5, <1>8, Before, ParserAssumption DEF Inv, LimitsHold
<1>11. Len(q.body) + q.body_remaining + q.chunk_remaining <= MaxBody
  BY <1>8 DEF Inv, LimitsHold
<1>12. status' \notin Rejections => size <= MaxHeader /\ size <= MaxHeader + 2
  BY <1>6, <1>9, ParserAssumption
<1>13. StateIsConsistent'
  BY <1>1, <1>8, <1>9, <1>12 DEF Inv, StateIsConsistent
<1>14. continues' \in Seq(Nat)
  BY <1>9 DEF Inv, TypeOK
<1> QED BY <1>1, <1>2, <1>3, <1>8, <1>9, <1>10, <1>11, <1>12, <1>13, <1>14,
           InvAdvance

(* A head that is complete has at most MaxHeader bytes before its last     *)
(* line, and the body it announces is at most MaxBody long.                *)
LEMMA InvEndOfHeaders == Inv /\ EndOfHeaders => Inv'
<1> SUFFICES ASSUME Inv, EndOfHeaders PROVE Inv'
  OBVIOUS
<1> DEFINE outcome == finish_headers(p.headers, p.minor)
           r == Consumed(p, 2)
           alive == IF OptionsOK(p.headers) THEN KeepAlive(p.headers, p.minor)
                    ELSE r.keep_alive
           accepted == Accepted(p.headers, p.minor)
           q == [r EXCEPT !.header_bytes = @ + 2, !.keep_alive = alive]
           length == ContentLength(p.headers)
           framed == IF Chunked(p.headers)
                     THEN [q EXCEPT !.state = "kBodyChunked"]
                     ELSE [q EXCEPT !.state = "kBodyFixed",
                                    !.body_remaining = length]
           asked == [framed EXCEPT !.expect_sent = TRUE]
<1>1. /\ status = "parsing" /\ p.state = "kHeaders" /\ line_ready(0)
      /\ Consume(2)
  BY DEF EndOfHeaders, In
<1>2. 2 <= Len(buf)
  BY <1>1, LineFits DEF Inv
<1>3. outcome \in {"kBadRequest", "kTooLarge", "kRequestReady", "kBodyPending",
                  "kSend100"}
  BY DEF finish_headers
<1>4. outcome \notin Rejections \/ accepted => length \in 0..MaxBody
  BY LengthIsNumber
<1>5. /\ outcome \in Rejections =>
           Continue(outcome, IF accepted THEN framed ELSE q)
      /\ outcome = "kRequestReady" => Emit(q)
      /\ outcome = "kBodyPending" => Continue("ok", framed)
      /\ outcome = "kSend100" =>
           /\ p' = asked /\ status' = "kExpect100"
           /\ continues' = Append(continues, Len(requests) + 1)
           /\ UNCHANGED <<input, fed, requests>>
  <2> HIDE DEF outcome, q, framed
  <2>1. (CASE outcome \in Rejections ->
                 Continue(outcome, IF accepted THEN framed ELSE q)
          [] outcome = "kRequestReady" -> Emit(q)
          [] outcome = "kBodyPending" -> Continue("ok", framed)
          [] outcome = "kSend100" ->
               /\ p' = asked /\ status' = "kExpect100"
               /\ continues' = Append(continues, Len(requests) + 1)
               /\ UNCHANGED <<input, fed, requests>>)
    BY Zenon DEF EndOfHeaders, outcome, q, framed
  <2> QED BY <1>3, <2>1 DEF Rejections
<1> HIDE DEF outcome, accepted, length
<1>6. alive \in BOOLEAN
  BY AfterConsuming DEF KeepAlive, Parser
<1> HIDE DEF alive
<1>7. /\ r \in Parser /\ r.consumed = p.consumed + 2 /\ r.scan = 0
      /\ r.state = "kHeaders" /\ r.headers = p.headers /\ r.body = p.body
      /\ r.body_remaining = 0 /\ r.chunk_remaining = 0
      /\ r.header_bytes = p.header_bytes /\ ~r.expect_chunk_crlf
  BY <1>1, AfterConsuming DEF Inv, StateIsConsistent
<1> HIDE DEF r
<1>8. /\ p.header_bytes \in Nat /\ p.header_bytes <= MaxHeader
      /\ p.body = <<>> /\ Len(p.headers) <= MaxFields /\ Len(<<>>) = 0
  BY <1>1, Before, EmptySeq DEF Inv, StateIsConsistent, LimitsHold, Rejections
<1>9. /\ q \in Parser /\ q.consumed = p.consumed + 2 /\ q.scan = 0
      /\ q.state = "kHeaders" /\ q.headers = p.headers /\ q.body = <<>>
      /\ q.body_remaining = 0 /\ q.chunk_remaining = 0
      /\ q.header_bytes = p.header_bytes + 2 /\ ~q.expect_chunk_crlf
  <2>1. p.header_bytes + 2 \in Nat
    BY <1>8
  <2> QED BY <1>6, <1>7, <1>8, <2>1 DEF Parser
<1> HIDE DEF q
<1> DEFINE WellFramed(f) ==
             /\ f \in Parser /\ f.consumed = p.consumed + 2 /\ f.scan = 0
             /\ f.state \in {"kBodyChunked", "kBodyFixed"}
             /\ f.headers = p.headers /\ f.body = <<>>
             /\ f.body_remaining \in 0..MaxBody /\ f.chunk_remaining = 0
             /\ f.state # "kBodyFixed" => f.body_remaining = 0
             /\ f.header_bytes = p.header_bytes + 2 /\ ~f.expect_chunk_crlf
<1>10. ASSUME outcome \notin Rejections \/ accepted
       PROVE  WellFramed(framed) /\ WellFramed(asked)
  <2>1. length \in Nat /\ length \in 0..MaxBody /\ 0 \in 0..MaxBody
    BY <1>4, <1>10, ParserAssumption
  <2>2. WellFramed(framed)
    <3>1. CASE Chunked(p.headers)
      <4>1. framed = [q EXCEPT !.state = "kBodyChunked"]
        BY <3>1
      <4> HIDE DEF framed
      <4> QED BY <1>9, <2>1, <4>1 DEF Parser, State
    <3>2. CASE ~Chunked(p.headers)
      <4>1. framed = [q EXCEPT !.state = "kBodyFixed", !.body_remaining = length]
        BY <3>2
      <4> HIDE DEF framed
      <4> QED BY <1>9, <2>1, <4>1 DEF Parser, State
    <3> QED BY <3>1, <3>2
  <2> HIDE DEF framed
  <2>3. WellFramed(asked)
    BY <2>2 DEF Parser
  <2> QED BY <2>2, <2>3
<1> HIDE DEF framed, asked
<1>11. p.header_bytes + 2 <= MaxHeader + 2
  BY <1>8, ParserAssumption
<1>12. CASE outcome \in Rejections
  <2> DEFINE f == IF accepted THEN framed ELSE q
  <2>1. /\ p' = f /\ status' = outcome /\ status' \in Status
        /\ UNCHANGED <<input, fed, requests, continues>>
    BY <1>5, <1>12 DEF Continue, Status, Rejections
  <2>2. \/ WellFramed(f)
        \/ f = q
    BY <1>10
  <2> HIDE DEF f
  <2>3. StateIsConsistent'
    BY <1>9, <1>12, <2>1, <2>2 DEF StateIsConsistent
  <2>4. Len(f.body) + f.body_remaining + f.chunk_remaining <= MaxBody
    BY <1>8, <1>9, <2>2, ParserAssumption
  <2>5. continues' \in Seq(Nat)
    BY <2>1 DEF Inv, TypeOK
  <2>6. /\ f \in Parser /\ f.consumed = p.consumed + 2 /\ f.scan = 0
        /\ Len(f.headers) <= MaxFields /\ f.header_bytes <= MaxHeader + 2
    BY <1>8, <1>9, <1>11, <2>2
  <2> QED BY <1>1, <1>2, <2>1, <2>3, <2>4, <2>5, <2>6, InvAdvance
<1>13. CASE outcome = "kRequestReady"
  BY <1>1, <1>2, <1>5, <1>9, <1>13, InvEmit
<1>14. CASE outcome \in {"kBodyPending", "kSend100"}
  <2>1. outcome \notin Rejections
    BY <1>14 DEF Rejections
  <2>2. PICK f \in {framed, asked} :
          /\ p' = f /\ status' \in {"parsing", "kExpect100"}
          /\ UNCHANGED <<input, fed, requests>>
          /\ continues' \in {continues, Append(continues, Len(requests) + 1)}
    BY <1>5, <1>14 DEF Continue
  <2>3. WellFramed(f)
    BY <1>10, <2>1
  <2>4. StateIsConsistent'
    BY <2>2, <2>3 DEF StateIsConsistent
  <2>5. Len(f.body) + f.body_remaining + f.chunk_remaining <= MaxBody
    BY <1>8, <2>3, ParserAssumption
  <2>6. continues' \in Seq(Nat)
    <3>1. continues \in Seq(Nat) /\ Len(requests) + 1 \in Nat
      BY LenProperties DEF Inv, TypeOK
    <3> QED BY <2>2, <3>1, AppendProperties
  <2>7. status' \in Status
    BY <2>2 DEF Status
  <2> QED BY <1>1, <1>2, <1>8, <1>11, <2>2, <2>3, <2>4, <2>5, <2>6, <2>7,
             InvAdvance
<1> QED BY <1>3, <1>12, <1>13, <1>14 DEF Rejections

(* Moving bytes from the buffer to the body.                               *)
LEMMA Taking ==
  ASSUME Inv, NEW wanted \in Nat
  PROVE  LET take == Available(wanted)
         IN  /\ take \in Nat /\ take <= Len(buf) /\ take <= wanted
             /\ p.body \o Line(take) \in Seq(Byte)
             /\ Len(p.body \o Line(take)) = Len(p.body) + take
<1> DEFINE take == Available(wanted)
<1>1. take \in Nat /\ take <= Len(buf) /\ take <= wanted
  BY Before DEF Available
<1> HIDE DEF take
<1>2. Line(take) \in Seq(Byte) /\ Len(Line(take)) = take
  BY <1>1, Before, Front DEF Line
<1>3. /\ p.body \o Line(take) \in Seq(Byte)
      /\ Len(p.body \o Line(take)) = Len(p.body) + Len(Line(take))
  BY <1>2, Before, ConcatProperties
<1> QED BY <1>1, <1>2, <1>3 DEF take

(* What is read of a body is no longer announced: the sum stays.           *)
LEMMA InvBodyFixed == Inv /\ BodyFixed => Inv'
<1> SUFFICES ASSUME Inv, BodyFixed PROVE Inv'
  OBVIOUS
<1> DEFINE take == Available(p.body_remaining)
           r == Consumed(p, take)
           q == [r EXCEPT !.body = @ \o Line(take), !.body_remaining = @ - take]
<1>1. /\ status = "parsing" /\ p.state = "kBodyFixed" /\ Consume(take)
      /\ IF q.body_remaining = 0 THEN Emit(q) ELSE Continue("kNeedMore", q)
  BY DEF BodyFixed, In
<1>2. /\ take \in Nat /\ take <= Len(buf) /\ take <= p.body_remaining
      /\ p.body \o Line(take) \in Seq(Byte)
      /\ Len(p.body \o Line(take)) = Len(p.body) + take
      /\ p.body_remaining \in Nat /\ Len(p.body) \in Nat
  BY Before, Taking
<1> HIDE DEF take
<1>3. /\ r \in Parser /\ r.consumed = p.consumed + take /\ r.scan = 0
      /\ r.state = "kBodyFixed" /\ r.headers = p.headers /\ r.body = p.body
      /\ r.body_remaining = p.body_remaining /\ r.chunk_remaining = 0
      /\ r.header_bytes = p.header_bytes /\ ~r.expect_chunk_crlf
  BY <1>1, <1>2, AfterConsuming DEF Inv, StateIsConsistent
<1> HIDE DEF r
<1>4. /\ q \in Parser /\ q.consumed = p.consumed + take /\ q.scan = 0
      /\ q.state = "kBodyFixed" /\ q.headers = p.headers
      /\ q.body = p.body \o Line(take)
      /\ q.body_remaining = p.body_remaining - take /\ q.chunk_remaining = 0
      /\ q.header_bytes = p.header_bytes /\ ~q.expect_chunk_crlf
  <2>1. p.body_remaining - take \in Nat
    BY <1>2
  <2> QED BY <1>2, <1>3, <2>1 DEF Parser
<1> HIDE DEF q
<1>5. CASE q.body_remaining = 0
  BY <1>1, <1>2, <1>4, <1>5, InvEmit
<1>6. CASE q.body_remaining # 0
  <2>1. /\ p' = q /\ status' = "kNeedMore" /\ status' \in Status
        /\ UNCHANGED <<input, fed, requests, continues>>
    BY <1>1, <1>6 DEF Continue, Status
  <2>2. StateIsConsistent'
    BY <1>4, <2>1 DEF StateIsConsistent
  <2>3. /\ Len(q.body) + q.body_remaining + q.chunk_remaining <= MaxBody
        /\ Len(q.headers) <= MaxFields /\ q.header_bytes <= MaxHeader + 2
    <3>1. /\ Len(p.body) + p.body_remaining + p.chunk_remaining <= MaxBody
          /\ p.chunk_remaining = 0 /\ Len(p.headers) <= MaxFields
          /\ p.header_bytes <= MaxHeader + 2
      BY <1>1 DEF Inv, LimitsHold, StateIsConsistent, Rejections
    <3> QED BY <1>2, <1>4, <3>1, ParserAssumption
  <2>4. continues' \in Seq(Nat)
    BY <2>1 DEF Inv, TypeOK
  <2> QED BY <1>1, <1>2, <1>4, <2>1, <2>2, <2>3, <2>4, InvAdvance
<1> QED BY <1>5, <1>6

(* The empty line after the trailers keeps the invariant.                  *)
LEMMA InvEndOfTrailers == Inv /\ EndOfTrailers => Inv'
<1> SUFFICES ASSUME Inv, EndOfTrailers PROVE Inv'
  OBVIOUS
<1>1. status = "parsing" /\ line_ready(0) /\ Consume(2) /\ Emit(Consumed(p, 2))
  BY DEF EndOfTrailers, In
<1>2. 2 <= Len(buf)
  BY <1>1, LineFits DEF Inv
<1>3. Consumed(p, 2) \in Parser
  BY AfterConsuming
<1> QED BY <1>1, <1>2, <1>3, InvEmit

(* A step of a chunked body that consumes n bytes.                         *)
LEMMA InvChunked ==
  ASSUME Inv, status = "parsing", p.state = "kBodyChunked",
         NEW n \in Nat, n <= Len(buf), Consume(n),
         NEW verdict \in {"ok"} \cup Rejections, NEW q, Continue(verdict, q),
         q \in Parser, q.consumed = p.consumed + n, q.scan = 0,
         q.state \in {"kBodyChunked", "kChunkTrailer"},
         q.headers = p.headers, q.header_bytes = p.header_bytes,
         q.body_remaining = 0,
         q.expect_chunk_crlf \/ q.state = "kChunkTrailer" =>
           q.chunk_remaining = 0,
         q.state = "kChunkTrailer" => ~q.expect_chunk_crlf,
         Len(q.body) + q.chunk_remaining <= MaxBody
  PROVE  Inv'
<1>1. /\ p' = q /\ status' \in Status
      /\ UNCHANGED <<input, fed, requests, continues>>
  BY DEF Continue, Status, Rejections
<1>2. StateIsConsistent'
  BY <1>1 DEF StateIsConsistent
<1>3. /\ Len(q.headers) <= MaxFields /\ q.header_bytes <= MaxHeader + 2
  BY DEF Inv, LimitsHold, Rejections
<1>4. Len(q.body) + q.body_remaining + q.chunk_remaining <= MaxBody
  <2>1. Len(q.body) \in Nat /\ q.chunk_remaining \in Nat
    BY LenProperties DEF Parser
  <2> QED BY <2>1, ParserAssumption
<1>5. continues' \in Seq(Nat)
  BY <1>1 DEF Inv, TypeOK
<1> QED BY <1>1, <1>2, <1>3, <1>4, <1>5, InvAdvance

(* A chunk is accepted only if the body with it stays within its limit.    *)
LEMMA InvChunkSizeLine ==
  ASSUME Inv, NEW n \in Nat, ChunkSizeLine(n)
  PROVE  Inv'
<1> DEFINE verdict == parse_chunk_size(Line(n))
           size == Value(Hex(Line(n)), 16)
           q == Consumed(p, n + 2)
           last == [q EXCEPT !.state = "kChunkTrailer"]
           sized == [q EXCEPT !.chunk_remaining = size]
<1>1. /\ status = "parsing" /\ p.state = "kBodyChunked" /\ line_ready(n)
      /\ Consume(n + 2)
      /\ ~p.expect_chunk_crlf /\ p.chunk_remaining = 0
  BY DEF ChunkSizeLine, AtChunkSize, In
<1>2. IF verdict # "ok" THEN Continue(verdict, q)
      ELSE IF size = 0 THEN Continue("ok", last)
      ELSE IF Len(p.body) + size > MaxBody THEN Continue("kTooLarge", q)
      ELSE Continue("ok", sized)
  BY DEF ChunkSizeLine
<1>3. n + 2 <= Len(buf) /\ n + 2 \in Nat
  BY <1>1, LineFits DEF Inv
<1>4. /\ verdict \in {"ok"} \cup Rejections
      /\ verdict = "ok" => size \in Nat
  BY SizeIsNumber DEF parse_chunk_size, Rejections
<1> HIDE DEF verdict, size
<1>5. /\ q \in Parser /\ q.consumed = p.consumed + (n + 2) /\ q.scan = 0
      /\ q.state = "kBodyChunked" /\ q.headers = p.headers /\ q.body = p.body
      /\ q.body_remaining = 0 /\ q.chunk_remaining = 0
      /\ q.header_bytes = p.header_bytes /\ ~q.expect_chunk_crlf
  BY <1>1, <1>3, AfterConsuming DEF Inv, StateIsConsistent
<1> HIDE DEF q
<1>6. Len(p.body) \in Nat /\ Len(p.body) <= MaxBody
  <2>1. Len(p.body) \in Nat /\ p.body_remaining \in Nat
    BY Before
  <2>2. Len(p.body) + p.body_remaining + p.chunk_remaining <= MaxBody
    BY DEF Inv, LimitsHold
  <2> QED BY <1>1, <2>1, <2>2, ParserAssumption
<1>7. Len(q.body) + q.chunk_remaining <= MaxBody
  BY <1>5, <1>6
<1>8. ASSUME NEW v \in {"ok"} \cup Rejections, Continue(v, q)
      PROVE  Inv'
  BY <1>1, <1>3, <1>5, <1>7, <1>8, InvChunked
<1>9. CASE verdict # "ok"
  BY <1>2, <1>4, <1>8, <1>9
<1>10. CASE verdict = "ok" /\ size = 0
  <2>1. /\ last \in Parser /\ last.consumed = p.consumed + (n + 2)
        /\ last.scan = 0 /\ last.state = "kChunkTrailer"
        /\ last.headers = p.headers /\ last.body = p.body
        /\ last.body_remaining = 0 /\ last.chunk_remaining = 0
        /\ last.header_bytes = p.header_bytes /\ ~last.expect_chunk_crlf
    BY <1>5 DEF Parser, State
  <2>2. Continue("ok", last)
    BY <1>2, <1>10
  <2> HIDE DEF last
  <2>3. Len(last.body) + last.chunk_remaining <= MaxBody
    BY <1>6, <2>1
  <2> QED BY <1>1, <1>3, <2>1, <2>2, <2>3, InvChunked
<1>11. CASE verdict = "ok" /\ size # 0 /\ Len(p.body) + size > MaxBody
  <2>1. Continue("kTooLarge", q)
    BY <1>2, <1>11
  <2> QED BY <1>8, <2>1 DEF Rejections
<1>12. CASE verdict = "ok" /\ size # 0 /\ ~(Len(p.body) + size > MaxBody)
  <2>1. size \in Nat /\ Len(p.body) + size <= MaxBody
    BY <1>4, <1>6, <1>12, ParserAssumption
  <2>2. /\ sized \in Parser /\ sized.consumed = p.consumed + (n + 2)
        /\ sized.scan = 0 /\ sized.state = "kBodyChunked"
        /\ sized.headers = p.headers /\ sized.body = p.body
        /\ sized.body_remaining = 0 /\ sized.chunk_remaining = size
        /\ sized.header_bytes = p.header_bytes /\ ~sized.expect_chunk_crlf
    BY <1>5, <2>1 DEF Parser
  <2>3. Continue("ok", sized)
    BY <1>2, <1>12
  <2> HIDE DEF sized
  <2> QED BY <1>1, <1>3, <2>1, <2>2, <2>3, InvChunked
<1> QED BY <1>9, <1>10, <1>11, <1>12

(* Taking chunk data keeps the invariant.                                  *)
LEMMA InvChunkData == Inv /\ ChunkData => Inv'
<1> SUFFICES ASSUME Inv, ChunkData PROVE Inv'
  OBVIOUS
<1> DEFINE take == Available(p.chunk_remaining)
           r == Consumed(p, take)
           q == [r EXCEPT !.body = @ \o Line(take), !.chunk_remaining = @ - take,
                          !.expect_chunk_crlf = (take = p.chunk_remaining)]
<1>1. /\ status = "parsing" /\ p.state = "kBodyChunked"
      /\ ~p.expect_chunk_crlf /\ p.body_remaining = 0
  BY DEF ChunkData, AtChunkData, In, Inv, StateIsConsistent
<1>2. IF take = 0 THEN UNCHANGED buf /\ Continue("kNeedMore", p)
      ELSE IF Len(p.body) + take > MaxBody
      THEN UNCHANGED buf /\ Continue("kTooLarge", p)
      ELSE Consume(take) /\ Continue("ok", q)
  BY DEF ChunkData
<1>3. /\ take \in Nat /\ take <= Len(buf) /\ take <= p.chunk_remaining
      /\ p.body \o Line(take) \in Seq(Byte)
      /\ Len(p.body \o Line(take)) = Len(p.body) + take
      /\ p.chunk_remaining \in Nat /\ Len(p.body) \in Nat
  BY Before, Taking
<1> HIDE DEF take
<1>4. CASE UNCHANGED <<buf, p>> /\ \E v \in {"kNeedMore", "kTooLarge"} : Continue(v, p)
  <2>1. /\ status' \in {"kNeedMore", "kTooLarge"}
        /\ UNCHANGED <<input, fed, buf, p, requests, continues>>
    BY <1>4 DEF Continue
  <2>2. status \notin Rejections
    BY <1>1 DEF Rejections
  <2>3. TypeOK'
    BY <2>1 DEF Inv, TypeOK, Status, Rejections
  <2>4. LimitsHold'
    BY <2>1, <2>2 DEF Inv, LimitsHold
  <2>5. NothingSkipped'
    BY <2>1, <2>2 DEF Inv, NothingSkipped
  <2>6. StateIsConsistent'
    BY <2>1, <2>2 DEF Inv, StateIsConsistent
  <2> QED BY <2>3, <2>4, <2>5, <2>6 DEF Inv
<1>5. CASE Consume(take) /\ Continue("ok", q)
  <2>1. /\ r \in Parser /\ r.consumed = p.consumed + take /\ r.scan = 0
        /\ r.state = "kBodyChunked" /\ r.headers = p.headers /\ r.body = p.body
        /\ r.body_remaining = 0 /\ r.chunk_remaining = p.chunk_remaining
        /\ r.header_bytes = p.header_bytes
    BY <1>1, <1>3, AfterConsuming
  <2> HIDE DEF r
  <2>2. p.chunk_remaining - take \in Nat
    BY <1>3
  <2>3. (take = p.chunk_remaining) \in BOOLEAN
    OBVIOUS
  <2>4. /\ q \in Parser /\ q.consumed = p.consumed + take /\ q.scan = 0
        /\ q.state = "kBodyChunked" /\ q.headers = p.headers
        /\ q.body = p.body \o Line(take) /\ q.body_remaining = 0
        /\ q.chunk_remaining = p.chunk_remaining - take
        /\ q.header_bytes = p.header_bytes
        /\ q.expect_chunk_crlf = (take = p.chunk_remaining)
    BY <1>3, <2>1, <2>2, <2>3 DEF Parser
  <2> HIDE DEF q
  <2>5. q.expect_chunk_crlf => q.chunk_remaining = 0
    <3>1. q.expect_chunk_crlf => take = p.chunk_remaining
      BY <2>4, Zenon
    <3>2. take = p.chunk_remaining => p.chunk_remaining - take = 0
      BY <1>3
    <3> QED BY <2>4, <3>1, <3>2, Zenon
  <2>6. Len(q.body) + q.chunk_remaining <= MaxBody
    <3>1. Len(p.body) + p.body_remaining + p.chunk_remaining <= MaxBody
      BY DEF Inv, LimitsHold
    <3> QED BY <1>1, <1>3, <2>4, <3>1, ParserAssumption
  <2> QED BY <1>1, <1>3, <1>5, <2>4, <2>5, <2>6, InvChunked
<1> QED BY <1>2, <1>4, <1>5 DEF Continue

(* The CRLF after a chunk keeps the invariant.                             *)
LEMMA InvChunkCRLF ==
  ASSUME Inv, NEW n \in Nat, ChunkCRLF(n)
  PROVE  Inv'
<1>1. /\ status = "parsing" /\ p.state = "kBodyChunked" /\ line_ready(n)
      /\ p.expect_chunk_crlf
  BY DEF ChunkCRLF, AtChunkCRLF, In
<1>2. n + 2 <= Len(buf) /\ n + 2 \in Nat
  BY <1>1, LineFits DEF Inv
<1>3. CASE n # 0
  BY <1>1, <1>2, <1>3, InvLook DEF ChunkCRLF, Continue, Status, Rejections
<1>4. CASE n = 0
  <2> DEFINE r == Consumed(p, 2)
             q == [r EXCEPT !.expect_chunk_crlf = FALSE]
  <2>1. Consume(2) /\ Continue("ok", q)
    BY <1>4 DEF ChunkCRLF
  <2>2. /\ r \in Parser /\ r.consumed = p.consumed + 2 /\ r.scan = 0
        /\ r.state = "kBodyChunked" /\ r.headers = p.headers /\ r.body = p.body
        /\ r.body_remaining = 0 /\ r.chunk_remaining = 0
        /\ r.header_bytes = p.header_bytes
    BY <1>1, AfterConsuming DEF Inv, StateIsConsistent
  <2> HIDE DEF r
  <2>3. /\ q \in Parser /\ q.consumed = p.consumed + 2 /\ q.scan = 0
        /\ q.state = "kBodyChunked" /\ q.headers = p.headers /\ q.body = p.body
        /\ q.body_remaining = 0 /\ q.chunk_remaining = 0
        /\ q.header_bytes = p.header_bytes /\ ~q.expect_chunk_crlf
    BY <2>2 DEF Parser
  <2> HIDE DEF q
  <2>4. Len(q.body) + q.chunk_remaining <= MaxBody
    <3>1. /\ Len(p.body) + p.body_remaining + p.chunk_remaining <= MaxBody
          /\ p.body_remaining = 0 /\ p.chunk_remaining = 0 /\ Len(p.body) \in Nat
      BY <1>1, Before DEF Inv, LimitsHold, StateIsConsistent
    <3> QED BY <2>3, <3>1
  <2> QED BY <1>1, <1>2, <1>4, <2>1, <2>3, <2>4, InvChunked
<1> QED BY <1>3, <1>4

-----------------------------------------------------------------------------
(* The invariant                                                           *)

(* Every step of the parser keeps the invariant.                           *)
LEMMA InvNext == Inv /\ [Next]_vars => Inv'
<1> SUFFICES ASSUME Inv, [Next]_vars PROVE Inv'
  OBVIOUS
<1>1. Len(buf) \in Nat
  BY Before
<1>2. CASE Step
  <2>1. ASSUME NEW n \in 0..Len(buf),
               RequestLine(n) \/ FieldLine(n) \/ ChunkSizeLine(n) \/ ChunkCRLF(n)
        PROVE  Inv'
    <3>1. n \in Nat
      BY <1>1
    <3> QED BY <2>1, <3>1, InvRequestLine, InvFieldLine, InvChunkSizeLine,
               InvChunkCRLF
  <2> QED BY <1>2, <2>1, InvIncomplete, InvRejectBareLF, InvEndOfHeaders,
             InvBodyFixed, InvChunkData, InvEndOfTrailers DEF Step
<1>3. CASE \E n \in 0..(Len(input) - fed) : Call(n)
  BY <1>3, InvCall
<1>4. CASE UNCHANGED vars
  BY <1>4 DEF vars, Inv, TypeOK, LimitsHold, NothingSkipped, StateIsConsistent
<1> QED BY <1>2, <1>3, <1>4 DEF Next

(* The invariant holds in every reachable state.                           *)
LEMMA Invariance == Spec => []Inv
BY InvInit, InvNext, PTL DEF Spec

(* Every member of the parser keeps its type: in particular no counter     *)
(* (body_remaining, chunk_remaining) is ever decremented below zero.       *)
THEOREM ParserTypes == Spec => []TypeOK
<1>1. Inv => TypeOK
  BY DEF Inv
<1> QED BY <1>1, Invariance, PTL

(* Whatever is sent, and however it is cut into pieces, the parser never   *)
(* holds more than its limits allow.                                       *)
THEOREM LimitsAreKept == Spec => []LimitsHold
<1>1. Inv => LimitsHold
  BY DEF Inv
<1> QED BY <1>1, Invariance, PTL

(* Resuming the search for a line end at scan_ misses none.                *)
THEOREM NoLineEndIsSkipped == Spec => []NothingSkipped
<1>1. Inv => NothingSkipped
  BY DEF Inv
<1> QED BY <1>1, Invariance, PTL

(* The counters agree with the parser's state.                             *)
THEOREM ParserIsConsistent == Spec => []StateIsConsistent
<1>1. Inv => StateIsConsistent
  BY DEF Inv
<1> QED BY <1>1, Invariance, PTL
=============================================================================
