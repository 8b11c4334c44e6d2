----------------------------- MODULE HttpParser -----------------------------
(***************************************************************************)
(* HttpRequestParser (http_parser.h, http_parser.cpp): the incremental     *)
(* request parser, fed by its caller in pieces of any size.  One step is   *)
(* one iteration of the loop in parse(); nothing is fed while it runs.     *)
(*                                                                         *)
(* Data.  A byte is CR, LF, or one that stands for what it tells the       *)
(* parser; every byte counts as one for the limits.                        *)
(*   g, o     begin a request line of HTTP/1.1, of HTTP/1.0                *)
(*   h        begins a header field without meaning to the parser          *)
(*   l, t, e  begin Content-Length (its digits follow), Transfer-Encoding, *)
(*            Expect; c, k: Connection: close, Connection: keep-alive.     *)
(*            Anything after t, e, c or k makes the value an unsupported   *)
(*            one.                                                         *)
(*   0 1 2 3  digits;  ";" begins a chunk extension;  x is anything else   *)
(***************************************************************************)
EXTENDS Naturals, Sequences, FiniteSets

CONSTANTS MaxLine,      \* limits_.max_request_line_bytes
          MaxHeader,    \* limits_.max_header_bytes
          MaxBody,      \* limits_.max_body_bytes
          MaxRequest,   \* limits_.max_request_bytes
          MaxFields,    \* limits_.max_header_fields
          MaxNumber,    \* 1ull << 52
          Inputs        \* the byte streams a client may send

Digit == <<"0", "1", "2", "3">>
Digits == {"0", "1", "2", "3"}
FieldNames == {"h", "l", "t", "e", "c", "k"}
Byte == {"CR", "LF", "g", "o", ";", "x"} \cup FieldNames \cup Digits

ASSUME ParserAssumption ==
  /\ MaxLine \in Nat /\ MaxHeader \in Nat /\ MaxBody \in Nat
  /\ MaxRequest \in Nat /\ MaxFields \in Nat /\ MaxNumber \in Nat
  /\ Inputs \subseteq Seq(Byte)

VARIABLES input,      \* the whole stream
          fed,        \* how much of it has been appended to buf
          buf,        \* the caller's ByteBuf: what is not consumed yet
          p,          \* the parser's members
          status,     \* what parse() returned last, or "parsing"
          requests,   \* the requests handed over so far
          continues   \* those for which kExpect100 was returned, by number

vars == <<input, fed, buf, p, status, requests, continues>>

State == {"kRequestLine", "kHeaders", "kBodyFixed", "kBodyChunked",
          "kChunkTrailer"}
Rejections == {"kBadRequest", "kTooLarge"}
Status == {"parsing", "kNeedMore", "kRequest", "kExpect100"} \cup Rejections

(* minor, headers and keep_alive are those of cur_.                        *)
Parser == [state : State, minor : {0, 1}, headers : Seq(Seq(Byte)),
           keep_alive : BOOLEAN, scan : Nat, consumed : Nat,
           header_bytes : Nat, body_remaining : Nat, chunk_remaining : Nat,
           expect_chunk_crlf : BOOLEAN, expect_sent : BOOLEAN,
           body : Seq(Byte)]

Request == [minor : {0, 1}, headers : Seq(Seq(Byte)), keep_alive : BOOLEAN,
            body : Seq(Byte), header_bytes : Nat, total_bytes : Nat]

TypeOK ==
  /\ input \in Seq(Byte) /\ fed \in 0..Len(input)
  /\ buf \in Seq(Byte) /\ p \in Parser /\ status \in Status
  /\ requests \in Seq(Request) /\ continues \in Seq(Nat)

reset == [state |-> "kRequestLine", minor |-> 1, headers |-> <<>>,
          keep_alive |-> TRUE, scan |-> 0, consumed |-> 0, header_bytes |-> 0,
          body_remaining |-> 0, chunk_remaining |-> 0,
          expect_chunk_crlf |-> FALSE, expect_sent |-> FALSE, body |-> <<>>]

Init == /\ input \in Inputs /\ fed = 0 /\ buf = <<>>
        /\ p = reset
        /\ status = "kNeedMore"
        /\ requests = <<>> /\ continues = <<>>

-----------------------------------------------------------------------------
(* What a line says                                                        *)

Clean(line) == \A i \in 1..Len(line) : line[i] # "CR"

(* The verdict on a line: "ok" or the rejection it leads to.               *)
parse_request_line(line) ==
  IF line # <<>> /\ line[1] \in {"g", "o"} /\ Clean(line)
  THEN "ok" ELSE "kBadRequest"

(* Mutant: one field too many.                                             *)
OneFieldMore(line, headers) ==
  IF line[1] \notin FieldNames \/ ~Clean(line) THEN "kBadRequest"
  ELSE IF Len(headers) > MaxFields THEN "kTooLarge"
  ELSE "ok"

parse_header_line(line, headers) ==
  IF line[1] \notin FieldNames \/ ~Clean(line) THEN "kBadRequest"
  ELSE IF Len(headers) >= MaxFields THEN "kTooLarge"
  ELSE "ok"

AllDigits(s) == \A i \in 1..Len(s) : s[i] \in Digits

Value(s, base) ==
  LET v[i \in 0..Len(s)] ==
        IF i = 0 THEN 0
        ELSE v[i - 1] * base + (CHOOSE d \in 0..3 : Digit[d + 1] = s[i])
  IN  v[Len(s)]

(* The part of s before the first element that is not in S.                *)
Leading(s, S) ==
  SubSeq(s, 1, Cardinality({n \in 1..Len(s) : \A i \in 1..n : s[i] \in S}))

(* http_common.cpp.  At most 19 digits, no leading zero; MaxNumber is      *)
(* checked after every digit, which amounts to checking the value.         *)
parse_content_length(s) ==
  /\ s # <<>> /\ Len(s) <= 19
  /\ Len(s) > 1 => s[1] # "0"
  /\ AllDigits(s)
  /\ Value(s, 10) \in 0..MaxNumber

Hex(line) == Leading(line, Byte \ {";"})

(* A number that is too large is reported before a later malformed digit.  *)
parse_chunk_size(line) ==
  LET hex == Hex(line)
  IN  IF hex = <<>> \/ Len(hex) > 16 THEN "kBadRequest"
      ELSE IF AllDigits(hex)
      THEN IF Value(hex, 16) \in 0..MaxNumber THEN "ok" ELSE "kTooLarge"
      ELSE IF Value(Leading(hex, Digits), 16) \in 0..MaxNumber
      THEN "kBadRequest" ELSE "kTooLarge"

Named(headers, name) == {i \in 1..Len(headers) : headers[i][1] = name}
The(headers, name) == headers[CHOOSE i \in Named(headers, name) : TRUE]
First(headers, name) ==
  headers[CHOOSE i \in Named(headers, name) :
            \A j \in Named(headers, name) : i <= j]

(* Content-Length of a head that finish_headers() finds well-formed.       *)
ContentLength(headers) ==
  IF Named(headers, "l") = {} THEN 0
  ELSE Value(Tail(The(headers, "l")), 10)

Chunked(headers) == Named(headers, "t") # {}

OptionsOK(headers) ==
  \A i \in Named(headers, "c") \cup Named(headers, "k") : Len(headers[i]) = 1

FramingOK(headers, minor) ==
  /\ Chunked(headers) => /\ minor = 1
                         /\ Cardinality(Named(headers, "t")) = 1
                         /\ The(headers, "t") = <<"t">>
                         /\ Named(headers, "l") = {}
  /\ Named(headers, "l") # {} =>
       /\ Cardinality(Named(headers, "l")) = 1
       /\ parse_content_length(Tail(The(headers, "l")))

KeepAlive(headers, minor) ==
  Named(headers, "c") = {} /\ (minor = 1 \/ Named(headers, "k") # {})

(* Whether finish_headers() gets as far as setting up the body.            *)
Accepted(headers, minor) ==
  /\ OptionsOK(headers) /\ FramingOK(headers, minor)
  /\ ContentLength(headers) <= MaxBody

(* finish_headers(): the verdict, or how the request goes on.              *)
finish_headers(headers, minor) ==
  IF ~OptionsOK(headers) \/ ~FramingOK(headers, minor) THEN "kBadRequest"
  ELSE IF ContentLength(headers) > MaxBody THEN "kTooLarge"
  ELSE IF ~Chunked(headers) /\ ContentLength(headers) = 0 THEN "kRequestReady"
  ELSE IF Named(headers, "e") = {} THEN "kBodyPending"
  ELSE IF First(headers, "e") # <<"e">> THEN "kBadRequest"
  ELSE IF minor = 1 THEN "kSend100"
  ELSE "kBodyPending"

-----------------------------------------------------------------------------
(* line_ready(): the search for CRLF resumes at scan.                      *)

(* Mutant: the search resumes one byte late.                               *)
FromNext == IF p.scan = 0 THEN 0
            ELSE IF p.scan + 1 < Len(buf) THEN p.scan + 1 ELSE Len(buf)

From == IF p.scan < Len(buf) THEN p.scan ELSE Len(buf)

FirstLF(i) == /\ i \in (From + 1)..Len(buf) /\ buf[i] = "LF"
              /\ \A j \in (From + 1)..(i - 1) : buf[j] # "LF"

NoLF == \A i \in (From + 1)..Len(buf) : buf[i] # "LF"
BareLF(i) == FirstLF(i) /\ (i > 1 => buf[i - 1] # "CR")

(* A line of n bytes without its CRLF.                                     *)
line_ready(n) == FirstLF(n + 2) /\ buf[n + 1] = "CR"

Line(n) == SubSeq(buf, 1, n)

(* Mutant: the cursor is not reset.                                        *)
ConsumedKeepingScan(q, n) == [q EXCEPT !.consumed = @ + n]

(* consume() n bytes, which parse() always follows by these two.           *)
Consumed(q, n) == [q EXCEPT !.consumed = @ + n, !.scan = 0]
Consume(n) == buf' = SubSeq(buf, n + 1, Len(buf))

In(state) == status = "parsing" /\ p.state = state

AtChunkCRLF == In("kBodyChunked") /\ p.expect_chunk_crlf
AtChunkData == In("kBodyChunked") /\ ~p.expect_chunk_crlf /\ p.chunk_remaining > 0
AtChunkSize == In("kBodyChunked") /\ ~p.expect_chunk_crlf /\ p.chunk_remaining = 0

AtLine == \/ In("kRequestLine") \/ In("kHeaders") \/ In("kChunkTrailer")
          \/ AtChunkCRLF \/ AtChunkSize

(* The limit on an incomplete line.                                        *)
TooLong == \/ (In("kRequestLine") \/ AtChunkSize) /\ Len(buf) > MaxLine
           \/ /\ In("kHeaders") \/ In("kChunkTrailer")
              /\ p.header_bytes + Len(buf) > MaxHeader

-----------------------------------------------------------------------------
(* parse()                                                                 *)

(* The caller appends n more bytes and calls; the cap on the request, with *)
(* whatever is buffered, stays the same for the whole call and is checked  *)
(* here.  After kExpect100 it calls again at once.                         *)
Call(n) ==
  /\ \/ status \in {"kNeedMore", "kRequest"}
     \/ status = "kExpect100" /\ n = 0
  /\ fed + n <= Len(input)
  /\ fed' = fed + n
  /\ buf' = buf \o SubSeq(input, fed + 1, fed + n)
  /\ status' = IF p.consumed + Len(buf) + n > MaxRequest THEN "kTooLarge"
               ELSE "parsing"
  /\ UNCHANGED <<input, p, requests, continues>>

(* No complete line in the buffer yet.                                     *)
Incomplete ==
  /\ AtLine /\ NoLF
  /\ p' = [p EXCEPT !.scan = Len(buf)]
  /\ status' = IF TooLong THEN "kTooLarge" ELSE "kNeedMore"
  /\ UNCHANGED <<input, fed, buf, requests, continues>>

RejectBareLF(i) ==
  /\ AtLine /\ BareLF(i)
  /\ p' = [p EXCEPT !.scan = i - 1]
  /\ status' = "kBadRequest"
  /\ UNCHANGED <<input, fed, buf, requests, continues>>

(* Mutant: parse() does not return to wait for more input.                 *)
ContinueAlways(verdict, q) ==
  /\ p' = q
  /\ status' = IF verdict \in Rejections THEN verdict ELSE "parsing"
  /\ UNCHANGED <<input, fed, requests, continues>>

(* Go on with q unless the line was rejected.                              *)
Continue(verdict, q) ==
  /\ p' = q
  /\ status' = IF verdict = "ok" THEN "parsing" ELSE verdict
  /\ UNCHANGED <<input, fed, requests, continues>>

RequestLine(n) ==
  /\ In("kRequestLine") /\ line_ready(n)
  /\ IF n > MaxLine
     THEN UNCHANGED buf /\ Continue("kTooLarge", [p EXCEPT !.scan = n + 2])
     ELSE LET verdict == parse_request_line(Line(n))
              q == Consumed(p, n + 2)
          IN  /\ Consume(n + 2)
              /\ Continue(verdict,
                   IF verdict # "ok" THEN q
                   ELSE [q EXCEPT !.state = "kHeaders",
                                  !.minor = IF buf[1] = "g" THEN 1 ELSE 0])

(* A header or trailer field: both go through parse_header_line() into     *)
(* cur_.                                                                   *)
FieldLine(n) ==
  /\ In("kHeaders") \/ In("kChunkTrailer")
  /\ n > 0 /\ line_ready(n)
  /\ LET verdict == parse_header_line(Line(n), p.headers)
         size == p.header_bytes + n + 2
         q == [Consumed(p, n + 2) EXCEPT !.header_bytes = size]
     IN  /\ Consume(n + 2)
         /\ IF verdict # "ok" THEN Continue(verdict, q)
            ELSE Continue(IF size > MaxHeader THEN "kTooLarge" ELSE "ok",
                          [q EXCEPT !.headers = Append(@, Line(n))])

(* Mutant: reset() forgets header_bytes_.                                  *)
EmitKeepingCount(q) ==
  /\ requests' = Append(requests,
       [minor |-> q.minor, headers |-> q.headers, keep_alive |-> q.keep_alive,
        body |-> q.body, header_bytes |-> q.header_bytes,
        total_bytes |-> q.consumed])
  /\ p' = [reset EXCEPT !.header_bytes = q.header_bytes]
  /\ status' = "kRequest"
  /\ UNCHANGED <<input, fed, continues>>

(* emit_request() of the request q describes.                              *)
Emit(q) ==
  /\ requests' = Append(requests,
       [minor |-> q.minor, headers |-> q.headers, keep_alive |-> q.keep_alive,
        body |-> q.body, header_bytes |-> q.header_bytes,
        total_bytes |-> q.consumed])
  /\ p' = reset
  /\ status' = "kRequest"
  /\ UNCHANGED <<input, fed, continues>>

EndOfHeaders ==
  /\ In("kHeaders") /\ line_ready(0)
  /\ Consume(2)
  /\ LET outcome == finish_headers(p.headers, p.minor)
         q == [Consumed(p, 2) EXCEPT !.header_bytes = @ + 2,
                 !.keep_alive = IF OptionsOK(p.headers)
                                THEN KeepAlive(p.headers, p.minor) ELSE @]
         framed == IF Chunked(p.headers) THEN [q EXCEPT !.state = "kBodyChunked"]
                   ELSE [q EXCEPT !.state = "kBodyFixed",
                                  !.body_remaining = ContentLength(p.headers)]
     IN  CASE outcome \in Rejections ->
                Continue(outcome, IF Accepted(p.headers, p.minor) THEN framed
                                  ELSE q)
           [] outcome = "kRequestReady" -> Emit(q)
           [] outcome = "kBodyPending" -> Continue("ok", framed)
           [] outcome = "kSend100" ->
                /\ p' = [framed EXCEPT !.expect_sent = TRUE]
                /\ status' = "kExpect100"
                /\ continues' = Append(continues, Len(requests) + 1)
                /\ UNCHANGED <<input, fed, requests>>

(* Mutant: everything in the buffer belongs to the body.                   *)
AllBuffered(wanted) == Len(buf)

(* As much as there is of what is wanted.                                  *)
Available(wanted) == IF wanted < Len(buf) THEN wanted ELSE Len(buf)

BodyFixed ==
  /\ In("kBodyFixed")
  /\ LET take == Available(p.body_remaining)
         q == [Consumed(p, take) EXCEPT !.body = @ \o Line(take),
                                        !.body_remaining = @ - take]
     IN  /\ Consume(take)
         /\ IF q.body_remaining = 0 THEN Emit(q) ELSE Continue("kNeedMore", q)

ChunkSizeLine(n) ==
  /\ AtChunkSize /\ line_ready(n)
  /\ Consume(n + 2)
  /\ LET verdict == parse_chunk_size(Line(n))
         size == Value(Hex(Line(n)), 16)
         q == Consumed(p, n + 2)
     IN  IF verdict # "ok" THEN Continue(verdict, q)
         ELSE IF size = 0 THEN Continue("ok", [q EXCEPT !.state = "kChunkTrailer"])
         ELSE IF Len(p.body) + size > MaxBody THEN Continue("kTooLarge", q)
         ELSE Continue("ok", [q EXCEPT !.chunk_remaining = size])

ChunkData ==
  /\ AtChunkData
  /\ LET take == Available(p.chunk_remaining)
         q == [Consumed(p, take) EXCEPT !.body = @ \o Line(take),
                                        !.chunk_remaining = @ - take,
                                        !.expect_chunk_crlf =
                                            (take = p.chunk_remaining)]
     IN  IF take = 0 THEN UNCHANGED buf /\ Continue("kNeedMore", p)
         ELSE IF Len(p.body) + take > MaxBody
         THEN UNCHANGED buf /\ Continue("kTooLarge", p)
         ELSE Consume(take) /\ Continue("ok", q)

ChunkCRLF(n) ==
  /\ AtChunkCRLF /\ line_ready(n)
  /\ IF n # 0
     THEN UNCHANGED buf /\ Continue("kBadRequest", [p EXCEPT !.scan = n + 2])
     ELSE /\ Consume(2)
          /\ Continue("ok", [Consumed(p, 2) EXCEPT !.expect_chunk_crlf = FALSE])

EndOfTrailers ==
  /\ In("kChunkTrailer") /\ line_ready(0)
  /\ Consume(2)
  /\ Emit(Consumed(p, 2))

Step == \/ Incomplete
        \/ \E i \in 1..Len(buf) : RejectBareLF(i)
        \/ \E n \in 0..Len(buf) : \/ RequestLine(n) \/ FieldLine(n)
                                  \/ ChunkSizeLine(n) \/ ChunkCRLF(n)
        \/ EndOfHeaders \/ BodyFixed \/ ChunkData \/ EndOfTrailers

Next == \/ Step
        \/ \E n \in 0..(Len(input) - fed) : Call(n)
        \/ status \in Rejections /\ UNCHANGED vars   \* the caller closes

Spec == Init /\ [][Next]_vars

(* parse() is running code: it is never suspended.                         *)
FairSpec == Spec /\ WF_vars(Step)

-----------------------------------------------------------------------------
(* What a client can make the parser hold is bounded while a request is    *)
(* being parsed, not only once it is complete: the body with what has been *)
(* announced of it, the fields (trailers included), the head, and the      *)
(* request as a whole with what is buffered.                               *)
LimitsHold ==
  /\ Len(p.body) + p.body_remaining + p.chunk_remaining <= MaxBody
  /\ Len(p.headers) <= MaxFields
  /\ status \notin Rejections => /\ p.header_bytes <= MaxHeader + 2
                                /\ p.consumed + Len(buf) <= MaxRequest

(* The cursor at which the search for a line end resumes has passed no LF: *)
(* none is skipped however states, consumption and new input alternate.    *)
NothingSkipped ==
  status \notin Rejections =>
    p.scan <= Len(buf) /\ \A i \in 1..p.scan : buf[i] # "LF"

(* The parser's counters agree with where it is in a request, also in the  *)
(* second and later requests: reset() leaves nothing behind, and only the  *)
(* framing in use counts.  LimitsHold is not inductive without this.       *)
StateIsConsistent ==
  /\ p.state \in {"kRequestLine", "kHeaders"} => p.body = <<>>
  /\ p.state # "kBodyFixed" => p.body_remaining = 0
  /\ p.state # "kBodyChunked" => p.chunk_remaining = 0 /\ ~p.expect_chunk_crlf
  /\ p.expect_chunk_crlf => p.chunk_remaining = 0
  /\ p.state = "kRequestLine" => p.headers = <<>> /\ p.header_bytes = 0
  /\ p.state = "kHeaders" /\ status \notin Rejections => p.header_bytes <= MaxHeader

(* Every call of parse() returns.                                          *)
ParseReturns == status = "parsing" ~> status # "parsing"
=============================================================================
