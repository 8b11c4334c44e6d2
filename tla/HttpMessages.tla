---------------------------- MODULE HttpMessages ----------------------------
(***************************************************************************)
(* What HttpParser is for: messages, how a client writes them, and that    *)
(* the parser reads back what was written however the bytes are split.     *)
(***************************************************************************)
EXTENDS HttpParser, SequencesExt

(* A stream: messages, then bytes that are not a whole message, and what   *)
(* parse() ends with when it has seen everything.                          *)
CONSTANT Streams

(* chunks: the body, cut as it is sent; ext: the extension of every chunk; *)
(* keep_alive, expects: what the message asks of the server.               *)
Message == [minor : {0, 1}, fields : Seq(Seq(Byte)), chunked : BOOLEAN,
            chunks : Seq(Seq(Byte)), ext : Seq(Byte),
            trailers : Seq(Seq(Byte)), keep_alive : BOOLEAN, expects : BOOLEAN]

CRLF == <<"CR", "LF">>
Lines(ls) == FlattenSeq([i \in 1..Len(ls) |-> ls[i] \o CRLF])

Chunks(m) ==
  FlattenSeq([i \in 1..Len(m.chunks) |->
                <<Digit[Len(m.chunks[i]) + 1]>> \o m.ext \o CRLF
                  \o m.chunks[i] \o CRLF])

Encode(m) ==
  Lines(<<IF m.minor = 1 THEN <<"g">> ELSE <<"o">>>> \o m.fields) \o CRLF
    \o (IF m.chunked THEN Chunks(m) \o Lines(<<<<"0">>>> \o m.trailers) \o CRLF
        ELSE FlattenSeq(m.chunks))

Bytes(s) == FlattenSeq([i \in 1..Len(s.msgs) |-> Encode(s.msgs[i])]) \o s.tail

ASSUME StreamAssumption == Inputs = {Bytes(s) : s \in Streams}

VARIABLE sent   \* the stream that input is

MessageVars == <<vars, sent>>
MessageInit == sent \in Streams /\ input = Bytes(sent) /\ Init
MessageNext == Next /\ UNCHANGED sent
MessageSpec == /\ MessageInit /\ [][MessageNext]_MessageVars
               /\ WF_MessageVars(Step /\ UNCHANGED sent)

(* The request a message should become.  The code adds the trailers to the *)
(* headers.                                                                *)
AsRequest(m) ==
  [minor |-> m.minor, headers |-> m.fields \o m.trailers,
   keep_alive |-> m.keep_alive, body |-> FlattenSeq(m.chunks),
   header_bytes |-> Len(Lines(m.fields)) + 2 + Len(Lines(m.trailers)),
   total_bytes |-> Len(Encode(m))]

Requests == [i \in 1..Len(sent.msgs) |-> AsRequest(sent.msgs[i])]
Continues == SelectSeq([i \in 1..Len(sent.msgs) |-> i],
                       LAMBDA i : sent.msgs[i].expects)

(* The parser hands over exactly the messages that were sent, in order,    *)
(* byte for byte, and asks for "100 Continue" exactly where it should; a   *)
(* rejection comes only for the bytes that deserve it, and they get it;    *)
(* all that wherever the stream is cut into pieces.                        *)
RequestsAsSent ==
  /\ IsPrefix(requests, Requests) /\ IsPrefix(continues, Continues)
  /\ status \in Rejections \/ (status = "kNeedMore" /\ fed = Len(input)) =>
       /\ requests = Requests /\ continues = Continues
       /\ fed > 0 => status = sent.verdict

(* "accepts (then ignores) trailers" (README.md:181); "Trailers are        *)
(* validated like headers and then ignored" (http_parser.cpp:551).         *)
TrailersIgnored ==
  \A i \in 1..Len(requests) : requests[i].headers = sent.msgs[i].fields
=============================================================================
