---------------------------- MODULE MCHttpParser ----------------------------
(* Messages and broken messages around every limit of a small parser.      *)
EXTENDS HttpMessages, TLC

Plain(minor, fields, keep_alive) ==
  [minor |-> minor, fields |-> fields, chunked |-> FALSE, chunks |-> <<>>,
   ext |-> <<>>, trailers |-> <<>>, keep_alive |-> keep_alive,
   expects |-> FALSE]

WithBody(m, body, expects) == [m EXCEPT !.chunks = <<body>>, !.expects = expects]

InChunks(fields, chunks, ext, trailers, expects) ==
  [Plain(1, fields, TRUE) EXCEPT !.chunked = TRUE, !.chunks = chunks,
     !.ext = ext, !.trailers = trailers, !.expects = expects]

Leads ==
  {WithBody(Plain(1, <<<<"l", "3">>>>, TRUE), <<"CR", "LF", "g">>, FALSE),
   InChunks(<<<<"t">>>>, <<<<"CR", "LF", "0">>>>, <<";">>, <<<<"h">>>>, FALSE)}

Messages == Leads \cup
  {Plain(1, <<>>, TRUE), Plain(1, <<<<"h", "x">>, <<"c">>>>, FALSE),
   Plain(1, <<<<"l", "0">>>>, TRUE),
   Plain(0, <<>>, FALSE), Plain(0, <<<<"k">>>>, TRUE),
   WithBody(Plain(1, <<<<"e">>, <<"l", "2">>>>, TRUE), <<"LF", "x">>, TRUE),
   WithBody(Plain(0, <<<<"l", "1">>, <<"e">>>>, FALSE), <<"x">>, FALSE),
   InChunks(<<<<"t">>>>, <<<<"0">>, <<"CR", "LF">>>>, <<>>, <<>>, FALSE),
   InChunks(<<<<"e">>, <<"t">>>>, <<>>, <<>>, <<>>, TRUE)}

HeadOf(fields) == Lines(<<<<"g">>>> \o fields) \o CRLF

Partial == {<<>>, <<"g">>, <<"g", "CR">>, Lines(<<<<"g">>, <<"h">>>>),
            HeadOf(<<<<"t">>>>) \o <<"1", "CR", "LF", "x", "CR">>}

Malformed ==
  {<<"LF">>, CRLF, Lines(<<<<"x">>>>), Lines(<<<<"g", "CR">>>>), <<"g", "LF">>,
   Lines(<<<<"g">>, <<"x">>>>), Lines(<<<<"g">>, <<"h", "CR">>>>),
   HeadOf(<<<<"l", "1">>, <<"l", "1">>>>), HeadOf(<<<<"t">>, <<"t">>>>),
   HeadOf(<<<<"t">>, <<"l", "1">>>>), HeadOf(<<<<"t", "x">>>>),
   HeadOf(<<<<"l", "0", "1">>>>), HeadOf(<<<<"l", "1", "0", "0">>>>),
   HeadOf(<<<<"l">>>>), HeadOf(<<<<"c", "x">>>>),
   HeadOf(<<<<"e", "x">>, <<"l", "1">>>>),
   Lines(<<<<"o">>, <<"t">>>>) \o CRLF,
   HeadOf(<<<<"t">>>>) \o CRLF, HeadOf(<<<<"t">>>>) \o <<"x", "CR", "LF">>,
   HeadOf(<<<<"t">>>>) \o <<"1", "x", "CR", "LF">>,
   HeadOf(<<<<"t">>>>) \o Lines(<<<<"1">>, <<"x", "x">>>>),
   HeadOf(<<<<"t">>>>) \o Lines(<<<<"0">>, <<"x">>>>)}

Oversized ==
  {Lines(<<<<"g", "x", "x", "x">>>>), <<"g", "x", "x", "x">>,
   Lines(<<<<"g">>, <<"h", "x", "x", "x", "x", "x", "x", "x">>>>),
   Lines(<<<<"g">>, <<"h">>, <<"h">>, <<"h">>>>), HeadOf(<<<<"l", "1", "0">>>>),
   HeadOf(<<<<"t">>>>) \o Lines(<<<<"1", "0">>>>),
   HeadOf(<<<<"t">>>>) \o Lines(<<<<"3", "3", "x">>>>),
   HeadOf(<<<<"t">>>>) \o Lines(<<<<"3">>, <<"x", "x", "x">>, <<"1">>>>),
   HeadOf(<<<<"t">>>>) \o Lines(<<<<"0">>, <<"h">>, <<"h">>>>)}

(* A body within its limit in chunks with long extensions: more than       *)
(* MaxRequest in all.                                                      *)
Extended == <<"1", ";">> \o [i \in 1..16 |-> "x"]
OverCap == HeadOf(<<<<"t">>>>)
             \o Lines(<<Extended, <<"x">>, Extended, <<"x">>, Extended>>)

Ends == [tail : Partial, verdict : {"kNeedMore"}]
          \cup [tail : Malformed, verdict : {"kBadRequest"}]
          \cup [tail : Oversized, verdict : {"kTooLarge"}]

Stream(msgs, end) == [msgs |-> msgs, tail |-> end.tail, verdict |-> end.verdict]
Nothing == [tail |-> <<>>, verdict |-> "kNeedMore"]

AllStreams ==
  {Stream(<<>>, end) : end \in Ends}
    \cup {Stream(<<>>, [tail |-> OverCap, verdict |-> "kTooLarge"])}
    \cup {Stream(<<m>>, end) : m \in Leads, end \in Ends}
    \cup {Stream(<<m, n>>, Nothing) : m \in Messages, n \in Messages}
AllInputs == {Bytes(s) : s \in AllStreams}

WithTrailers == {Stream(<<m>>, Nothing) : m \in Messages}
TrailerInputs == {Bytes(s) : s \in WithTrailers}
=============================================================================
