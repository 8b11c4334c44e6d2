------------------------------ MODULE Handler -------------------------------
(***************************************************************************)
(* What becomes of a parsed request: the routes of handler.cpp, the job    *)
(* Connection::submit() wraps around them, and serialize_response() and    *)
(* make_error_response() of http_common.cpp.                               *)
(*                                                                         *)
(* Data.  A body is its length; every fixed text has length Text.  A head  *)
(* is one unit on the wire, a record of what decides how the client reads  *)
(* on.  /big and /slow carry their number n (without one they are "other"). *)
(***************************************************************************)
EXTENDS Naturals, Sequences

CONSTANTS NumberCap   \* 1ull << 40, where extract_number() stops counting

ASSUME HandlerAssumption == NumberCap \in Nat

Method == {"Get", "Head", "Post", "Options", "Unknown"}
Path == {"*", "/", "/index.html", "/health", "/info", "/echo", "/boom", "/close",
         "/big", "/slow", "/upload", "other"}

Request == [method : Method, path : Path, n : Nat, minor : {0, 1},
            keep_alive : BOOLEAN, body : Nat]

Text == 1
Least2(a, b) == IF a < b THEN a ELSE b

is_head(req) == req.method = "Head"

(* Response{}, with the defaults common.h gives its members.               *)
Plain(status, body) ==
  [status |-> status, minor |-> 1, keep_alive |-> TRUE, close_after |-> FALSE,
   send_body |-> TRUE, no_body_framing |-> FALSE, body |-> body]

make_error_response(status, keep_alive) ==
  LET bare == status \in {"204", "304"}
  IN  [Plain(status, IF bare THEN 0 ELSE Text)
         EXCEPT !.keep_alive = keep_alive, !.send_body = ~bare,
                !.no_body_framing = bare]

text_response(req, body) ==
  [Plain("200", body) EXCEPT !.minor = req.minor, !.keep_alive = req.keep_alive,
                             !.send_body = ~is_head(req)]

error_response(req, status) ==
  [make_error_response(status, req.keep_alive)
     EXCEPT !.minor = req.minor, !.send_body = @ /\ ~is_head(req)]

(* Mutant: the 204 is framed like any other response.                      *)
OptionsWithLength(req) ==
  [Plain("204", Text) EXCEPT !.keep_alive = req.keep_alive, !.minor = req.minor]

options_response(req) ==
  [Plain("204", 0) EXCEPT !.no_body_framing = TRUE, !.send_body = FALSE,
                          !.keep_alive = req.keep_alive, !.minor = req.minor]

extract_number(req) == Least2(req.n, NumberCap)

(* Mutant: /close closes without telling the client.                       *)
CloseUnannounced(req) == [text_response(req, Text) EXCEPT !.close_after = TRUE]

closing_response(req) == [text_response(req, Text) EXCEPT !.close_after = TRUE,
                                                          !.keep_alive = FALSE]

handle_get_head(req, max_response) ==
  CASE req.path \in {"/", "/index.html", "/health", "/info", "/slow"}
                             -> text_response(req, Text)
    [] req.path = "/echo"    -> text_response(req, req.body)
    [] req.path = "/boom"    -> error_response(req, "500")
    [] req.path = "/close"   -> closing_response(req)
    [] req.path = "/big"     -> text_response(req, Least2(extract_number(req),
                                                          max_response))
    [] OTHER                 -> error_response(req, "404")

handle_post(req) ==
  CASE req.path \in {"/", "/health", "/info", "/slow", "/upload"}
                             -> text_response(req, Text)
    [] req.path = "/echo"    -> text_response(req, req.body)
    [] req.path = "/boom"    -> error_response(req, "500")
    [] OTHER                 -> error_response(req, "404")

handle_request(req, max_response) ==
  IF req.method = "Options" THEN options_response(req)
  ELSE IF req.path = "*" THEN error_response(req, "400")
  ELSE CASE req.method \in {"Get", "Head"} -> handle_get_head(req, max_response)
         [] req.method = "Post"            -> handle_post(req)
         [] req.method = "Unknown"         -> error_response(req, "405")

(* The job: an exception is a 500, and what the request asked for is       *)
(* enforced whatever the handler said.                                     *)
Answer(req, max_response, threw) ==
  LET res == IF threw THEN make_error_response("500", req.keep_alive)
             ELSE handle_request(req, max_response)
  IN  [res EXCEPT !.minor = req.minor, !.send_body = @ /\ ~is_head(req),
                  !.keep_alive = @ /\ req.keep_alive]

-----------------------------------------------------------------------------
(* On the wire: heads and single body bytes.  length is <<>> when there is *)
(* no Content-Length.                                                      *)
MessageHead(status, minor, length, connection) ==
  [kind |-> "head", status |-> status, minor |-> minor, length |-> length,
   connection |-> connection]
BodyByte == [kind |-> "body"]

(* Mutant: for a suppressed body the length is what is sent, 0.            *)
SerializeSentLength(res) ==
  <<MessageHead(res.status, res.minor,
                IF res.no_body_framing THEN <<>>
                ELSE <<IF res.send_body THEN res.body ELSE 0>>,
                IF ~res.keep_alive THEN "close"
                ELSE IF res.minor = 0 THEN "keep-alive" ELSE "")>>
    \o [i \in 1..(IF res.send_body THEN res.body ELSE 0) |-> BodyByte]

serialize_response(res) ==
  <<MessageHead(res.status, res.minor,
                IF res.no_body_framing THEN <<>> ELSE <<res.body>>,
                IF ~res.keep_alive THEN "close"
                ELSE IF res.minor = 0 THEN "keep-alive" ELSE "")>>
    \o [i \in 1..(IF res.send_body THEN res.body ELSE 0) |-> BodyByte]

kContinue == <<MessageHead("100", 1, <<>>, "")>>
=============================================================================
