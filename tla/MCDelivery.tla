----------------------------- MODULE MCDelivery -----------------------------
(***************************************************************************)
(* Delivery for TLC: a size_t of 16 values, limits and defaults in         *)
(* proportion, command lines of up to three options, and short scripts.    *)
(***************************************************************************)
EXTENDS Delivery

MCLeast == [o \in Sized \cup Checked |->
              CASE o \in {"max_header", "max_output"}       -> 2
                [] o \in {"max_body", "max_request", "port"} -> 0
                [] OTHER                                     -> 1]
MCMost == [o \in Checked |-> 7]

MCDefaults == [o \in Numeric \cup Texts |->
                 CASE o \in {"max_body", "max_output"} -> 3
                   [] o = "max_request"                -> 4
                   [] o = "bind"                       -> Good
                   [] o = "port_file"                  -> ""
                   [] OTHER                            -> 2]

Arg(o, t) == [option |-> o, text |-> t]

(* Every kind of option with every kind of text, in pairs; and the three   *)
(* limits that depend on each other, in every order.                       *)
NumericArgs == {Arg(o, t) : o \in {"workers", "max_body", "port", "idle_timeout"},
                            t \in {-15, 0, 8, 16, NaN, Junk}}
OtherArgs == {Arg("bind", Good), Arg("bind", Bad), Arg("port_file", Good)}
               \cup {Arg(o, "") : o \in Other}
Args == NumericArgs \cup OtherArgs
Limits == {Arg(o, t) : o \in {"max_body", "max_header", "max_request"},
                       t \in {2, 6, 9}}
Odd == UNION {[1..n -> Args] : n \in 0..2} \cup [1..3 -> Limits]

(* The servers that get requests: one whose connections may time out, one  *)
(* with a small output buffer, and one that takes no body.                 *)
TimingOut == <<Arg("idle_timeout", NaN)>>
SmallOutput == <<Arg("idle_timeout", 0), Arg("max_output", 2)>>
NoBody == <<Arg("idle_timeout", 0), Arg("max_body", 0)>>

MCCommandLines == Odd \cup {TimingOut, SmallOutput, NoBody}

Req(method, path, minor, keep_alive, body) ==
  [req |-> [method |-> method, path |-> path, n |-> body, minor |-> minor,
            keep_alive |-> keep_alive, body |-> IF path = "/big" THEN 0 ELSE body],
   expect |-> FALSE, fault |-> "none"]

Messages == {
  Req("Get", "/", 1, TRUE, 0), Req("Get", "/", 0, TRUE, 0),
  Req("Head", "/", 1, TRUE, 0), Req("Head", "other", 1, FALSE, 0),
  Req("Get", "/big", 1, TRUE, 9), Req("Get", "/close", 1, TRUE, 0),
  Req("Options", "*", 1, TRUE, 0), Req("Get", "*", 0, FALSE, 0),
  Req("Unknown", "other", 1, TRUE, 1), Req("Post", "/upload", 1, TRUE, 4),
  [Req("Post", "/echo", 1, TRUE, 2) EXCEPT !.expect = TRUE],
  [Req("Post", "/echo", 1, TRUE, 2) EXCEPT !.expect = TRUE, !.fault = "body"],
  [Req("Get", "/boom", 1, TRUE, 0) EXCEPT !.fault = "head"]}

(* What may follow a message, to see in what state it left the connection. *)
Probes == {Req("Get", "/", 1, TRUE, 0), Req("Head", "/", 1, TRUE, 0),
           [Req("Post", "/echo", 1, TRUE, 2) EXCEPT !.expect = TRUE],
           [Req("Get", "/boom", 1, TRUE, 0) EXCEPT !.fault = "head"]}

(* Answers as large as they get, one after the other.                      *)
Large == {Req("Get", "/big", 1, TRUE, 9), Req("Head", "/big", 1, TRUE, 9),
          [Req("Post", "/echo", 1, TRUE, 3) EXCEPT !.expect = TRUE]}

MCScripts(line) ==
  CASE line = TimingOut   -> {<<m, p>> : m \in Messages, p \in Probes}
    [] line = SmallOutput -> {<<m, p>> : m \in Messages, p \in Probes}
                               \cup [1..3 -> Large]
    [] line = NoBody      -> {<<m>> : m \in Messages}
    [] OTHER              -> {<<>>}
=============================================================================
