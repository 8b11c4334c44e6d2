------------------------------- MODULE Config -------------------------------
(***************************************************************************)
(* parse_args() (config.cpp): one step per option getopt_long() returns,   *)
(* then the positional arguments, the derived request limit and the        *)
(* verdict.                                                                *)
(*                                                                         *)
(* Data.  size_t has SizeMax values.  The text of an argument is the       *)
(* number it spells (negative ones included), NaN, Good or Bad for an      *)
(* address, or Junk.  The limits of the cases and the defaults are         *)
(* parameters, so that a small size_t can hold them.                       *)
(***************************************************************************)
EXTENDS Integers, Sequences, FiniteSets

CONSTANTS SizeMax,         \* 2^64
          Least, Most,     \* the range each option accepts
          Defaults,        \* the Config main() starts from
          CommandLines,    \* what the process may be started with
          Junk, NaN

(* Parsed straight into cfg and judged afterwards; parsed into a local and *)
(* stored when in range; floating point.                                   *)
Sized == {"workers", "max_queue", "max_connections", "max_request_line",
          "max_header", "max_body", "max_request", "max_output", "max_response"}
Checked == {"port", "backlog", "tick_ms"}
Seconds == {"idle_timeout", "shutdown_timeout"}
Numeric == Sized \cup Checked \cup Seconds
Texts == {"bind", "port_file"}

(* help, an option getopt_long() does not know, and a positional argument. *)
Other == {"verbose", "help", "unknown", "positional"}

InRange(o, v) == CASE o \in Sized   -> v >= Least[o]
                   [] o \in Checked -> Least[o] <= v /\ v <= Most[o]
                   [] OTHER         -> v = NaN \/ v >= 0

ASSUME ConfigAssumption ==
  /\ SizeMax \in Nat \ {0}
  /\ Least \in [Sized \cup Checked -> Nat] /\ Most \in [Checked -> Nat]
  /\ \A o \in Numeric : Defaults[o] \in Nat /\ InRange(o, Defaults[o])
  /\ \A o \in Sized : Defaults[o] < SizeMax
  /\ Defaults = [o \in Numeric \cup Texts |-> Defaults[o]]
  /\ NaN \notin Int /\ Junk \notin Int
  /\ \A a \in CommandLines : Len(a) \in Nat

VARIABLES argv, optind, cfg, failed, verdict

configVars == <<argv, optind, cfg, failed, verdict>>

Verdict == {"parsing", "help", "refused", "accepted"}

ConfigInit == /\ argv \in CommandLines /\ optind = 1
              /\ cfg = Defaults /\ failed = FALSE /\ verdict = "parsing"

-----------------------------------------------------------------------------
(* strtoull() accepts a sign, and negates within the type; what does not   *)
(* fit is ERANGE.  strtod() accepts nan.                                   *)
parse_size(t) == t \in Int /\ -SizeMax < t /\ t < SizeMax
size_value(t) == t % SizeMax

parse_double(t) == t \in Int \cup {NaN}

Parses(o, t) == IF o \in Seconds THEN parse_double(t) ELSE parse_size(t)
ValueOf(o, t) == IF o \in Seconds THEN t ELSE size_value(t)
Valid(o, t) == Parses(o, t) /\ InRange(o, ValueOf(o, t))

(* A value that is out of range is stored all the same, except for the     *)
(* options of Checked.                                                     *)
Stored(o, t) == IF o \in Checked THEN Valid(o, t) ELSE Parses(o, t)

(* Mutant: a later valid option makes up for an invalid one.               *)
NumericForgiving(o, t) ==
  /\ o \in Numeric
  /\ cfg' = IF Stored(o, t) THEN [cfg EXCEPT ![o] = ValueOf(o, t)] ELSE cfg
  /\ failed' = ~Valid(o, t)

NumericOption(o, t) ==
  /\ o \in Numeric
  /\ cfg' = IF Stored(o, t) THEN [cfg EXCEPT ![o] = ValueOf(o, t)] ELSE cfg
  /\ failed' = (failed \/ ~Valid(o, t))

TextOption(o, t) ==
  o \in Texts /\ cfg' = [cfg EXCEPT ![o] = t] /\ UNCHANGED failed

(* getopt_long() moves positional arguments behind the options.            *)
OtherOption(o) ==
  /\ o \in {"verbose", "unknown", "positional"}
  /\ failed' = (failed \/ o = "unknown")
  /\ UNCHANGED cfg

GetOption ==
  /\ verdict = "parsing" /\ optind <= Len(argv)
  /\ LET o == argv[optind].option
         t == argv[optind].text
     IN  NumericOption(o, t) \/ TextOption(o, t) \/ OtherOption(o)
  /\ optind' = optind + 1
  /\ UNCHANGED <<argv, verdict>>

(* -h returns at once, with success, whatever came before it.              *)
Help == /\ verdict = "parsing" /\ optind <= Len(argv)
        /\ argv[optind].option = "help"
        /\ verdict' = "help"
        /\ UNCHANGED <<argv, optind, cfg, failed>>

Positional == {i \in 1..Len(argv) : argv[i].option = "positional"}

(* Mutant: the body alone decides.                                         *)
RaisedToBody(c) ==
  IF c["max_request"] < c["max_body"] THEN c["max_body"] ELSE c["max_request"]

(* max_request_bytes, raised to what a maximal head and body need; the sum *)
(* is one of size_t.                                                       *)
Raised(c) ==
  LET need == (c["max_body"] + c["max_header"]) % SizeMax
  IN  IF c["max_request"] < need THEN need ELSE c["max_request"]

EndOfOptions ==
  /\ verdict = "parsing" /\ optind = Len(argv) + 1
  /\ failed' = (failed \/ Positional # {})
  /\ cfg' = [cfg EXCEPT !["max_request"] = Raised(cfg)]
  /\ verdict' = IF failed' THEN "refused" ELSE "accepted"
  /\ UNCHANGED <<argv, optind>>

parse_args == GetOption \/ Help \/ EndOfOptions

-----------------------------------------------------------------------------
(* A configuration the server runs with is within the limits of every      *)
(* option although parse_args() stores values before it judges them, and   *)
(* its request limit admits a maximal head and body unless their sum       *)
(* overflows size_t.                                                       *)
AcceptedConfigIsValid ==
  verdict = "accepted" =>
    /\ \A o \in Numeric : InRange(o, cfg[o])
    /\ LET need == cfg["max_body"] + cfg["max_header"]
       IN  need < SizeMax => cfg["max_request"] >= need

Given(o) == {i \in 1..Len(argv) : argv[i].option = o}
LastGiven(o) == argv[CHOOSE i \in Given(o) : \A j \in Given(o) : j <= i].text
Asked(o) == IF Given(o) = {} THEN Defaults[o] ELSE ValueOf(o, LastGiven(o))

(* What the user asked for is what they get, in whatever order they ask:   *)
(* an accepted command line has no argument at fault, every option has its *)
(* last value, and a request limit is raised whether it comes before or    *)
(* after the limits it has to cover.                                       *)
ConfigAsAsked ==
  verdict = "accepted" =>
    /\ \A i \in 1..Len(argv) :
         \/ argv[i].option \in Texts \cup {"verbose"}
         \/ argv[i].option \in Numeric /\ Valid(argv[i].option, argv[i].text)
    /\ \A o \in Numeric :
         IF o = "max_request"
         THEN cfg[o] = Raised([cfg EXCEPT ![o] = Asked(o)])
         ELSE cfg[o] = Asked(o)
=============================================================================
