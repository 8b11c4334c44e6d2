---------------------------- MODULE MCEventLoop -----------------------------
(* Small instances of EventLoop.                                           *)
EXTENDS EventLoop, TLC

CONSTANTS c1, c2, f1, f2, w1, w2

OneClient == {c1}
TwoClients == {c1, c2}
OneFd == {f1}
TwoFds == {f1, f2}
OneWorker == {w1}
TwoWorkers == {w1, w2}

None == {}
Losses == {"fin", "hup", "reset", "modin", "accept"}
Leaves == {"fin", "reset"}
AcceptFaults == {"reset", "aborted", "enfile", "add", "mod", "wait"}
Resets == {"reset"}
HalfCloses == {"fin"}

(* Every way a client's input can go: pipelined, interrupted, refused,     *)
(* closing, with 100-continue, and over the limit of three segments.       *)
Dialogues == {<<"get", "get", "get">>, <<"get", "last", "get">>,
              <<"head", "part", "get">>, <<"part", "expect", "last">>,
              <<"get", "expect", "get", "get">>, <<"head", "bad">>,
              <<"huge">>, <<"part", "part", "part", "get">>}
Get == {<<"get">>}
Closings == {<<"get", "last">>, <<"get", "get">>, <<"part">>}
GetGet == {<<"get", "get">>}
=============================================================================
