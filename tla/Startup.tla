------------------------------- MODULE Startup ------------------------------
(***************************************************************************)
(* main() (main.cpp) and EventLoop::run() (event_loop.cpp) up to the loop: *)
(* the signal mask, parse_args(), the set-up of epoll, eventfd, signalfd   *)
(* and listener, and the port file other processes learn the port from.    *)
(* Any system call may fail, and the machine may stop at any moment.       *)
(***************************************************************************)
EXTENDS Config

CONSTANTS Good, Bad   \* bind addresses inet_pton() understands, and does not

VARIABLES stage,      \* where main() is
          call,       \* the next of SetupCalls
          listening,  \* a client that connects gets into the backlog
          port_file,  \* what the port file holds
          tmp,        \* what its ".tmp" holds
          synced,     \* whether that has reached the disk
          exit_code   \* of the process, once it has exited

startupVars == <<stage, call, listening, port_file, tmp, synced, exit_code>>

Stage == {"main", "args", "setup", "open", "write", "fsync", "rename",
          "serving", "exited"}

(* What a file can hold: what an earlier process left there, if anything;  *)
(* an empty or a truncated text; and this process's port.                  *)
Content == {"other", "empty", "partial", "ours"}

(* getsockname() on a bound socket and setsockopt() stop nothing.          *)
SetupCalls == <<"threads", "epoll_create1", "eventfd", "add wake", "signalfd",
                "add signal", "socket", "inet_pton", "bind", "listen", "add listener">>

StartupInit ==
  /\ ConfigInit
  /\ stage = "main" /\ call = 1 /\ listening = FALSE
  /\ port_file = "other" /\ tmp = "other" /\ synced = "no"
  /\ exit_code = 0

(* The descriptors are closed, by their owners or by the kernel.           *)
Exit(code) == /\ stage' = "exited"
              /\ exit_code' = code
              /\ listening' = FALSE
              /\ UNCHANGED <<call, port_file, tmp, synced>>

Enter(next) == /\ stage' = next
               /\ UNCHANGED <<call, listening, port_file, tmp, synced, exit_code>>

(* SIGPIPE is ignored, and SIGINT and SIGTERM blocked before any thread.   *)
PrepareSignals == /\ stage = "main"
                  /\ Enter("args") \/ Exit(1)
                  /\ UNCHANGED configVars

ParseArguments == /\ stage = "args"
                  /\ parse_args
                  /\ UNCHANGED startupVars

ArgumentsParsed ==
  /\ stage = "args"
  /\ \/ verdict = "accepted" /\ Enter("setup")
     \/ verdict = "help" /\ Exit(0)
     \/ verdict = "refused" /\ Exit(2)
  /\ UNCHANGED configVars

(* inet_pton() fails for an address it does not understand, and only then. *)
Fails(name) == name # "inet_pton" \/ cfg["bind"] = Bad
Succeeds(name) == name = "inet_pton" => cfg["bind"] # Bad

AfterSetup == IF cfg["port_file"] = "" THEN "serving" ELSE "open"

Setup ==
  /\ stage = "setup"
  /\ LET name == SetupCalls[call]
     IN  \/ Fails(name) /\ Exit(1)
         \/ /\ Succeeds(name)
            /\ call' = call + 1
            /\ listening' = (listening \/ name = "listen")
            /\ stage' = IF call = Len(SetupCalls) THEN AfterSetup ELSE stage
            /\ UNCHANGED <<port_file, tmp, synced, exit_code>>
  /\ UNCHANGED configVars

-----------------------------------------------------------------------------
(* write_port_file(): on any failure the server goes on without it.        *)

OpenPortFile ==
  /\ stage = "open"
  /\ \/ Enter("serving")
     \/ /\ tmp' = "empty" /\ stage' = "write"
        /\ UNCHANGED <<call, listening, port_file, synced, exit_code>>
  /\ UNCHANGED configVars

WritePortFile ==
  /\ stage = "write"
  /\ tmp' \in {"empty", "partial", "ours"}
  /\ stage' = "fsync"
  /\ UNCHANGED <<configVars, call, listening, port_file, synced, exit_code>>

(* Mutant: the text is not waited for.                                     *)
SyncMissing ==
  /\ stage = "fsync"
  /\ stage' = IF tmp = "ours" THEN "rename" ELSE "serving"
  /\ UNCHANGED <<configVars, call, listening, port_file, tmp, synced, exit_code>>

(* fsync(), whose result is not looked at, close(), and only then the look *)
(* at what write() returned.                                               *)
SyncPortFile ==
  /\ stage = "fsync"
  /\ synced' \in {"yes", "failed"}
  /\ stage' = IF tmp = "ours" THEN "rename" ELSE "serving"
  /\ UNCHANGED <<configVars, call, listening, port_file, tmp, exit_code>>

RenamePortFile ==
  /\ stage = "rename"
  /\ \/ Enter("serving")
     \/ /\ port_file' = tmp /\ tmp' = "other" /\ stage' = "serving"
        /\ UNCHANGED <<call, listening, synced, exit_code>>
  /\ UNCHANGED configVars

(* A power failure: what has not reached the disk may be gone.             *)
PowerFailure ==
  /\ stage # "exited"
  /\ stage' = "exited" /\ exit_code' = 1 /\ listening' = FALSE
  /\ port_file' \in {port_file} \cup (IF port_file = "ours" /\ synced # "yes"
                                     THEN {"empty"} ELSE {})
  /\ UNCHANGED <<configVars, call, tmp, synced>>

StartupStep == PrepareSignals \/ ParseArguments \/ ArgumentsParsed \/ Setup
                 \/ OpenPortFile \/ WritePortFile \/ SyncPortFile
                 \/ RenamePortFile \/ PowerFailure

StartupSpec == StartupInit /\ [][StartupStep]_<<configVars, startupVars>>

-----------------------------------------------------------------------------
(* Whoever finds a port file finds a whole port, and this process's port   *)
(* only while, or after, a client could connect to it: however writes fall *)
(* short, calls fail, and whenever the machine stops.  The one exception   *)
(* is an fsync() that failed.                                              *)
PortFileIsWhole ==
  /\ port_file \in {"other", "ours"} \/ synced = "failed"
  /\ port_file = "ours" /\ stage # "exited" => listening
=============================================================================
