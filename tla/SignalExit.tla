----------------------------- MODULE SignalExit -----------------------------
(***************************************************************************)
(* cleanup_exit of private/domapp/domapp.c, the handler of SIGHUP, SIGINT  *)
(* and SIGTERM, under the meaning signal() has on Linux and Cygwin: a      *)
(* signal is blocked while its own handler runs, other kinds interrupt the *)
(* handler between any two of its steps, and a signal that may be          *)
(* delivered is delivered before the program goes on.  main stands still   *)
(* as soon as the first handler runs and never goes on.                    *)
(***************************************************************************)
EXTENDS Integers, Sequences

CONSTANTS
  Signals   (* the signals cleanup_exit is installed for *)

VARIABLES
  disposition,               (* "cleanup_exit" or "SIG_DFL" for each       *)
  arrived,                   (* the kinds that other processes have sent   *)
  pending,                   (* the kinds sent or raised and not delivered *)
  frames,                    (* the runs of cleanup_exit, innermost first: *)
                             (* the signal and the step each is at         *)
  fatal_error_in_progress,
  log, files,                (* "open" or "closed": the log file; input    *)
                             (* and output                                 *)
  misused,                   (* whether the log was used after its fclose  *)
  death                      (* "none", the signal the process died of, or *)
                             (* "crash"                                    *)

signalVars ==
  <<disposition, arrived, pending, frames, fatal_error_in_progress, log, files,
    misused, death>>

Steps == {"test", "mark", "fprintf", "fclose", "close", "signal", "raise", "return"}

(* main, after its calls of signal(). *)
Init ==
  /\ disposition = [s \in Signals |-> "cleanup_exit"]
  /\ arrived = {} /\ pending = {}
  /\ frames = <<>>
  /\ fatal_error_in_progress = FALSE
  /\ log = "open" /\ files = "open"
  /\ misused = FALSE
  /\ death = "none"
-----------------------------------------------------------------------------
Blocked == {frames[i].sig : i \in DOMAIN frames}
Deliverable == pending \ Blocked

(* Somebody sends the signal; of one kind at most one is pending. *)
Arrive(s) ==
  /\ death = "none"
  /\ arrived' = arrived \cup {s}
  /\ pending' = pending \cup {s}
  /\ UNCHANGED <<disposition, frames, fatal_error_in_progress, log, files, misused, death>>

TakeSignal(s) ==
  /\ death = "none"
  /\ s \in Deliverable
  /\ pending' = pending \ {s}
  /\ IF disposition[s] = "SIG_DFL"
     THEN death' = s /\ UNCHANGED frames
     ELSE frames' = <<[sig |-> s, at |-> "test"]>> \o frames /\ UNCHANGED death
  /\ UNCHANGED <<disposition, arrived, fatal_error_in_progress, log, files, misused>>

(* The innermost run is at the step "from" and goes on to "to". *)
Step(from, to) ==
  /\ death = "none" /\ Deliverable = {}
  /\ frames # <<>> /\ frames[1].at = from
  /\ frames' = [frames EXCEPT ![1].at = to]

(* Bug: a run that finds another in progress leaves the cleanup to it. *)
TestSkips ==
  /\ Step("test", IF fatal_error_in_progress THEN "signal" ELSE "mark")
  /\ UNCHANGED <<disposition, arrived, pending, fatal_error_in_progress, log, files,
                 misused, death>>

(* if (fatal_error_in_progress) raise(sig): the signal is blocked, so that *)
(* raise only makes it pending and the run goes on.                        *)
Test ==
  /\ Step("test", "mark")
  /\ pending' = IF fatal_error_in_progress THEN pending \cup {frames[1].sig} ELSE pending
  /\ UNCHANGED <<disposition, arrived, fatal_error_in_progress, log, files, misused, death>>

Mark ==
  /\ Step("mark", "fprintf")
  /\ fatal_error_in_progress' = TRUE
  /\ UNCHANGED <<disposition, arrived, pending, log, files, misused, death>>

(* The log is used.  After its fclose that is undefined: nothing happens,  *)
(* or the process crashes.                                                 *)
UseLog ==
  IF log = "open" THEN UNCHANGED <<misused, death>>
                  ELSE misused' = TRUE /\ death' \in {"none", "crash"}

Fprintf ==
  /\ Step("fprintf", "fclose")
  /\ UseLog
  /\ UNCHANGED <<disposition, arrived, pending, fatal_error_in_progress, log, files>>

Fclose ==
  /\ Step("fclose", "close")
  /\ UseLog
  /\ log' = "closed"
  /\ UNCHANGED <<disposition, arrived, pending, fatal_error_in_progress, files>>

(* A second close of a descriptor fails without effect. *)
Close ==
  /\ Step("close", "signal")
  /\ files' = "closed"
  /\ UNCHANGED <<disposition, arrived, pending, fatal_error_in_progress, log, misused, death>>

(* Bug: the default action is not put back. *)
ResetForgotten ==
  /\ Step("signal", "raise")
  /\ UNCHANGED <<disposition, arrived, pending, fatal_error_in_progress, log, files,
                 misused, death>>

Reset ==
  /\ Step("signal", "raise")
  /\ disposition' = [disposition EXCEPT ![frames[1].sig] = "SIG_DFL"]
  /\ UNCHANGED <<arrived, pending, fatal_error_in_progress, log, files, misused, death>>

Raise ==
  /\ Step("raise", "return")
  /\ pending' = pending \cup {frames[1].sig}
  /\ UNCHANGED <<disposition, arrived, fatal_error_in_progress, log, files, misused, death>>

(* The run ends, and its signal is no longer blocked. *)
Return ==
  /\ death = "none" /\ Deliverable = {}
  /\ frames # <<>> /\ frames[1].at = "return"
  /\ frames' = Tail(frames)
  /\ UNCHANGED <<disposition, arrived, pending, fatal_error_in_progress, log, files,
                 misused, death>>

cleanup_exit == Test \/ Mark \/ Fprintf \/ Fclose \/ Close \/ Reset \/ Raise \/ Return

Handling == cleanup_exit \/ \E s \in Signals : TakeSignal(s)

Next == Handling \/ \E s \in Signals : Arrive(s)

Spec == Init /\ [][Next]_signalVars
-----------------------------------------------------------------------------
(* main installs the handler "so that socket is closed when domapp is      *)
(* killed", and it raises the signal again so that the process's status is *)
(* right: when the process dies of a signal, the log, the input and the    *)
(* output have been closed and the signal is one that was sent to it, also *)
(* when one run of cleanup_exit interrupts another at the worst moment.    *)
ClosedBeforeDeath ==
  death \notin {"none", "crash"} => log = "closed" /\ files = "closed" /\ death \in arrived

(* As long as only one kind of signal is sent, and however often it is,    *)
(* cleanup_exit runs once: the log is not used after its fclose.           *)
OneKindOneCleanup == misused => \E s, t \in arrived : s # t

(* domapp.c says of cleanup_exit that it "might still get invoked          *)
(* recursively by delivery of some other kind of signal" and that a static *)
(* variable keeps track of that: the log is closed once and not used       *)
(* afterwards.                                                             *)
LogClosedOnce == ~ misused

=============================================================================
