----------------------------- MODULE MCLifecycle -----------------------------
(* Model checking of Lifecycle, and of the log that its commands and       *)
(* threads use.  Neither depends on the state of the other: the log is     *)
(* explored while the webserver waits for its first client and command,    *)
(* and Lifecycle with the log as main() has set it.                        *)
EXTENDS Lifecycle, Log

MCInit == Init /\ LogInit

Waiting ==
  /\ Serving
  /\ client = [c \in Clients |-> "away"] /\ errors = 0
  /\ command = [i \in IoThreads |-> "none"] /\ ~thr_

MCNext ==
  \/ commands = 0 /\ ~undefined /\ Next /\ UNCHANGED logVars
  \/ Waiting /\ LogNext /\ UNCHANGED vars
  \/ undefined /\ UNCHANGED <<vars, logVars>>

MCSpec == MCInit /\ [][MCNext]_<<vars, logVars>> /\ Fairness
=============================================================================
