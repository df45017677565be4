------------------------------ MODULE SimClock ------------------------------
(***************************************************************************)
(* What TimeReference promises to the code that registers a ping callback: *)
(* one simulated clock at a time, which starts at the start time, pings    *)
(* every time it shows, and leaves out or repeats a ping only when the     *)
(* simulation is paused.  TimeReference.tla, with its worker threads and   *)
(* its unsynchronised commands, is shown to implement this module, and     *)
(* Application.tla takes its pings from it.                                *)
(***************************************************************************)
EXTENDS Naturals

CONSTANTS
  StartTime,  \* tp_initial_, the simulated time a run starts from
  Speeds,     \* the simulated seconds per tick that can be set
  MaxPauses,  \* bound on the pauses counted since the last ping
  NoTime      \* "no ping yet"

ASSUME StartTimeAssumption == StartTime \in Nat
ASSUME SpeedsAssumption    == Speeds \subseteq Nat
ASSUME MaxPausesAssumption == MaxPauses \in Nat
ASSUME NoTimeAssumption    == NoTime \notin Nat

VARIABLES
  alive,   \* a run is under way: its clock may ping and advance
  now,     \* the simulated time
  last,    \* the time of this run's last ping, NoTime before the first
  ahead,   \* advances of the clock since that ping
  pauses   \* pauses in effect at some moment since that ping

clockVars == <<alive, now, last, ahead, pauses>>

ClockTypeOK ==
  /\ alive \in BOOLEAN
  /\ now \in Nat
  /\ last \in Nat \cup {NoTime}
  /\ ahead \in Nat
  /\ pauses \in Nat

ClockInit ==
  /\ alive = FALSE
  /\ now = 0
  /\ last = NoTime
  /\ ahead = 0
  /\ pauses = 0

-----------------------------------------------------------------------------

(* A run begins: only when none is under way.  A pause that came before    *)
(* the clock was set still counts.                                         *)
Begin ==
  /\ ~alive
  /\ alive' = TRUE
  /\ now' = StartTime
  /\ last' = NoTime
  /\ ahead' = 0
  /\ pauses' \in 0..1 /\ pauses' <= MaxPauses

(* The callbacks are called with the time the clock shows.  The time of    *)
(* the last ping is repeated only after a pause.                           *)
Ping ==
  /\ alive
  /\ last # NoTime /\ ahead = 0 => pauses > 0
  /\ last' = now
  /\ ahead' = 0
  /\ pauses' \in 0..1 /\ pauses' <= MaxPauses
  /\ UNCHANGED <<alive, now>>

(* The clock moves on.  Beyond the one advance that separates two pings,   *)
(* each further advance without a ping was paid for by a pause.            *)
Advance ==
  /\ alive
  /\ ahead <= pauses
  /\ \E v \in Speeds : now' = now + v
  /\ ahead' = ahead + 1
  /\ UNCHANGED <<alive, last, pauses>>

Pause ==
  /\ pauses < MaxPauses
  /\ pauses' = pauses + 1
  /\ UNCHANGED <<alive, now, last, ahead>>

End ==
  /\ alive
  /\ alive' = FALSE
  /\ UNCHANGED <<now, last, ahead, pauses>>

ClockNext == Begin \/ Ping \/ Advance \/ Pause \/ End

ClockSpec == ClockInit /\ [][ClockNext]_clockVars

=============================================================================
