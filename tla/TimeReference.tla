---------------------------- MODULE TimeReference ----------------------------
(***************************************************************************)
(* TimeReference, the simulated clock, and the commands that drive it.     *)
(*                                                                         *)
(* start() and stop() run on whatever io thread delivers the command of a  *)
(* websocket session; the clock is a worker thread that start() launches   *)
(* and stop() joins.  Nothing but do_run_ and pause_ is atomic, and no     *)
(* mutex protects thr_, so two sessions that command at the same time      *)
(* interleave step by step.  `contention` records how much they have done  *)
(* so; the invariants say which degree of it each guarantee survives.      *)
(***************************************************************************)
EXTENDS Naturals

CONSTANTS
  Sessions,   \* websocket sessions; each runs one command at a time
  Operators,  \* the sessions that send "start" and "stop"
  Workers,    \* identities of worker threads, reused after a join
  NoThread,   \* a default-constructed std::thread
  StartTime,  \* tp_initial_
  Speeds,     \* values the "speed" command sets
  MaxTime,    \* bound: where the simulated clock waits to be stopped
  MaxPauses,  \* bound: pauses between two pings
  NoTime      \* "this run has not pinged yet"

ASSUME OperatorsAssumption == Operators \subseteq Sessions
ASSUME NoThreadAssumption  == NoThread \notin Workers
ASSUME TimeAssumption      == StartTime \in Nat /\ MaxTime \in Nat
ASSUME SpeedAssumption     == Speeds \subseteq Nat /\ Speeds # {}
ASSUME PausesAssumption    == MaxPauses \in Nat
ASSUME NoPingAssumption    == NoTime \notin Nat

VARIABLES
  do_run_, pause_, speed_, sim_time_,
  thr_,        \* the worker that the thread handle refers to, or NoThread
  pc,          \* per session: the next step of its command handler
  cmd,         \* per session: the command in progress, or "none"
  call,        \* per session: "stop" or "start", the method it is in
  obj,         \* per session: the thread it joins or has just constructed
  reply,       \* per session: the status it is about to broadcast
  wpc,         \* per worker: the next step of workerTask
  display,     \* the simulation status the web clients were last sent
  crashed,     \* std::terminate was called
  \* History variables, read by no action:
  last, ahead, pauses,  \* as in SimClock
  spent,       \* pings and advances since the pause in effect began
  contention   \* most overlap so far: 1 any two commands, 2 two of
               \* start/stop, 3 two starts

session   == <<pc, cmd, call, obj, reply>>
history   == <<last, ahead, pauses, spent>>
vars == <<do_run_, pause_, speed_, sim_time_, thr_, session, wpc, display,
          crashed, history, contention>>

Live(w)    == wpc[w] \notin {"free", "done"}
Engaged(s) == cmd[s] \in {"start", "stop"}
Idle       == \A s \in Sessions : pc[s] = "idle"

(* TimeReference::status() *)
Status == IF ~do_run_ THEN "stopped" ELSE IF pause_ THEN "paused" ELSE "running"

Init ==
  /\ do_run_ = FALSE
  /\ pause_ = FALSE
  /\ speed_ \in Speeds
  /\ sim_time_ = 0
  /\ thr_ = NoThread
  /\ pc = [s \in Sessions |-> "idle"]
  /\ cmd = [s \in Sessions |-> "none"]
  /\ call = [s \in Sessions |-> "none"]
  /\ obj = [s \in Sessions |-> NoThread]
  /\ reply = [s \in Sessions |-> "none"]
  /\ wpc = [w \in Workers |-> "free"]
  /\ display = "stopped"
  /\ crashed = FALSE
  /\ last = NoTime
  /\ ahead = 0
  /\ pauses = 0
  /\ spent = 0
  /\ contention = 0

-----------------------------------------------------------------------------
(* Receiving a command                                                     *)

Overlap(s, c) ==
  LET others == {cmd[t] : t \in Sessions \ {s}}
  IN  IF c = "start" /\ "start" \in others                            THEN 3
      ELSE IF c \in {"start", "stop"} /\ others \cap {"start", "stop"} # {} THEN 2
      ELSE IF others \ {"none"} # {}                                  THEN 1
      ELSE 0

Receive(s, c) ==
  /\ pc[s] = "idle"
  /\ cmd' = [cmd EXCEPT ![s] = c]
  /\ contention' = IF Overlap(s, c) > contention THEN Overlap(s, c)
                                                 ELSE contention

(* Fault: stop() does not clear do_run_ before it joins.                   *)
CommandKeepsRunning(s) ==
  /\ s \in Operators
  /\ \E c \in {"start", "stop"} : Receive(s, c)
  /\ call' = [call EXCEPT ![s] = "stop"]
  /\ pc' = [pc EXCEPT ![s] = "joinable"]
  /\ UNCHANGED <<do_run_, pause_, speed_, sim_time_, thr_, obj, reply, wpc,
                 display, crashed, history>>

(* "start" and "stop" both begin with timeref.stop(), whose first step is  *)
(* do_run_ = false.                                                        *)
Command(s) ==
  /\ s \in Operators
  /\ \E c \in {"start", "stop"} : Receive(s, c)
  /\ call' = [call EXCEPT ![s] = "stop"]
  /\ do_run_' = FALSE
  /\ pc' = [pc EXCEPT ![s] = "joinable"]
  /\ UNCHANGED <<pause_, speed_, sim_time_, thr_, obj, reply, wpc, display,
                 crashed, history>>

(* Fault: the clients are told before pause_ is stored.                    *)
PauseCommandTellsFirst(s) ==
  /\ pauses < MaxPauses
  /\ Receive(s, "pause")
  /\ pause_' = TRUE
  /\ pauses' = IF pause_ THEN pauses ELSE pauses + 1
  /\ reply' = [reply EXCEPT ![s] = Status]
  /\ pc' = [pc EXCEPT ![s] = "broadcast"]
  /\ UNCHANGED <<do_run_, speed_, sim_time_, thr_, call, obj, wpc,
                 display, crashed, last, ahead, spent>>

(* pause(true) *)
PauseCommand(s) ==
  /\ pauses < MaxPauses
  /\ Receive(s, "pause")
  /\ pause_' = TRUE
  /\ pauses' = IF pause_ THEN pauses ELSE pauses + 1
  /\ pc' = [pc EXCEPT ![s] = "status"]
  /\ UNCHANGED <<do_run_, speed_, sim_time_, thr_, call, obj, reply, wpc,
                 display, crashed, last, ahead, spent>>

(* pause(false) *)
ResumeCommand(s) ==
  /\ Receive(s, "resume")
  /\ pause_' = FALSE
  /\ spent' = 0
  /\ pc' = [pc EXCEPT ![s] = "status"]
  /\ UNCHANGED <<do_run_, speed_, sim_time_, thr_, call, obj, reply, wpc,
                 display, crashed, last, ahead, pauses>>

(* setSpeed(value) *)
SpeedCommand(s) ==
  /\ Receive(s, "speed")
  /\ speed_' \in Speeds
  /\ pc' = [pc EXCEPT ![s] = "status"]
  /\ UNCHANGED <<do_run_, pause_, sim_time_, thr_, call, obj, reply, wpc,
                 display, crashed, history>>

-----------------------------------------------------------------------------
(* stop() and the first half of start(): if (thr_.joinable()) thr_.join()  *)

AfterJoin(s) == IF call[s] = "stop" THEN "status" ELSE "unpause"

(* Fault: neither stop() nor start() joins.                                *)
JoinableNeverJoins(s) ==
  /\ pc[s] = "joinable"
  /\ pc' = [pc EXCEPT ![s] = AfterJoin(s)]
  /\ UNCHANGED <<do_run_, pause_, speed_, sim_time_, thr_, cmd, call, obj,
                 reply, wpc, display, crashed, history, contention>>

(* Fault: stop() leaves the join to the next start().                      *)
JoinableOnlyInStart(s) ==
  /\ pc[s] = "joinable"
  /\ pc' = [pc EXCEPT ![s] = IF thr_ # NoThread /\ call[s] = "start"
                             THEN "join" ELSE AfterJoin(s)]
  /\ UNCHANGED <<do_run_, pause_, speed_, sim_time_, thr_, cmd, call, obj,
                 reply, wpc, display, crashed, history, contention>>

Joinable(s) ==
  /\ pc[s] = "joinable"
  /\ pc' = [pc EXCEPT ![s] = IF thr_ # NoThread THEN "join" ELSE AfterJoin(s)]
  /\ UNCHANGED <<do_run_, pause_, speed_, sim_time_, thr_, cmd, call, obj,
                 reply, wpc, display, crashed, history, contention>>

BeingJoined(w) == \E t \in Sessions : pc[t] = "wait" /\ obj[t] = w

(* pthread_join accepts a single joiner of an existing thread.             *)
CanJoin == thr_ # NoThread /\ wpc[thr_] # "free" /\ ~BeingJoined(thr_)

JoinBegin(s) ==
  /\ pc[s] = "join"
  /\ CanJoin
  /\ obj' = [obj EXCEPT ![s] = thr_]
  /\ pc' = [pc EXCEPT ![s] = "wait"]
  /\ UNCHANGED <<do_run_, pause_, speed_, sim_time_, thr_, cmd, call, reply,
                 wpc, display, crashed, history, contention>>

(* Otherwise join() throws std::system_error, which acceptMessage logs:    *)
(* the rest of the command is abandoned.                                   *)
JoinThrows(s) ==
  /\ pc[s] = "join"
  /\ ~CanJoin
  /\ pc' = [pc EXCEPT ![s] = "idle"]
  /\ cmd' = [cmd EXCEPT ![s] = "none"]
  /\ call' = [call EXCEPT ![s] = "none"]
  /\ UNCHANGED <<do_run_, pause_, speed_, sim_time_, thr_, obj, reply, wpc,
                 display, crashed, history, contention>>

(* Fault: the old worker is detached, not joined.                          *)
JoinReturnsEarly(s) ==
  /\ pc[s] = "wait"
  /\ pc' = [pc EXCEPT ![s] = "clear"]
  /\ UNCHANGED <<do_run_, pause_, speed_, sim_time_, thr_, cmd, call, obj,
                 reply, wpc, display, crashed, history, contention>>

JoinReturns(s) ==
  /\ pc[s] = "wait"
  /\ wpc[obj[s]] = "done"
  /\ wpc' = [wpc EXCEPT ![obj[s]] = "free"]
  /\ pc' = [pc EXCEPT ![s] = "clear"]
  /\ UNCHANGED <<do_run_, pause_, speed_, sim_time_, thr_, cmd, call, obj,
                 reply, display, crashed, history, contention>>

(* The end of std::thread::join() resets the handle, whatever it holds.    *)
JoinClears(s) ==
  /\ pc[s] = "clear"
  /\ thr_' = NoThread
  /\ obj' = [obj EXCEPT ![s] = NoThread]
  /\ pc' = [pc EXCEPT ![s] = AfterJoin(s)]
  /\ UNCHANGED <<do_run_, pause_, speed_, sim_time_, cmd, call, reply, wpc,
                 display, crashed, history, contention>>

-----------------------------------------------------------------------------
(* onSimulationChanged(): compose the status, then broadcast it            *)

ComposeStatus(s) ==
  /\ pc[s] = "status"
  /\ reply' = [reply EXCEPT ![s] = Status]
  /\ pc' = [pc EXCEPT ![s] = "broadcast"]
  /\ UNCHANGED <<do_run_, pause_, speed_, sim_time_, thr_, cmd, call, obj,
                 wpc, display, crashed, history, contention>>

(* Fault: the message is moved away before it is broadcast.                *)
BroadcastMovedFrom(s) ==
  LET more == cmd[s] = "start" /\ call[s] = "stop" IN
  /\ pc[s] = "broadcast"
  /\ reply' = [reply EXCEPT ![s] = "none"]
  /\ display' = reply'[s]
  /\ pc' = [pc EXCEPT ![s] = IF more THEN "start" ELSE "idle"]
  /\ cmd' = [cmd EXCEPT ![s] = IF more THEN "start" ELSE "none"]
  /\ call' = [call EXCEPT ![s] = IF more THEN "stop" ELSE "none"]
  /\ UNCHANGED <<do_run_, pause_, speed_, sim_time_, thr_, obj, wpc, crashed,
                 history, contention>>

(* After stop() the "start" command goes on to start(); every other        *)
(* command is finished.                                                    *)
Broadcast(s) ==
  LET more == cmd[s] = "start" /\ call[s] = "stop" IN
  /\ pc[s] = "broadcast"
  /\ display' = reply[s]
  /\ reply' = [reply EXCEPT ![s] = "none"]
  /\ pc' = [pc EXCEPT ![s] = IF more THEN "start" ELSE "idle"]
  /\ cmd' = [cmd EXCEPT ![s] = IF more THEN "start" ELSE "none"]
  /\ call' = [call EXCEPT ![s] = IF more THEN "stop" ELSE "none"]
  /\ UNCHANGED <<do_run_, pause_, speed_, sim_time_, thr_, obj, wpc, crashed,
                 history, contention>>

-----------------------------------------------------------------------------
(* start() *)

EnterStart(s) ==
  /\ pc[s] = "start"
  /\ call' = [call EXCEPT ![s] = "start"]
  /\ do_run_' = FALSE
  /\ pc' = [pc EXCEPT ![s] = "joinable"]
  /\ UNCHANGED <<pause_, speed_, sim_time_, thr_, cmd, obj, reply, wpc,
                 display, crashed, history, contention>>

Unpause(s) ==
  /\ pc[s] = "unpause"
  /\ pause_' = FALSE
  /\ spent' = 0
  /\ pc' = [pc EXCEPT ![s] = "arm"]
  /\ UNCHANGED <<do_run_, speed_, sim_time_, thr_, cmd, call, obj, reply, wpc,
                 display, crashed, last, ahead, pauses, contention>>

Arm(s) ==
  /\ pc[s] = "arm"
  /\ do_run_' = TRUE
  /\ pc' = [pc EXCEPT ![s] = "spawn"]
  /\ UNCHANGED <<pause_, speed_, sim_time_, thr_, cmd, call, obj, reply, wpc,
                 display, crashed, history, contention>>

(* std::thread([...]{ workerTask(start_time); }) *)
Spawn(s) ==
  /\ pc[s] = "spawn"
  /\ \E w \in Workers :
       /\ wpc[w] = "free"
       /\ wpc' = [wpc EXCEPT ![w] = "begin"]
       /\ obj' = [obj EXCEPT ![s] = w]
  /\ pc' = [pc EXCEPT ![s] = "assign"]
  /\ UNCHANGED <<do_run_, pause_, speed_, sim_time_, thr_, cmd, call, reply,
                 display, crashed, history, contention>>

(* thr_ = std::move(temporary): std::terminate if thr_ is joinable.        *)
Assign(s) ==
  /\ pc[s] = "assign"
  /\ crashed' = (thr_ # NoThread)
  /\ thr_' = obj[s]
  /\ obj' = [obj EXCEPT ![s] = NoThread]
  /\ pc' = [pc EXCEPT ![s] = "status"]
  /\ UNCHANGED <<do_run_, pause_, speed_, sim_time_, cmd, call, reply, wpc,
                 display, history, contention>>

-----------------------------------------------------------------------------
(* workerTask(start_time) *)

Work(w, from, to) ==
  /\ wpc[w] = from
  /\ wpc' = [wpc EXCEPT ![w] = to]
  /\ UNCHANGED <<do_run_, pause_, speed_, thr_, session, display, crashed,
                 contention>>

SetClock(w) ==
  /\ Work(w, "begin", "loop")
  /\ sim_time_' = StartTime
  /\ last' = NoTime
  /\ ahead' = 0
  /\ pauses' = IF pause_ THEN 1 ELSE 0
  /\ UNCHANGED spent

WhileDoRun(w) ==
  /\ Work(w, "loop", IF do_run_ THEN "test_ping" ELSE "done")
  /\ UNCHANGED <<sim_time_, history>>

TestPing(w) ==
  /\ Work(w, "test_ping", IF pause_ THEN "sleep" ELSE "ping")
  /\ UNCHANGED <<sim_time_, history>>

(* for (auto &cb: ping_callback_) cb.second(sim_time_) *)
CallBack(w) ==
  /\ Work(w, "ping", "sleep")
  /\ last' = sim_time_
  /\ ahead' = 0
  /\ pauses' = IF pause_ THEN 1 ELSE 0
  /\ spent' = IF pause_ THEN spent + 1 ELSE 0
  /\ UNCHANGED sim_time_

(* Fault: the time advances even when paused.                              *)
TestAdvanceIgnoresPause(w) ==
  /\ Work(w, "sleep", "advance")
  /\ UNCHANGED <<sim_time_, history>>

(* After sleep_until, the second look at pause_.                           *)
TestAdvance(w) ==
  /\ Work(w, "sleep", IF pause_ THEN "loop" ELSE "advance")
  /\ UNCHANGED <<sim_time_, history>>

(* At the bound on time the worker sleeps on until a stop is requested.    *)
AdvanceTime(w) ==
  /\ do_run_ => sim_time_ + speed_ <= MaxTime
  /\ Work(w, "advance", "loop")
  /\ sim_time_' = sim_time_ + speed_
  /\ ahead' = ahead + 1
  /\ spent' = IF pause_ THEN spent + 1 ELSE 0
  /\ UNCHANGED <<last, pauses>>

-----------------------------------------------------------------------------

Handler(s) ==
  \/ Joinable(s) \/ JoinBegin(s) \/ JoinThrows(s) \/ JoinReturns(s)
  \/ JoinClears(s) \/ ComposeStatus(s) \/ Broadcast(s)
  \/ EnterStart(s) \/ Unpause(s) \/ Arm(s) \/ Spawn(s) \/ Assign(s)

Worker(w) ==
  \/ SetClock(w) \/ WhileDoRun(w) \/ TestPing(w) \/ CallBack(w)
  \/ TestAdvance(w) \/ AdvanceTime(w)

Request(s) == Command(s) \/ PauseCommand(s) \/ ResumeCommand(s) \/ SpeedCommand(s)

(* After std::terminate nothing happens any more.                          *)
Terminated == crashed /\ UNCHANGED vars

Next ==
  \/ /\ ~crashed
     /\ \/ \E s \in Sessions : Request(s) \/ Handler(s)
        \/ \E w \in Workers : Worker(w)
  \/ Terminated

Spec == Init /\ [][Next]_vars

(* The operating system schedules every io thread and the worker; nobody   *)
(* is obliged to send a command.                                           *)
Fairness ==
  /\ \A s \in Sessions : WF_vars(~crashed /\ Handler(s))
  /\ \A w \in Workers : WF_vars(~crashed /\ Worker(w))

FairSpec == Spec /\ Fairness

-----------------------------------------------------------------------------
(* Properties                                                              *)

PCs == {"idle", "joinable", "join", "wait", "clear", "status", "broadcast",
        "start", "unpause", "arm", "spawn", "assign"}

(* Every variable of the class, the handlers and the workers has its type: *)
(* in particular only composed statuses are ever broadcast.                *)
TypeOK ==
  /\ do_run_ \in BOOLEAN
  /\ pause_ \in BOOLEAN
  /\ speed_ \in Speeds
  /\ sim_time_ \in Nat
  /\ thr_ \in Workers \cup {NoThread}
  /\ pc \in [Sessions -> PCs]
  /\ cmd \in [Sessions -> {"none", "start", "stop", "pause", "resume", "speed"}]
  /\ call \in [Sessions -> {"none", "stop", "start"}]
  /\ obj \in [Sessions -> Workers \cup {NoThread}]
  /\ reply \in [Sessions -> {"none", "stopped", "paused", "running"}]
  /\ wpc \in [Workers -> {"free", "begin", "loop", "test_ping", "ping", "sleep",
                         "advance", "done"}]
  /\ \A s \in Sessions : pc[s] = "broadcast" => reply[s] # "none"
  /\ display \in {"stopped", "paused", "running"}
  /\ crashed \in BOOLEAN
  /\ last \in Nat \cup {NoTime}
  /\ ahead \in Nat
  /\ pauses \in Nat
  /\ spent \in Nat
  /\ contention \in 0..3

(* Assigning to thr_ in start() terminates the process only if two "start" *)
(* commands were in progress at once: a stop, pause, resume or speed that  *)
(* races with a start never does.                                          *)
TerminateNeedsTwoStarts == contention < 3 => ~crashed

(* As long as start and stop commands do not overlap, however pause,       *)
(* resume and speed commands do, there is never more than one worker.      *)
OneWorker ==
  contention < 2 => \A v, w \in Workers :
                      wpc[v] # "free" /\ wpc[w] # "free" => v = w

(* "stopped" and "running" tell the truth once start and stop have         *)
(* returned: after stop() no worker is left that could still call back or  *)
(* move the time; after start() one is at work and has not given up.       *)
StatusTellsTheTruth ==
  contention < 2 /\ (\A s \in Sessions : ~Engaged(s))
    => /\ ~do_run_ => \A w \in Workers : wpc[w] = "free"
       /\ do_run_  => \E w \in Workers : Live(w) /\ thr_ = w

(* A pause takes hold at once but for the one step, a ping or an advance,  *)
(* the worker had already decided on.                                      *)
PauseTakesHold == contention < 2 => spent <= 1

(* What the clients were told last is the status of the simulation, if no  *)
(* two commands overlapped.                                                *)
DisplayIsCurrent == contention < 1 /\ Idle => display = Status

(* With one session that starts and stops, this is the clock SimClock      *)
(* describes: one run at a time, no ping after its end, and a tick left    *)
(* out or repeated only because of a pause.                                *)
Clock == INSTANCE SimClock WITH
           alive <- \E w \in Workers : wpc[w] \notin {"free", "begin", "done"},
           now   <- sim_time_

ImplementsSimClock == Clock!ClockSpec

(* With one session that starts and stops, each of its commands returns:   *)
(* the worker it waits for comes to see that do_run_ is false.             *)
CommandsReturn == \A s \in Sessions : pc[s] # "idle" ~> pc[s] = "idle"

=============================================================================
