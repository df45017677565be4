------------------------------ MODULE Lifecycle ------------------------------
(***************************************************************************)
(* The process from main() to the destructors of its static objects.       *)
(*                                                                         *)
(* Application, TimeReference and WebsocketDataBus are function-local      *)
(* statics, built at their first use and destroyed in the reverse order    *)
(* after main(); the io_context is a local of Webserver::run.  The clock's *)
(* worker and the detached threads of pings and welcomes know nothing of   *)
(* this.  Commands run on several io threads; of those that overlap there  *)
(* is only as much here as matters to the end of the process, the rest is  *)
(* in TimeReference.                                                       *)
(***************************************************************************)
EXTENDS Naturals, Sequences, SequencesExt

CONSTANTS
  CommandLines,  \* that the program may be started with
  IoThreads,  \* of Webserver::run
  Pings,      \* bound: identities of the ping threads in flight
  Clients,    \* that connect to the webserver
  MaxErrors   \* bound on the errors of async_accept

ASSUME CommandLinesAssumption ==
  CommandLines \subseteq {"plain", "help", "malformed", "log-level"}
ASSUME ErrorsAssumption == MaxErrors \in Nat

VARIABLES
  main,       \* the next step of main() and of what follows it
  command_line,
  alive,      \* the objects in being, in the order they were built
  built,      \* the objects that were ever built
  listening,  \* the constructor of Listener got as far as listen()
  accepting,  \* an async_accept is under way
  client,     \* per client: "away", "connecting", "session" or "websocket"
  errors,     \* counted for the bound
  signalled,  \* SIGINT or SIGTERM has stopped the io_context
  command,    \* per io thread, the next step of the command it executes
  do_run_, thr_,  \* of TimeReference; thr_: joinable
  worker,     \* the next step of workerTask
  ping,       \* per ping thread, its next step
  welcome,    \* per client, the next step of its session's welcome thread
  \* History variables, read by no action:
  misused,    \* who has used an object that was not in being
  busy,       \* the clock, a ping or a welcome was active when main() returned
  contended   \* two commands have overlapped

clockVars  == <<do_run_, thr_, worker>>
threadVars == <<command, clockVars, ping, welcome>>
netVars    == <<listening, accepting, client, errors>>
mainVars   == <<main, command_line, alive, built, signalled, netVars>>
history    == <<misused, busy, contended>>
vars == <<mainVars, threadVars, history>>

Ended == main \in {"exited", "terminated"}

Init ==
  /\ main = "options"
  /\ command_line \in CommandLines
  /\ alive = <<"application">> /\ built = {"application"}
  /\ listening = FALSE /\ accepting = FALSE /\ errors = 0
  /\ client = [c \in Clients |-> "away"]
  /\ signalled = FALSE
  /\ command = [i \in IoThreads |-> "none"]
  /\ do_run_ = FALSE /\ thr_ = FALSE /\ worker = "none"
  /\ ping = [p \in Pings |-> "none"]
  /\ welcome = [c \in Clients |-> "none"]
  /\ misused = {}
  /\ busy = FALSE /\ contended = FALSE

(* who uses the given objects.                                             *)
Use(who, objects) ==
  misused' = IF objects \subseteq ToSet(alive) THEN misused ELSE misused \cup {who}

-----------------------------------------------------------------------------
(* main()                                                                  *)

MainStep(from, to) ==
  /\ main = from
  /\ main' = to
  /\ UNCHANGED <<command_line, signalled, client, errors, threadVars, contended>>

Build(objects) == alive' = alive \o objects /\ built' = built \cup ToSet(objects)

(* The type the log-level option is declared with, and the one it is read  *)
(* as: as<>() throws if they differ.                                       *)
DeclaredType == "std::string"
ReadType     == "std::string_view"

(* Past the options; to exit(), after the help; or, if they cannot be      *)
(* parsed or read, to the exception handler of main(), which logs the      *)
(* exception and returns.                                                  *)
Options ==
  /\ IF \/ command_line \in {"help", "malformed"}
        \/ command_line = "log-level" /\ DeclaredType # ReadType
     THEN MainStep("options", "destroy")
     ELSE MainStep("options", "init")
  /\ UNCHANGED <<listening, accepting, alive, built, misused, busy>>

(* Application::init: registerPingCallback builds TimeReference.           *)
InitApplication ==
  /\ MainStep("init", "clean")
  /\ Build(<<"timeref">>)
  /\ UNCHANGED <<listening, accepting, misused, busy>>

(* The data file cannot be read, or the database cannot be cleaned.        *)
InitFails ==
  /\ MainStep("init", "destroy")
  /\ UNCHANGED <<listening, accepting, alive, built, misused, busy>>

(* setSpeed: onSimulationChanged builds WebsocketDataBus.  Then            *)
(* cleanDatabase, and Webserver::run builds the io_context and a Listener, *)
(* which accepts even if open, bind or listen has failed.                  *)
Serve ==
  /\ MainStep("clean", "serve")
  /\ Build(<<"databus", "ioc">>)
  /\ listening' \in BOOLEAN /\ accepting' = TRUE
  /\ UNCHANGED <<misused, busy>>

CleanFails ==
  /\ MainStep("clean", "destroy")
  /\ Build(<<"databus">>)
  /\ UNCHANGED <<listening, accepting, misused, busy>>

(* signals.async_wait: ioc.stop()                                          *)
Signal ==
  /\ main = "serve" /\ ~signalled
  /\ signalled' = TRUE
  /\ UNCHANGED <<main, command_line, alive, built, netVars, threadVars, history>>

(* What main() leaves behind.                                              *)
Busy ==
  \/ thr_
  \/ \E p \in Pings : ping[p] # "none"
  \/ \E c \in Clients : welcome[c] # "none"

(* Fault: the io threads are not joined.                                   *)
RunReturnsAtOnce ==
  /\ signalled
  /\ MainStep("serve", "destroy")
  /\ alive' = Front(alive)
  /\ busy' = Busy
  /\ accepting' = FALSE
  /\ UNCHANGED <<listening, built, misused>>

(* The io threads have left ioc.run(); the io_context is destroyed, and    *)
(* main() returns.                                                         *)
RunReturns ==
  /\ signalled /\ \A i \in IoThreads : command[i] = "none"
  /\ MainStep("serve", "destroy")
  /\ alive' = Front(alive)
  /\ busy' = Busy
  /\ accepting' = FALSE
  /\ UNCHANGED <<listening, built, misused>>

(* The destructor of the static object built last: ~TimeReference must not *)
(* find thr_ joinable, and ~Application calls TimeReference::instance(),   *)
(* which has been destroyed if it was ever built.                          *)
Destroy(object) ==
  IF object = "timeref" /\ thr_
  THEN MainStep("destroy", "terminated") /\ UNCHANGED <<alive, misused>>
  ELSE /\ MainStep("destroy", "destroy")
       /\ alive' = Remove(alive, object)
       /\ misused' = IF object = "application" /\ "timeref" \in built
                     THEN misused \cup {"~Application"} ELSE misused

DestroyStatic ==
  /\ alive # <<>>
  /\ Destroy(Last(alive))
  /\ UNCHANGED <<listening, accepting, built, busy>>

Exit ==
  /\ alive = <<>>
  /\ MainStep("destroy", "exited")
  /\ UNCHANGED <<listening, accepting, alive, built, misused, busy>>

Main ==
  \/ Options \/ InitApplication \/ InitFails \/ Serve \/ CleanFails
  \/ RunReturns \/ DestroyStatic \/ Exit

-----------------------------------------------------------------------------
(* The listener, while the io threads run                                  *)

Serving == main = "serve" /\ ~signalled

ListenerStep ==
  Serving /\ UNCHANGED <<main, command_line, alive, built, signalled, listening, command,
                         clockVars, ping, history>>

(* A client is in the backlog of the socket.                               *)
Connect(c) ==
  /\ ListenerStep /\ listening
  /\ client[c] = "away"
  /\ client' = [client EXCEPT ![c] = "connecting"]
  /\ UNCHANGED <<accepting, errors, welcome>>

OnAccept(c) ==
  /\ ListenerStep /\ accepting
  /\ client[c] = "connecting"
  /\ client' = [client EXCEPT ![c] = "session"]
  /\ UNCHANGED <<accepting, errors, welcome>>

(* The session becomes a WebsocketSession, whose on_accept detaches the    *)
(* welcome thread.                                                         *)
OnUpgrade(c) ==
  /\ ListenerStep
  /\ client[c] = "session"
  /\ client' = [client EXCEPT ![c] = "websocket"]
  /\ welcome' = [welcome EXCEPT ![c] = "compose"]
  /\ UNCHANGED <<accepting, errors>>

(* Fault: after an error nothing is accepted any more.                     *)
OnAcceptErrorReturns ==
  /\ ListenerStep /\ accepting /\ errors < MaxErrors
  /\ errors' = errors + 1 /\ accepting' = FALSE
  /\ UNCHANGED <<client, welcome>>

(* The error is logged, and do_accept() called again: over and over if the *)
(* socket does not listen.                                                 *)
OnAcceptError ==
  /\ ListenerStep /\ accepting /\ errors < MaxErrors
  /\ errors' = errors + 1
  /\ UNCHANGED <<accepting, client, welcome>>

-----------------------------------------------------------------------------
(* The io threads: "start" and "stop"                                      *)

CommandStep(i, from, to) ==
  /\ ~Ended
  /\ command[i] = from
  /\ command' = [command EXCEPT ![i] = to]
  /\ UNCHANGED <<command_line, alive, built, signalled, netVars, ping, welcome, busy>>

Overlap(i) == \E j \in IoThreads \ {i} : command[j] # "none"

(* Fault: stop() does not clear do_run_ before it joins.                   *)
CommandKeepsRunning(i) ==
  /\ Serving
  /\ CommandStep(i, "none", "stop") \/ CommandStep(i, "none", "start")
  /\ contended' = (contended \/ Overlap(i))
  /\ UNCHANGED <<main, clockVars, misused>>

(* Both begin with stop(): do_run_ = false.                                *)
Command(i) ==
  /\ Serving
  /\ CommandStep(i, "none", "stop") \/ CommandStep(i, "none", "start")
  /\ do_run_' = FALSE
  /\ contended' = (contended \/ Overlap(i))
  /\ UNCHANGED <<main, thr_, worker, misused>>

(* From the join of stop(), and from that of start().                      *)
Join(i) ==
  \/ CommandStep(i, "stop", "tell") \/ CommandStep(i, "start", "told")
  \/ CommandStep(i, "restart", "arm")

Joining(i) == command[i] \in {"stop", "start", "restart"}

(* Fault: stop() leaves the thread to itself.                              *)
JoinDetaches(i) ==
  /\ Join(i)
  /\ thr_' = FALSE
  /\ UNCHANGED <<main, do_run_, worker, misused, contended>>

(* if (thr_.joinable()) thr_.join(): returns when the worker has ended.    *)
JoinReturns(i) ==
  /\ Join(i)
  /\ thr_ => worker = "none"
  /\ thr_' = FALSE
  /\ UNCHANGED <<main, do_run_, worker, misused, contended>>

(* A thread that another one joins: acceptMessage logs the exception.      *)
JoinThrows(i) ==
  /\ Joining(i) /\ CommandStep(i, command[i], "none")
  /\ \E j \in IoThreads \ {i} : Joining(j)
  /\ UNCHANGED <<main, clockVars, misused, contended>>

(* onSimulationChanged: a message to the web clients.  The start command   *)
(* goes on to start().                                                     *)
Tell(i) ==
  /\ CommandStep(i, "tell", "none") \/ CommandStep(i, "told", "begin")
  /\ Use("command", {"application", "timeref", "databus", "ioc"})
  /\ UNCHANGED <<main, clockVars, contended>>

(* start(): do_run_ = false, before the join, and do_run_ = true after it. *)
Arm(i) ==
  /\ \/ CommandStep(i, "begin", "restart") /\ do_run_' = FALSE
     \/ CommandStep(i, "arm", "launch") /\ do_run_' = TRUE
  /\ UNCHANGED <<main, thr_, worker, misused, contended>>

(* thr_ = std::thread(...): std::terminate if thr_ is joinable.            *)
Launch(i) ==
  /\ CommandStep(i, "launch", "tell")
  /\ main' = IF thr_ THEN "terminated" ELSE main
  /\ thr_' = TRUE /\ worker' = "test"
  /\ UNCHANGED <<do_run_, misused, contended>>

Handler(i) == JoinReturns(i) \/ JoinThrows(i) \/ Tell(i) \/ Arm(i) \/ Launch(i)

-----------------------------------------------------------------------------
(* The clock, the pings and the welcomes                                   *)

ClockStep == ~Ended /\ UNCHANGED <<mainVars, command, do_run_, thr_, busy, contended>>

(* workerTask: while (do_run_)                                             *)
WorkerTests ==
  /\ ClockStep
  /\ worker = "test"
  /\ worker' = IF do_run_ THEN "ping" ELSE "none"
  /\ UNCHANGED <<ping, welcome, misused>>

(* A paused worker, or one at its bound, leaves the ping out.              *)
WorkerSkips ==
  /\ ClockStep
  /\ worker = "ping"
  /\ worker' = "test"
  /\ UNCHANGED <<ping, welcome, misused>>

OnTimePing(p) ==
  /\ ClockStep
  /\ worker = "ping"
  /\ worker' = "test"
  /\ ping[p] = "none"
  /\ ping' = [ping EXCEPT ![p] = "work"]
  /\ Use("worker", {"timeref", "application"})
  /\ UNCHANGED welcome

(* The ping thread reads its data sources and the sessions in the bus.     *)
PingWorks(p) ==
  /\ ClockStep
  /\ ping[p] = "work"
  /\ ping' = [ping EXCEPT ![p] = "send"]
  /\ Use("ping", {"application", "databus"})
  /\ UNCHANGED <<worker, welcome>>

(* It posts to the strand of the sessions it holds, if any, and ends.      *)
PingSends(p) ==
  /\ ClockStep
  /\ ping[p] = "send"
  /\ ping' = [ping EXCEPT ![p] = "none"]
  /\ Use("ping", {"ioc"}) \/ UNCHANGED misused
  /\ UNCHANGED <<worker, welcome>>

PingThread(p) == PingWorks(p) \/ PingSends(p)

(* The welcome thread calls statusMessage().                               *)
WelcomeComposes(c) ==
  /\ ClockStep
  /\ welcome[c] = "compose"
  /\ welcome' = [welcome EXCEPT ![c] = "send"]
  /\ Use("welcome", {"application", "timeref"})
  /\ UNCHANGED <<worker, ping>>

(* It posts to the strand of its session, and ends; if it had the last     *)
(* shared_ptr, the session unregisters.                                    *)
WelcomeSends(c) ==
  /\ ClockStep
  /\ welcome[c] = "send"
  /\ welcome' = [welcome EXCEPT ![c] = "none"]
  /\ Use("welcome", {"ioc"}) \/ Use("welcome", {"ioc", "databus"})
  /\ UNCHANGED <<worker, ping>>

WelcomeThread(c) == WelcomeComposes(c) \/ WelcomeSends(c)

-----------------------------------------------------------------------------

Next ==
  \/ Main \/ Signal \/ OnAcceptError
  \/ \E c \in Clients : Connect(c) \/ OnAccept(c) \/ OnUpgrade(c) \/ WelcomeThread(c)
  \/ \E i \in IoThreads : Command(i) \/ Handler(i)
  \/ WorkerTests \/ WorkerSkips
  \/ \E p \in Pings : OnTimePing(p) \/ PingThread(p)
  \/ Ended /\ UNCHANGED vars

Spec == Init /\ [][Next]_vars

(* The threads are scheduled.                                              *)
Fairness ==
  /\ WF_vars(Main)
  /\ \A i \in IoThreads : WF_vars(Handler(i))
  /\ WF_vars(WorkerTests \/ WorkerSkips \/ \E p \in Pings : OnTimePing(p))
  /\ \A p \in Pings : WF_vars(PingThread(p))
  /\ \A c \in Clients : WF_vars(OnAccept(c)) /\ WF_vars(WelcomeThread(c))

FairSpec == Spec /\ Fairness

-----------------------------------------------------------------------------
(* Properties                                                              *)

(* A command in progress when the signal comes finishes before anything it *)
(* uses is destroyed, even if it has to wait for the worker, and however   *)
(* many other commands overlap it.                                         *)
CommandsFinish == "command" \notin misused

(* With the clock stopped, and its last ping and the last welcome over     *)
(* when main() returns, nothing but ~Application uses a destroyed object,  *)
(* and the process does not terminate, unless commands have overlapped.    *)
StoppedClockIsSafe ==
  ~busy /\ ~contended => misused \subseteq {"~Application"} /\ main # "terminated"

(* A signal ends the process, in whatever way, unless commands have        *)
(* overlapped: a start that sets do_run_ again while a stop waits for the  *)
(* worker leaves the stop waiting, and Webserver::run with it.             *)
SignalEnds == signalled ~> Ended \/ contended

(* A client that connects gets its session, whatever errors there were,    *)
(* unless a signal comes first, or overlapping commands have ended the     *)
(* process or block its io threads.                                        *)
ClientsAreServed ==
  \A c \in Clients :
    client[c] = "connecting" ~> client[c] # "connecting" \/ signalled \/ contended

(* "Capture SIGINT and SIGTERM to perform a clean shutdown": the signal    *)
(* does not make the process terminate abnormally.                         *)
CleanShutdown == signalled => main # "terminated"

(* "set logging level [trace|debug|info|warning|error]": with the option   *)
(* the program starts like without; only the data file or the database can *)
(* keep it from serving.                                                   *)
LogLevelIsAccepted == main = "options" ~> main = "init"

=============================================================================
