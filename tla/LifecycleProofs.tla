-------------------------- MODULE LifecycleProofs --------------------------
(* Proofs about Lifecycle, for any number of io threads, ping threads and  *)
(* clients, and about the log, for any channels, levels and commands.      *)
EXTENDS MCLifecycle, SequenceTheorems, TLAPS

Objects == {"application", "timeref", "databus", "ioc"}

(* How far main() has got, and with it which objects there are.            *)
MainInv ==
  /\ main \in {"options", "init", "clean", "serve", "destroy", "exited", "terminated"}
  /\ main \in {"options", "init"} => alive = <<"application">>
  /\ main = "clean" => alive = <<"application", "timeref">>
  /\ main = "serve" => alive = <<"application", "timeref", "databus", "ioc">>
  /\ busy => main \in {"destroy", "exited", "terminated"}

(* The io threads do nothing after ioc.run(); the worker runs only while   *)
(* thr_ refers to it; what is active later was so when main() returned.    *)
ThreadInv ==
  /\ command \in [IoThreads -> {"none", "stop", "start", "tell", "told", "begin", "restart",
                               "arm", "launch"}]
  /\ ping \in [Pings -> {"none", "work", "send"}]
  /\ welcome \in [Clients -> {"none", "compose", "send"}]
  /\ \A i \in IoThreads : command[i] # "none" => main \in {"serve", "terminated"}
  /\ worker # "none" => thr_
  /\ Busy => main \in {"serve", "terminated"} \/ busy

(* A command that overlaps no other launches the worker where there is     *)
(* none.                                                                   *)
AloneInv ==
  ~contended =>
    /\ \A i, j \in IoThreads : command[i] # "none" /\ command[j] # "none" => i = j
    /\ \A i \in IoThreads : command[i] \in {"arm", "launch"} => ~thr_

IInv == MainInv /\ ThreadInv /\ AloneInv /\ CommandsFinish /\ StoppedClockIsSafe

(* While the program serves, every object is in being.                     *)
LEMMA ServingHasAll ==
  ASSUME MainInv, main = "serve"
  PROVE  ToSet(alive) = Objects
<1>1. alive = <<"application", "timeref", "databus", "ioc">>
  BY DEF MainInv
<1>2. ToSet(<<"application", "timeref", "databus", "ioc">>) = Objects
  BY DEF ToSet, Objects
<1>3. QED
  BY <1>1, <1>2

(* A use of any of the objects then is no misuse.                          *)
LEMMA UseIsSafe ==
  ASSUME MainInv, main = "serve",
         NEW who, NEW objects \in SUBSET Objects, Use(who, objects)
  PROVE  misused' = misused
BY ServingHasAll DEF Use

(* What the static objects of InitApplication are appended to.             *)
LEMMA Joined ==
  ASSUME NEW a, NEW b
  PROVE  <<a>> \o <<b>> = <<a, b>>
<1> DEFINE s == <<a>> \o <<b>>
           t == <<a, b>>
<1>1. s \in Seq({a, b}) /\ Len(s) = 2 /\ s[1] = a /\ s[2] = b
  OBVIOUS
<1>2. t \in Seq({a, b}) /\ Len(t) = 2 /\ t[1] = a /\ t[2] = b
  OBVIOUS
<1>3. \A i \in 1..Len(s) : s[i] = t[i]
  BY <1>1, <1>2
<1> HIDE DEF s, t
<1>4. s = t
  BY <1>1, <1>2, <1>3, SeqEqual
<1>5. QED
  BY <1>4 DEF s, t

(* And those of Serve.                                                     *)
LEMMA JoinedPairs ==
  ASSUME NEW a, NEW b, NEW c, NEW d
  PROVE  <<a, b>> \o <<c, d>> = <<a, b, c, d>>
<1> DEFINE s == <<a, b>> \o <<c, d>>
           t == <<a, b, c, d>>
<1>1. /\ s \in Seq({a, b, c, d}) /\ Len(s) = 4
      /\ s[1] = a /\ s[2] = b /\ s[3] = c /\ s[4] = d
  OBVIOUS
<1>2. /\ t \in Seq({a, b, c, d}) /\ Len(t) = 4
      /\ t[1] = a /\ t[2] = b /\ t[3] = c /\ t[4] = d
  OBVIOUS
<1>3. \A i \in 1..Len(s) : s[i] = t[i]
  BY <1>1, <1>2
<1> HIDE DEF s, t
<1>4. s = t
  BY <1>1, <1>2, <1>3, SeqEqual
<1>5. QED
  BY <1>4 DEF s, t

(* The initial state satisfies the invariant.                              *)
LEMMA InvInit == Init => IInv
BY DEF Init, IInv, MainInv, ThreadInv, Busy, AloneInv, CommandsFinish, StoppedClockIsSafe

(* main() up to its return keeps the invariant.                            *)
LEMMA StartUpStep ==
  ASSUME IInv, Options \/ InitApplication \/ InitFails \/ Serve \/ CleanFails
  PROVE  IInv'
<1> USE DEF IInv, MainInv, ThreadInv, Busy, AloneInv, CommandsFinish, StoppedClockIsSafe,
            MainStep, threadVars, clockVars
<1>1. CASE Options
  BY <1>1 DEF Options
<1>2. CASE InitApplication
  <2>1. alive = <<"application">> /\ alive' = alive \o <<"timeref">>
    BY <1>2 DEF InitApplication, Build
  <2>2. alive' = <<"application", "timeref">>
    BY ONLY <2>1, Joined
  <2>3. QED
    BY <1>2, <2>2 DEF InitApplication
<1>3. CASE InitFails
  BY <1>3 DEF InitFails
<1>4. CASE Serve
  <2>1. /\ alive = <<"application", "timeref">>
        /\ alive' = alive \o <<"databus", "ioc">>
    BY <1>4 DEF Serve, Build
  <2>2. alive' = <<"application", "timeref", "databus", "ioc">>
    BY <2>1, JoinedPairs
  <2>3. QED
    BY <1>4, <2>2 DEF Serve
<1>5. CASE CleanFails
  BY <1>5 DEF CleanFails
<1>6. QED
  BY <1>1, <1>2, <1>3, <1>4, <1>5

(* So do the end of the io threads and the destructors.                    *)
LEMMA ShutDownStep ==
  ASSUME IInv, RunReturns \/ DestroyStatic \/ Exit
  PROVE  IInv'
<1> USE DEF IInv, MainInv, ThreadInv, Busy, AloneInv, CommandsFinish, StoppedClockIsSafe,
            MainStep, threadVars, clockVars
<1>1. CASE RunReturns
  BY <1>1 DEF RunReturns
<1>2. CASE DestroyStatic
  <2>1. /\ main = "destroy" /\ main' \in {"destroy", "terminated"}
        /\ misused' \in {misused, misused \cup {"~Application"}}
        /\ main' = "terminated" => thr_
        /\ UNCHANGED <<threadVars, busy, contended>>
    BY <1>2 DEF DestroyStatic, Destroy
  <2>2. QED
    BY <2>1
<1>3. CASE Exit
  BY <1>3 DEF Exit
<1>4. QED
  BY <1>1, <1>2, <1>3

(* The listener and the signal touch of what the invariant is about only   *)
(* the welcome, which begins while the program serves.                     *)
LEMMA ListenerKeeps ==
  ASSUME IInv,
         \/ \E c \in Clients : Connect(c) \/ OnAccept(c) \/ OnUpgrade(c)
         \/ OnAcceptError \/ Signal
  PROVE  IInv'
<1>1. /\ main = "serve"
      /\ UNCHANGED <<main, alive, command, clockVars, ping, history>>
      /\ welcome' \in [Clients -> {"none", "compose", "send"}]
  BY DEF Connect, OnAccept, OnUpgrade, OnAcceptError, Signal, ListenerStep, Serving,
         threadVars, IInv, ThreadInv
<1>2. QED
  BY <1>1 DEF IInv, MainInv, ThreadInv, Busy, AloneInv, CommandsFinish,
              StoppedClockIsSafe, clockVars, history

(* A command runs only while the program serves, so that it finds all it   *)
(* uses.                                                                   *)
LEMMA CommandKeeps ==
  ASSUME IInv, NEW i \in IoThreads, Command(i) \/ Handler(i)
  PROVE  IInv'
<1>1. main = "serve"
  BY DEF Command, Handler, Serving, JoinReturns, JoinThrows, Join, Joining, Tell, Arm,
         Launch, CommandStep, Ended, IInv, ThreadInv
<1>2. /\ alive' = alive /\ UNCHANGED <<ping, welcome, busy>>
      /\ misused' = misused
  <2>1. /\ alive' = alive /\ UNCHANGED <<ping, welcome, busy>>
        /\ misused' = misused \/ Use("command", {"application", "timeref", "databus", "ioc"})
    BY DEF Command, Handler, JoinReturns, JoinThrows, Join, Tell, Arm, Launch, CommandStep
  <2>2. QED
    BY <1>1, <2>1, UseIsSafe DEF Objects, IInv
<1>3. PICK from, to \in {"none", "stop", "start", "tell", "told", "begin", "restart",
                         "arm", "launch"} :
        command[i] = from /\ command' = [command EXCEPT ![i] = to]
  BY DEF Command, Handler, JoinReturns, JoinThrows, Join, Joining, Tell, Arm, Launch,
         CommandStep, IInv, ThreadInv
<1>4. /\ command' \in [IoThreads -> {"none", "stop", "start", "tell", "told", "begin",
                                     "restart", "arm", "launch"}]
      /\ command'[i] = to /\ \A j \in IoThreads \ {i} : command'[j] = command[j]
  BY <1>3 DEF IInv, ThreadInv
<1>5. /\ main' \in {"serve", "terminated"} /\ (worker' # "none" => thr_')
      /\ ~contended' => ~contended /\ main' = "serve"
      /\ ~contended' /\ command'[i] \in {"arm", "launch"} => ~thr_'
      /\ ~contended' => \A j \in IoThreads \ {i} : command[j] = "none"
  <2>1. CASE Command(i)
    BY <1>1, <1>4, <2>1 DEF Command, CommandStep, Overlap, IInv, ThreadInv
  <2>2. CASE Handler(i)
    <3>1. from # "none" /\ contended' = contended
      BY <1>3, <2>2 DEF Handler, JoinReturns, JoinThrows, Join, Joining, Tell, Arm, Launch,
                        CommandStep
    <3>2. ~contended => \A j \in IoThreads \ {i} : command[j] = "none"
      BY <1>3, <3>1 DEF IInv, AloneInv
    <3>3. CASE JoinReturns(i)
      BY <1>1, <3>1, <3>2, <3>3 DEF JoinReturns, IInv, ThreadInv
    <3>4. CASE JoinThrows(i) \/ Tell(i)
      <4>1. /\ UNCHANGED <<main, clockVars>> /\ command'[i] \in {"none", "begin"}
        BY <1>4, <3>4 DEF JoinThrows, Tell, CommandStep, IInv, ThreadInv
      <4>2. QED
        BY <1>1, <3>1, <3>2, <4>1 DEF clockVars, IInv, ThreadInv
    <3>5. CASE Arm(i)
      <4>1. /\ UNCHANGED <<main, thr_, worker>>
            /\ command'[i] = "restart" \/ command[i] = "arm"
        BY <1>4, <3>5 DEF Arm, CommandStep, IInv, ThreadInv
      <4>2. QED
        BY <1>1, <3>1, <3>2, <4>1 DEF IInv, ThreadInv, AloneInv
    <3>6. CASE Launch(i)
      <4>1. /\ command[i] = "launch" /\ command'[i] = "tell" /\ thr_'
            /\ main' = IF thr_ THEN "terminated" ELSE main
        BY <1>4, <3>6 DEF Launch, CommandStep, IInv, ThreadInv
      <4>2. QED
        BY <1>1, <3>1, <3>2, <4>1 DEF IInv, ThreadInv, AloneInv
    <3>7. QED
      BY <2>2, <3>3, <3>4, <3>5, <3>6 DEF Handler
  <2>3. QED
    BY <2>1, <2>2
<1>6. MainInv'
  BY <1>1, <1>2, <1>5 DEF IInv, MainInv
<1>7. ThreadInv'
  BY <1>2, <1>4, <1>5 DEF IInv, ThreadInv
<1>8. AloneInv'
  BY <1>4, <1>5 DEF IInv, AloneInv
<1>9. CommandsFinish' /\ StoppedClockIsSafe'
  BY <1>2, <1>5 DEF IInv, CommandsFinish, StoppedClockIsSafe
<1>10. QED
  BY <1>6, <1>7, <1>8, <1>9 DEF IInv

(* Whoever was active before, and uses an object, does so while the        *)
(* program serves, or was active when main() returned.                     *)
LEMMA ThreadKeeps ==
  ASSUME IInv, ClockStep, Busy,
         ping' \in [Pings -> {"none", "work", "send"}],
         welcome' \in [Clients -> {"none", "compose", "send"}],
         worker' # "none" => thr_,
         NEW who \in {"worker", "ping", "welcome"}, NEW objects \in SUBSET Objects,
         Use(who, objects) \/ misused' = misused
  PROVE  IInv'
<1>1. UNCHANGED <<main, alive, command, do_run_, thr_, busy, contended>>
  BY DEF ClockStep, mainVars
<1>2. main = "serve" \/ busy
  BY DEF ClockStep, Ended, IInv, ThreadInv
<1>3. misused' \in {misused, misused \cup {who}}
  BY DEF Use
<1>4. ~busy => misused' = misused
  BY <1>2, UseIsSafe DEF IInv
<1>5. MainInv'
  BY <1>1 DEF IInv, MainInv
<1>6. ThreadInv'
  BY <1>1, <1>2 DEF IInv, ThreadInv
<1>7. AloneInv'
  BY <1>1 DEF IInv, AloneInv
<1>8. CommandsFinish' /\ StoppedClockIsSafe'
  BY <1>1, <1>3, <1>4 DEF IInv, CommandsFinish, StoppedClockIsSafe
<1>9. QED
  BY <1>5, <1>6, <1>7, <1>8 DEF IInv

(* The worker, the pings and the welcomes keep the invariant.              *)
LEMMA ClockKeeps ==
  ASSUME IInv,
         \/ WorkerTests \/ WorkerSkips
         \/ \E p \in Pings : OnTimePing(p) \/ PingThread(p)
         \/ \E c \in Clients : WelcomeThread(c)
  PROVE  IInv'
<1> USE DEF IInv, ThreadInv, Busy, Objects
<1>1. CASE WorkerTests \/ WorkerSkips
  <2>1. /\ ClockStep /\ worker # "none" /\ UNCHANGED <<ping, welcome, misused>>
    BY <1>1 DEF WorkerTests, WorkerSkips
  <2>2. Busy
    BY <2>1
  <2>3. QED
    BY <2>1, <2>2, ThreadKeeps
<1>2. ASSUME NEW p \in Pings, OnTimePing(p)
      PROVE  IInv'
  <2>1. /\ ClockStep /\ worker # "none" /\ welcome' = welcome
        /\ ping' = [ping EXCEPT ![p] = "work"]
        /\ Use("worker", {"timeref", "application"})
    BY <1>2 DEF OnTimePing
  <2>2. Busy
    BY <2>1
  <2>3. QED
    BY <2>1, <2>2, ThreadKeeps
<1>3. ASSUME NEW p \in Pings, PingThread(p)
      PROVE  IInv'
  <2>1. /\ ClockStep /\ ping[p] # "none" /\ UNCHANGED <<worker, welcome>>
        /\ ping' \in [Pings -> {"none", "work", "send"}]
        /\ \/ Use("ping", {"application", "databus"})
           \/ Use("ping", {"ioc"}) \/ misused' = misused
    BY <1>3 DEF PingThread, PingWorks, PingSends
  <2>2. Busy
    BY <2>1
  <2>3. QED
    BY <2>1, <2>2, ThreadKeeps
<1>4. ASSUME NEW c \in Clients, WelcomeThread(c)
      PROVE  IInv'
  <2>1. /\ ClockStep /\ welcome[c] # "none" /\ UNCHANGED <<worker, ping>>
        /\ welcome' \in [Clients -> {"none", "compose", "send"}]
        /\ \/ Use("welcome", {"application", "timeref"})
           \/ Use("welcome", {"ioc"}) \/ Use("welcome", {"ioc", "databus"})
    BY <1>4 DEF WelcomeThread, WelcomeComposes, WelcomeSends
  <2>2. Busy
    BY <2>1
  <2>3. QED
    BY <2>1, <2>2, ThreadKeeps
<1>5. QED
  BY <1>1, <1>2, <1>3, <1>4

(* Every step keeps the invariant.                                         *)
LEMMA InvStep == IInv /\ [Next]_vars => IInv'
<1> SUFFICES ASSUME IInv, [Next]_vars
             PROVE  IInv'
  OBVIOUS
<1>1. CASE Main
  BY <1>1, StartUpStep, ShutDownStep DEF Main
<1>2. CASE UNCHANGED vars
  BY <1>2 DEF vars, mainVars, threadVars, clockVars, netVars, history, IInv, MainInv,
              ThreadInv, Busy, AloneInv, CommandsFinish, StoppedClockIsSafe
<1>3. QED
  BY <1>1, <1>2, ListenerKeeps, CommandKeeps, ClockKeeps DEF Next

(* The invariant holds throughout.                                         *)
LEMMA Invariance == Spec => []IInv
BY InvInit, InvStep, PTL DEF Spec

(* A command finishes before anything it uses is destroyed, however many   *)
(* pings are in flight and commands overlap: Webserver::run joins the io   *)
(* threads, and each of them its command.                                  *)
THEOREM CommandsTheorem == Spec => []CommandsFinish
<1>1. IInv => CommandsFinish
  BY DEF IInv
<1>2. QED
  BY <1>1, Invariance, PTL

(* If neither the clock nor a ping nor a welcome is active when main()     *)
(* returns, and no commands have overlapped, nothing but ~Application uses *)
(* an object that has been destroyed, and the process does not terminate   *)
(* abnormally.                                                             *)
THEOREM StoppedClockTheorem == Spec => []StoppedClockIsSafe
<1>1. IInv => StoppedClockIsSafe
  BY DEF IInv
<1>2. QED
  BY <1>1, Invariance, PTL

-----------------------------------------------------------------------------
(* The log                                                                 *)

(* A key of main() has one entry, which holds the level last set; any      *)
(* other entry was set by a command, whose name is gone.                   *)
KeyInv ==
  /\ told \in [Channels -> Levels \cup {"never"}]
  /\ \A c \in Literals : Named(c) = {[key |-> c, freed |-> FALSE, level |-> told[c]]}
  /\ \A e \in map_ : e.key \in Channels /\ told[e.key] # "never"
  /\ inserting # {} => \E c \in Channels \ Literals :
       /\ told[c] # "never"
       /\ \E l \in Levels : inserting = {[key |-> c, freed |-> TRUE, level |-> l]}
  /\ undefined => \E c \in Channels \ Literals : told[c] # "never"

(* main() sets its keys first.                                             *)
LEMMA KeysInit == LogInit => KeyInv
<1> SUFFICES ASSUME LogInit
             PROVE  KeyInv
  OBVIOUS
<1>1. told \in [Channels -> Levels \cup {"never"}]
  BY DEF LogInit, Levels
<1>2. ASSUME NEW c \in Literals
      PROVE  Named(c) = {[key |-> c, freed |-> FALSE, level |-> told[c]]}
  <2>1. told[c] = "info" /\ map_ = [key : Literals, freed : {FALSE}, level : {"info"}]
    BY LiteralsAssumption DEF LogInit
  <2>2. ASSUME NEW e \in map_, e.key = c
        PROVE  e = [key |-> c, freed |-> FALSE, level |-> told[c]]
    BY <2>1, <2>2
  <2>3. [key |-> c, freed |-> FALSE, level |-> told[c]] \in map_
    BY <2>1
  <2>4. [key |-> c, freed |-> FALSE, level |-> told[c]].key = c
    OBVIOUS
  <2>5. QED
    BY ONLY <2>2, <2>3, <2>4 DEF Named
<1>3. \A e \in map_ : e.key \in Channels /\ told[e.key] # "never"
  BY LiteralsAssumption DEF LogInit
<1>4. QED
  BY <1>1, <1>2, <1>3 DEF KeyInv, LogInit

(* A command overwrites an entry of its channel or is about to insert one. *)
LEMMA ChannelStep ==
  ASSUME KeyInv, NEW s, NEW c \in Channels, SetChannelLoggingLevel(c, s)
  PROVE  KeyInv'
<1> DEFINE level == LevelFromString(s)
<1>1. level \in Levels /\ level # "never"
  BY DEF LevelFromString, Levels
<1> HIDE DEF level
<1>2. /\ told' = [told EXCEPT ![c] = level] /\ undefined' = undefined /\ inserting = {}
      /\ \/ \E e \in Named(c) :
              map_' = (map_ \ {e}) \cup {[e EXCEPT !.level = level]} /\ inserting' = inserting
         \/ /\ ~Found(c)
            /\ inserting' = {[key |-> c, freed |-> TRUE, level |-> level]}
            /\ map_' = map_
  BY DEF SetChannelLoggingLevel, LogCommand, level
<1>3. /\ told' \in [Channels -> Levels \cup {"never"}] /\ told'[c] = level
      /\ \A d \in Channels : d # c => told'[d] = told[d]
      /\ \A d \in Channels : told[d] # "never" => told'[d] # "never"
  BY <1>1, <1>2 DEF KeyInv
<1>4. undefined' => \E d \in Channels \ Literals : told'[d] # "never"
  BY <1>2, <1>3 DEF KeyInv
<1>5. CASE ~Found(c) /\ map_' = map_ /\ inserting' = {[key |-> c, freed |-> TRUE, level |-> level]}
  <2>1. c \notin Literals
    <3>1. SUFFICES ASSUME c \in Literals
                   PROVE  FALSE
      OBVIOUS
    <3>2. [key |-> c, freed |-> FALSE, level |-> told[c]] \in Named(c)
      BY <3>1 DEF KeyInv
    <3>3. Found(c)
      BY <3>2 DEF Found
    <3>4. QED
      BY <1>5, <3>3
  <2>2. \A d \in Literals : d # c /\ Named(d)' = Named(d) /\ told'[d] = told[d]
    BY <1>3, <1>5, <2>1, LiteralsAssumption DEF Named
  <2>3. \A d \in Literals : Named(d)' = {[key |-> d, freed |-> FALSE, level |-> told'[d]]}
    BY <2>2 DEF KeyInv
  <2>4. \A e \in map_' : e.key \in Channels /\ told'[e.key] # "never"
    BY <1>3, <1>5 DEF KeyInv
  <2>5. inserting' # {} => \E d \in Channels \ Literals :
          /\ told'[d] # "never"
          /\ \E l \in Levels : inserting' = {[key |-> d, freed |-> TRUE, level |-> l]}
    BY <1>1, <1>3, <1>5, <2>1
  <2>6. QED
    BY <1>3, <1>4, <2>3, <2>4, <2>5 DEF KeyInv
<1>6. ASSUME NEW e \in Named(c),
             map_' = (map_ \ {e}) \cup {[e EXCEPT !.level = level]}, inserting' = inserting
      PROVE  KeyInv'
  <2>1. e \in map_ /\ e.key = c
    BY DEF Named
  <2>2. CASE c \in Literals
    <3>1. Named(c) = {[key |-> c, freed |-> FALSE, level |-> told[c]]}
      BY <2>2 DEF KeyInv
    <3>2. e = [key |-> c, freed |-> FALSE, level |-> told[c]]
      BY <3>1
    <3>3. [e EXCEPT !.level = level] = [key |-> c, freed |-> FALSE, level |-> level]
      <4>1. e \in [key : {c}, freed : {FALSE}, level : {told[c]}]
        BY <3>2
      <4>2. [e EXCEPT !.level = level] \in [key : {c}, freed : {FALSE}, level : {level}]
        BY <4>1
      <4>3. ASSUME NEW f \in [key : {c}, freed : {FALSE}, level : {level}]
            PROVE  f = [key |-> c, freed |-> FALSE, level |-> level]
        OBVIOUS
      <4>4. QED
        BY ONLY <4>2, <4>3
    <3>4. \A f \in map_ : f.key = c => f = e
      BY <3>1, <3>2 DEF Named
    <3>5. Named(c)' = {[key |-> c, freed |-> FALSE, level |-> level]}
      <4>1. map_' = (map_ \ {e}) \cup {[key |-> c, freed |-> FALSE, level |-> level]}
        BY <1>6, <3>3
      <4>2. \A f \in map_ \ {e} : f.key # c
        BY <3>4
      <4>3. QED
        BY <4>1, <4>2 DEF Named
    <3>6. ASSUME NEW d \in Literals, d # c
          PROVE  Named(d)' = Named(d)
      BY <1>6, <2>1, <3>3, <3>6 DEF Named
    <3>7. \A f \in map_' : f.key \in Channels /\ told'[f.key] # "never"
      BY <1>1, <1>3, <1>6, <3>3 DEF KeyInv
    <3>8. QED
      BY <1>2, <1>3, <1>4, <1>6, <3>5, <3>6, <3>7, LiteralsAssumption DEF KeyInv
  <2>3. CASE c \notin Literals
    <3>1. [e EXCEPT !.level = level].key = c
      BY <2>1
    <3>2. ASSUME NEW d \in Literals
          PROVE  Named(d)' = Named(d)
      BY <1>6, <2>1, <2>3, <3>1 DEF Named
    <3>3. \A f \in map_' : f.key \in Channels /\ told'[f.key] # "never"
      BY <1>1, <1>3, <1>6, <3>1 DEF KeyInv
    <3>4. QED
      BY <1>2, <1>3, <1>4, <1>6, <2>3, <3>2, <3>3, LiteralsAssumption DEF KeyInv
  <2>4. QED
    BY <2>2, <2>3
<1>7. QED
  BY <1>2, <1>5, <1>6

(* Every command to the log keeps the invariant.                           *)
LEMMA KeysStep == KeyInv /\ [LogNext]_logVars => KeyInv'
<1> SUFFICES ASSUME KeyInv, [LogNext]_logVars
             PROVE  KeyInv'
  OBVIOUS
<1>1. ASSUME NEW s, SetGlobalLoggingLevel(s)
      PROVE  KeyInv'
  BY <1>1 DEF SetGlobalLoggingLevel, KeyInv, Named
<1>2. CASE Inserted
  <2>1. PICK c \in Channels \ Literals, l \in Levels :
          told[c] # "never" /\ inserting = {[key |-> c, freed |-> TRUE, level |-> l]}
    BY <1>2 DEF Inserted, KeyInv
  <2>2. map_' = map_ \cup {[key |-> c, freed |-> TRUE, level |-> l]}
        /\ inserting' = {} /\ UNCHANGED <<told, undefined>>
    BY <1>2, <2>1 DEF Inserted
  <2>3. \A d \in Literals : Named(d)' = Named(d)
    BY <2>2 DEF Named
  <2>4. QED
    BY <2>1, <2>2, <2>3 DEF KeyInv
<1>3. CASE LogLine
  BY <1>3 DEF LogLine, KeyInv, Named
<1>4. CASE UNCHANGED logVars
  BY <1>4 DEF logVars, KeyInv, Named
<1>5. QED
  <2>1. ASSUME NEW s \in Settings, NEW c \in Channels, SetChannelLoggingLevel(c, s)
        PROVE  KeyInv'
    BY <2>1, ChannelStep
  <2>2. ASSUME NEW s \in Settings, SetGlobalLoggingLevel(s)
        PROVE  KeyInv'
    BY <1>1, <2>2
  <2>3. QED
    BY <1>2, <1>3, <1>4, <2>1, <2>2 DEF LogNext

(* The channels of main() keep to their last level, a channel that was     *)
(* never set to the global one, and only a channel that is not main()'s    *)
(* puts the map at risk: whatever commands set, and whoever logs.          *)
THEOREM ChannelsTheorem == LogInit /\ [][LogNext]_logVars => []ChannelsObey
<1>1. KeyInv => ChannelsObey
  <2> SUFFICES ASSUME KeyInv
               PROVE  ChannelsObey
    OBVIOUS
  <2>1. ASSUME NEW c \in Literals
        PROVE  Effective(c) = {told[c]}
    <3>1. Named(c) = {[key |-> c, freed |-> FALSE, level |-> told[c]]}
      BY DEF KeyInv
    <3>2. Found(c)
      BY <3>1 DEF Found
    <3>3. QED
      BY <3>1, <3>2 DEF Effective
  <2>2. ASSUME NEW c \in Channels, told[c] = "never"
        PROVE  Effective(c) = {global_loglevel}
    <3>1. Named(c) = {}
      BY <2>2 DEF KeyInv, Named
    <3>2. QED
      BY <3>1 DEF Effective, Found
  <2>3. QED
    BY <2>1, <2>2 DEF ChannelsObey, KeyInv
<1>2. QED
  BY <1>1, KeysInit, KeysStep, PTL

=============================================================================
