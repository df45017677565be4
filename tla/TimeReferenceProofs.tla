------------------------- MODULE TimeReferenceProofs -------------------------
(***************************************************************************)
(* Proofs about TimeReference, for any number of sessions, operators and   *)
(* workers and any values of the bounds.                                   *)
(***************************************************************************)
EXTENDS TimeReference, TLAPS

USE OperatorsAssumption, NoThreadAssumption, TimeAssumption,
    SpeedAssumption, PausesAssumption, NoPingAssumption

Commands == {"start", "stop", "pause", "resume", "speed"}

(* What receiving a command does to cmd and contention.                    *)
LEMMA ReceiveType ==
  ASSUME TypeOK, NEW s \in Sessions, NEW c \in Commands, Receive(s, c)
  PROVE  /\ pc[s] = "idle"
         /\ cmd' = [cmd EXCEPT ![s] = c]
         /\ cmd' \in [Sessions -> {"none"} \cup Commands]
         /\ contention' \in 0..3
         /\ contention' >= contention
         /\ contention' >= Overlap(s, c)
<1>1. Overlap(s, c) \in 0..3
  BY DEF Overlap
<1>2. contention' \in 0..3 /\ contention' >= contention /\ contention' >= Overlap(s, c)
  BY <1>1 DEF Receive, TypeOK
<1>3. QED
  BY <1>2 DEF Receive, TypeOK, Commands

(* The initial state is well typed, and every step keeps it so.            *)
LEMMA TypeInit == Init => TypeOK
<1> SUFFICES ASSUME Init PROVE TypeOK
  OBVIOUS
<1> USE DEF Init
<1>1. do_run_ \in BOOLEAN /\ pause_ \in BOOLEAN /\ crashed \in BOOLEAN
  OBVIOUS
<1>2. last \in Nat \cup {NoTime} /\ ahead \in Nat /\ pauses \in Nat /\ spent \in Nat
  OBVIOUS
<1>3. contention \in 0..3 /\ speed_ \in Speeds /\ sim_time_ \in Nat
  OBVIOUS
<1>4. thr_ \in Workers \cup {NoThread}
  OBVIOUS
<1>5. QED BY <1>1, <1>2, <1>3, <1>4 DEF TypeOK, PCs

(* Every step keeps the state well typed.                                  *)
LEMMA TypeStep == TypeOK /\ [Next]_vars => TypeOK'
<1> SUFFICES ASSUME TypeOK, [Next]_vars
             PROVE  TypeOK'
  OBVIOUS
<1> USE DEF TypeOK, PCs, session, history
<1>1. ASSUME NEW s \in Sessions, Request(s)
      PROVE  TypeOK'
  <2> DEFINE Received(next) ==
        /\ cmd' \in [Sessions -> {"none"} \cup Commands]
        /\ contention' \in 0..3
        /\ pc' = [pc EXCEPT ![s] = next]
        /\ reply' = reply
  <2>a. ASSUME NEW c \in Commands, Receive(s, c)
        PROVE  cmd' \in [Sessions -> {"none"} \cup Commands] /\ contention' \in 0..3
    <3> HIDE DEF TypeOK
    <3>1. QED
      BY <2>a, ReceiveType
  <2>b. ASSUME NEW next \in PCs \ {"broadcast"}, Received(next)
        PROVE  /\ pc' \in [Sessions -> PCs]
               /\ cmd' \in [Sessions -> {"none"} \cup Commands]
               /\ contention' \in 0..3
               /\ \A t \in Sessions : pc'[t] = "broadcast" => reply'[t] # "none"
    <3>1. pc' \in [Sessions -> PCs] /\ \A t \in Sessions : pc'[t] = "broadcast" => pc[t] = "broadcast"
      BY <2>b
    <3>2. QED
      BY <2>b, <3>1
  <2> HIDE DEF Received
  <2> USE DEF Commands
  <2>1. CASE Command(s)
    <3>1. Received("joinable")
      BY <2>1, <2>a DEF Command, Received
    <3>2. QED
      BY <2>1, <2>b, <3>1 DEF Command
  <2>2. CASE PauseCommand(s)
    <3>1. Received("status")
      BY <2>2, <2>a DEF PauseCommand, Received
    <3>2. QED
      BY <2>2, <2>b, <3>1 DEF PauseCommand
  <2>3. CASE ResumeCommand(s)
    <3>1. Received("status")
      BY <2>3, <2>a DEF ResumeCommand, Received
    <3>2. QED
      BY <2>3, <2>b, <3>1 DEF ResumeCommand
  <2>4. CASE SpeedCommand(s)
    <3>1. Received("status")
      BY <2>4, <2>a DEF SpeedCommand, Received
    <3>2. QED
      BY <2>4, <2>b, <3>1 DEF SpeedCommand
  <2>5. QED
    BY <1>1, <2>1, <2>2, <2>3, <2>4 DEF Request
<1>2. ASSUME NEW s \in Sessions, Handler(s)
      PROVE  TypeOK'
  <2>1. CASE Joinable(s)
    BY <2>1 DEF Joinable, AfterJoin
  <2>2. CASE JoinBegin(s)
    BY <2>2 DEF JoinBegin, CanJoin
  <2>3. CASE JoinThrows(s)
    BY <2>3 DEF JoinThrows
  <2>4. CASE JoinReturns(s)
    BY <2>4, ZenonT(60) DEF JoinReturns
  <2>5. CASE JoinClears(s)
    BY <2>5 DEF JoinClears, AfterJoin
  <2>6. CASE ComposeStatus(s)
    <3>1. Status \in {"stopped", "paused", "running"}
      BY DEF Status
    <3>2. reply' = [reply EXCEPT ![s] = Status] /\ pc' = [pc EXCEPT ![s] = "broadcast"]
      BY <2>6 DEF ComposeStatus
    <3>3. reply'[s] = Status /\ \A t \in Sessions \ {s} : reply'[t] = reply[t] /\ pc'[t] = pc[t]
      BY <3>2
    <3>4. \A t \in Sessions : pc'[t] = "broadcast" => reply'[t] # "none"
      BY <3>1, <3>3
    <3>5. /\ reply' \in [Sessions -> {"none", "stopped", "paused", "running"}]
          /\ pc' \in [Sessions -> PCs]
      BY <3>1, <3>2
    <3>6. QED
      BY <2>6, <3>4, <3>5 DEF ComposeStatus
  <2>7. CASE Broadcast(s)
    <3>1. /\ display' \in {"stopped", "paused", "running"}
          /\ reply' = [reply EXCEPT ![s] = "none"]
          /\ pc' \in [Sessions -> PCs]
          /\ cmd' \in [Sessions -> {"none"} \cup Commands]
          /\ call' \in [Sessions -> {"none", "stop", "start"}]
      BY <2>7 DEF Broadcast, Commands
    <3>2. pc'[s] # "broadcast" /\ \A t \in Sessions \ {s} : pc'[t] = pc[t]
      BY <2>7 DEF Broadcast
    <3>3. QED
      BY <2>7, <3>1, <3>2 DEF Broadcast, Commands
  <2>8. CASE EnterStart(s)
    BY <2>8, ZenonT(60) DEF EnterStart
  <2>9. CASE Unpause(s)
    BY <2>9 DEF Unpause
  <2>10. CASE Arm(s)
    BY <2>10 DEF Arm
  <2>11. CASE Spawn(s)
    BY <2>11 DEF Spawn
  <2>12. CASE Assign(s)
    BY <2>12 DEF Assign
  <2>13. QED
    BY <1>2, <2>1, <2>2, <2>3, <2>4, <2>5, <2>6, <2>7, <2>8, <2>9, <2>10,
       <2>11, <2>12
       DEF Handler
<1>3. ASSUME NEW w \in Workers, Worker(w)
      PROVE  TypeOK'
  <2> USE DEF Work
  <2>1. CASE SetClock(w)
    BY <2>1 DEF SetClock
  <2>2. CASE WhileDoRun(w) \/ TestPing(w) \/ TestAdvance(w)
    BY <2>2 DEF WhileDoRun, TestPing, TestAdvance
  <2>3. CASE CallBack(w)
    BY <2>3 DEF CallBack
  <2>4. CASE AdvanceTime(w)
    BY <2>4 DEF AdvanceTime
  <2>5. QED
    BY <1>3, <2>1, <2>2, <2>3, <2>4 DEF Worker
<1>4. CASE UNCHANGED vars
  BY <1>4 DEF vars
<1>5. QED
  BY <1>1, <1>2, <1>3, <1>4 DEF Next, Terminated

(* Every variable has its type in every reachable state.                   *)
THEOREM TypeCorrect == Spec => []TypeOK
<1>1. QED
  BY TypeInit, TypeStep, PTL DEF Spec

-----------------------------------------------------------------------------
(* The inductive invariant                                                 *)

Starting == {"unpause", "arm", "spawn", "assign"}

(* Which command and which method a handler is in at each of its steps.    *)
HandlerInv ==
  \A s \in Sessions :
    /\ pc[s] = "idle" <=> cmd[s] = "none"
    /\ Engaged(s) <=> call[s] # "none"
    /\ pc[s] \in {"joinable", "join", "wait", "clear", "start"} \cup Starting
         => Engaged(s)
    /\ call[s] = "start" => cmd[s] = "start"
    /\ pc[s] \in Starting => call[s] = "start"
    /\ pc[s] = "start" => cmd[s] = "start" /\ call[s] = "stop"

(* Only a second start() can make thr_ joinable behind the back of one     *)
(* that has found it not to be.                                            *)
StartInv ==
  contention < 3 =>
    /\ \A s, t \in Sessions : cmd[s] = "start" /\ cmd[t] = "start" => s = t
    /\ \A s \in Sessions : pc[s] \in Starting => thr_ = NoThread
    /\ ~crashed

(* What do_run_ and thr_ are at each step of the one start or stop that is *)
(* in progress.                                                            *)
StepInv(s) ==
  /\ pc[s] \in {"joinable", "join", "wait", "clear", "unpause", "arm"} => ~do_run_
  /\ pc[s] \in {"spawn", "assign"} => do_run_
  /\ pc[s] = "joinable" /\ call[s] = "start" => thr_ = NoThread
  /\ pc[s] \in {"join", "wait", "clear"} => thr_ # NoThread /\ call[s] = "stop"
  /\ pc[s] \in {"wait", "clear"} => obj[s] = thr_
  /\ pc[s] = "clear" => \A w \in Workers : wpc[w] = "free"
  /\ pc[s] \in Starting => thr_ = NoThread
  /\ pc[s] = "assign" => obj[s] \in Workers /\ wpc[obj[s]] # "free"
  /\ pc[s] \in {"status", "broadcast", "start"} /\ call[s] = "stop"
       => ~do_run_ /\ thr_ = NoThread
  /\ pc[s] \in {"status", "broadcast"} /\ call[s] = "start"
       => do_run_ /\ thr_ # NoThread

(* The thread handle and the workers correspond to each other.             *)
HandleInv ==
  contention < 2 =>
    /\ \A s, t \in Sessions : Engaged(s) /\ Engaged(t) => s = t
    /\ \A s \in Sessions : StepInv(s)
    /\ \A w \in Workers : wpc[w] # "free" =>
         thr_ = w \/ \E s \in Sessions : pc[s] = "assign" /\ obj[s] = w
    /\ thr_ # NoThread =>
         wpc[thr_] # "free" \/ \E s \in Sessions : pc[s] = "clear"
    /\ \A w \in Workers : wpc[w] = "done" => ~do_run_
    /\ (\A s \in Sessions : ~Engaged(s)) => (do_run_ <=> thr_ # NoThread)

(* The unit of work the worker may still do under a pause.                 *)
SpentInv ==
  /\ ~pause_ => spent = 0
  /\ contention < 2 =>
       /\ spent <= 1
       /\ \A w \in Workers : pause_ /\ wpc[w] \in {"ping", "advance"} => spent = 0

(* One command at a time: what is about to be told is the status.          *)
DisplayInv ==
  contention < 1 =>
    /\ \A s, t \in Sessions : pc[s] # "idle" /\ pc[t] # "idle" => s = t
    /\ \A s \in Sessions : pc[s] = "broadcast" => reply[s] = Status
    /\ Idle => display = Status

(* What the degree of contention says of the other sessions when a command *)
(* is received.                                                            *)
LEMMA ReceiveAlone ==
  ASSUME TypeOK, NEW s \in Sessions, NEW c \in Commands, Receive(s, c)
  PROVE  /\ c = "start" /\ contention' < 3
              => \A t \in Sessions \ {s} : cmd[t] # "start"
         /\ c \in {"start", "stop"} /\ contention' < 2
              => \A t \in Sessions \ {s} : ~Engaged(t)
         /\ contention' < 1 => \A t \in Sessions \ {s} : cmd[t] = "none"
<1> DEFINE others == {cmd[t] : t \in Sessions \ {s}}
<1>1. contention' >= Overlap(s, c) /\ contention' \in 0..3
  BY ReceiveType
<1>2. \A t \in Sessions \ {s} : cmd[t] \in others
  OBVIOUS
<1> HIDE DEF others
<1>3. Overlap(s, c) =
        IF c = "start" /\ "start" \in others THEN 3
        ELSE IF c \in {"start", "stop"} /\ others \cap {"start", "stop"} # {} THEN 2
        ELSE IF others \ {"none"} # {} THEN 1 ELSE 0
  BY DEF Overlap, others
<1>4. c = "start" /\ contention' < 3 => "start" \notin others
  BY <1>1, <1>3
<1>5. c \in {"start", "stop"} /\ contention' < 2 => others \cap {"start", "stop"} = {}
  BY <1>1, <1>3
<1>6. contention' < 1 => others \ {"none"} = {}
  BY <1>1, <1>3
<1>7. QED
  BY <1>2, <1>4, <1>5, <1>6 DEF Engaged

(* No step but a command's receipt changes the degree of contention, and   *)
(* none lowers it.                                                         *)
LEMMA ContentionGrows ==
  ASSUME TypeOK, [Next]_vars
  PROVE  contention' >= contention /\ contention' \in 0..3 /\ contention \in 0..3
<1>1. ASSUME NEW s \in Sessions, Request(s)
      PROVE  contention' >= contention /\ contention' \in 0..3
  BY <1>1, ReceiveType
     DEF Request, Command, PauseCommand, ResumeCommand, SpeedCommand, Commands
<1>2. ASSUME NEW s \in Sessions, Handler(s)
      PROVE  contention' = contention
  BY <1>2 DEF Handler, Joinable, JoinBegin, JoinThrows, JoinReturns, JoinClears,
              ComposeStatus, Broadcast, EnterStart, Unpause, Arm, Spawn, Assign
<1>3. ASSUME NEW w \in Workers, Worker(w)
      PROVE  contention' = contention
  BY <1>3 DEF Worker, SetClock, WhileDoRun, TestPing, CallBack, TestAdvance,
              AdvanceTime, Work
<1>4. QED
  BY <1>1, <1>2, <1>3 DEF Next, Terminated, vars, TypeOK

(* Every step keeps the handlers in the commands and methods their steps   *)
(* belong to.                                                              *)
LEMMA HandlerStep ==
  ASSUME TypeOK, HandlerInv, [Next]_vars
  PROVE  HandlerInv'
<1> USE DEF TypeOK, HandlerInv, Engaged, Starting
<1>1. ASSUME NEW s \in Sessions, Request(s)
      PROVE  HandlerInv'
  <2> DEFINE Received(c) ==
        /\ pc[s] = "idle"
        /\ cmd' = [cmd EXCEPT ![s] = c]
        /\ c \in {"start", "stop"} =>
             call' = [call EXCEPT ![s] = "stop"] /\ pc' = [pc EXCEPT ![s] = "joinable"]
        /\ c \notin {"start", "stop"} =>
             call' = call /\ pc' = [pc EXCEPT ![s] = "status"]
  <2>1. \E c \in Commands : Received(c)
    BY <1>1 DEF Request, Command, PauseCommand, ResumeCommand, SpeedCommand,
                Receive, Commands
  <2>2. QED
    BY <2>1 DEF Commands
<1>2. ASSUME NEW s \in Sessions, Handler(s)
      PROVE  HandlerInv'
  <2>1. CASE Joinable(s)
    BY <2>1 DEF Joinable, AfterJoin
  <2>2. CASE JoinBegin(s)
    BY <2>2 DEF JoinBegin, CanJoin
  <2>3. CASE JoinThrows(s)
    BY <2>3 DEF JoinThrows
  <2>4. CASE JoinReturns(s)
    BY <2>4 DEF JoinReturns
  <2>5. CASE JoinClears(s)
    BY <2>5 DEF JoinClears, AfterJoin
  <2>6. CASE ComposeStatus(s)
    BY <2>6 DEF ComposeStatus
  <2>7. CASE Broadcast(s)
    BY <2>7 DEF Broadcast
  <2>8. CASE EnterStart(s)
    BY <2>8 DEF EnterStart
  <2>9. CASE Unpause(s)
    BY <2>9 DEF Unpause
  <2>10. CASE Arm(s)
    BY <2>10 DEF Arm
  <2>11. CASE Spawn(s)
    BY <2>11 DEF Spawn
  <2>12. CASE Assign(s)
    BY <2>12 DEF Assign
  <2>13. QED
    BY <1>2, <2>1, <2>2, <2>3, <2>4, <2>5, <2>6, <2>7, <2>8, <2>9, <2>10, <2>11, <2>12 DEF Handler
<1>3. ASSUME NEW w \in Workers, Worker(w)
      PROVE  UNCHANGED <<pc, cmd, call>>
  BY <1>3 DEF Worker, SetClock, WhileDoRun, TestPing, CallBack, TestAdvance,
              AdvanceTime, Work, session
<1>4. QED
  BY <1>1, <1>2, <1>3 DEF Next, Terminated, vars, session

(* As long as no two start commands overlap, a start() in progress keeps   *)
(* thr_ empty until it assigns the new thread.                             *)
LEMMA StartStep ==
  ASSUME TypeOK, HandlerInv, StartInv, [Next]_vars
  PROVE  StartInv'
<1> USE DEF TypeOK, HandlerInv, StartInv, Engaged, Starting
<1>1. ASSUME NEW s \in Sessions, Request(s)
      PROVE  StartInv'
  <2>1. /\ UNCHANGED <<thr_, crashed>>
        /\ \A t \in Sessions : pc'[t] \in Starting => pc[t] \in Starting
        /\ \A t \in Sessions \ {s} : cmd'[t] = cmd[t]
    BY <1>1 DEF Request, Command, PauseCommand, ResumeCommand, SpeedCommand,
                Receive, history
  <2>2. cmd'[s] = "start" /\ contention' < 3
          => \A t \in Sessions \ {s} : cmd[t] # "start"
    BY <1>1, ReceiveAlone
       DEF Request, Command, PauseCommand, ResumeCommand, SpeedCommand, Commands,
           Receive
  <2>3. contention' < 3 => contention < 3
    BY ContentionGrows
  <2>4. QED
    BY <2>1, <2>2, <2>3
<1>2. ASSUME NEW s \in Sessions, Handler(s)
      PROVE  StartInv'
  <2>1. CASE Joinable(s)
    BY <2>1 DEF Joinable, AfterJoin
  <2>2. CASE JoinBegin(s)
    BY <2>2 DEF JoinBegin, CanJoin
  <2>3. CASE JoinThrows(s)
    BY <2>3 DEF JoinThrows
  <2>4. CASE JoinReturns(s)
    BY <2>4 DEF JoinReturns
  <2>5. CASE JoinClears(s)
    BY <2>5 DEF JoinClears, AfterJoin
  <2>6. CASE ComposeStatus(s)
    BY <2>6 DEF ComposeStatus
  <2>7. CASE Broadcast(s)
    BY <2>7 DEF Broadcast
  <2>8. CASE EnterStart(s)
    BY <2>8 DEF EnterStart
  <2>9. CASE Unpause(s)
    BY <2>9 DEF Unpause
  <2>10. CASE Arm(s)
    BY <2>10 DEF Arm
  <2>11. CASE Spawn(s)
    BY <2>11 DEF Spawn
  <2>12. CASE Assign(s)
    BY <2>12 DEF Assign
  <2>13. QED
    BY <1>2, <2>1, <2>2, <2>3, <2>4, <2>5, <2>6, <2>7, <2>8, <2>9, <2>10, <2>11, <2>12 DEF Handler
<1>3. ASSUME NEW w \in Workers, Worker(w)
      PROVE  UNCHANGED <<pc, cmd, thr_, crashed, contention>>
  BY <1>3 DEF Worker, SetClock, WhileDoRun, TestPing, CallBack, TestAdvance,
              AdvanceTime, Work, session
<1>4. QED
  BY <1>1, <1>2, <1>3 DEF Next, Terminated, vars, session

(* With start and stop commands one at a time, the thread handle and the   *)
(* workers stay in correspondence.                                         *)
LEMMA HandleStep ==
  ASSUME TypeOK, HandlerInv, HandleInv, [Next]_vars
  PROVE  HandleInv'
<1> SUFFICES ASSUME contention' < 2
             PROVE  HandleInv'
  BY DEF HandleInv
<1>1. contention < 2
  BY ContentionGrows
<1>2. [Next]_vars => HandleInv'
  <2> USE <1>1 DEF TypeOK, HandlerInv, HandleInv, StepInv, Engaged, Starting
  <2>1. ASSUME NEW s \in Sessions, Request(s)
        PROVE  HandleInv'
    <3>1. CASE Command(s)
      <4>1. \A t \in Sessions \ {s} : ~Engaged(t)
        BY <3>1, ReceiveAlone DEF Command, Commands
      <4>2. QED
        BY <3>1, <4>1 DEF Command, Receive
    <3>2. CASE PauseCommand(s)
      BY <3>2 DEF PauseCommand, Receive
    <3>3. CASE ResumeCommand(s)
      BY <3>3 DEF ResumeCommand, Receive
    <3>4. CASE SpeedCommand(s)
      BY <3>4, SMTT(60) DEF SpeedCommand, Receive
    <3>5. QED
      BY <2>1, <3>1, <3>2, <3>3, <3>4 DEF Request
  <2>2. ASSUME NEW s \in Sessions, Handler(s)
        PROVE  HandleInv'
    <3>1. CASE Joinable(s)
      BY <3>1 DEF Joinable, AfterJoin
    <3>2. CASE JoinBegin(s)
      BY <3>2 DEF JoinBegin, CanJoin
    <3>3. CASE JoinThrows(s)
      <4>1. thr_ # NoThread /\ pc[s] = "join" /\ \A t \in Sessions \ {s} : ~Engaged(t)
        BY <3>3 DEF JoinThrows
      <4>2. wpc[thr_] # "free" /\ ~BeingJoined(thr_)
        BY <4>1 DEF BeingJoined
      <4>3. QED
        BY <3>3, <4>1, <4>2 DEF JoinThrows, CanJoin
    <3>4. CASE JoinReturns(s)
      BY <3>4 DEF JoinReturns
    <3>5. CASE JoinClears(s)
      BY <3>5 DEF JoinClears, AfterJoin
    <3>6. CASE ComposeStatus(s)
      BY <3>6 DEF ComposeStatus
    <3>7. CASE Broadcast(s)
      BY <3>7 DEF Broadcast
    <3>8. CASE EnterStart(s)
      BY <3>8 DEF EnterStart
    <3>9. CASE Unpause(s)
      BY <3>9 DEF Unpause
    <3>10. CASE Arm(s)
      BY <3>10 DEF Arm
    <3>11. CASE Spawn(s)
      BY <3>11 DEF Spawn
    <3>12. CASE Assign(s)
      BY <3>12 DEF Assign
    <3>13. QED
      BY <2>2, <3>1, <3>2, <3>3, <3>4, <3>5, <3>6, <3>7, <3>8, <3>9, <3>10, <3>11, <3>12 DEF Handler
  <2>3. ASSUME NEW w \in Workers, Worker(w)
        PROVE  HandleInv'
    <3>1. /\ wpc[w] # "free" /\ wpc[w] # "done"
          /\ \E to \in {"loop", "done", "test_ping", "ping", "sleep", "advance"} :
               /\ wpc' = [wpc EXCEPT ![w] = to]
               /\ to = "done" => ~do_run_
      BY <2>3 DEF Worker, SetClock, WhileDoRun, TestPing, CallBack, TestAdvance,
                  AdvanceTime, Work
    <3>2. UNCHANGED <<do_run_, thr_, pc, cmd, call, obj>>
      BY <2>3 DEF Worker, SetClock, WhileDoRun, TestPing, CallBack, TestAdvance,
                  AdvanceTime, Work, session
    <3>3. QED
      BY <3>1, <3>2
  <2>4. CASE UNCHANGED vars
    BY <2>4 DEF vars, session
  <2>5. QED
    BY <2>1, <2>2, <2>3, <2>4 DEF Next, Terminated
<1>3. QED
  BY <1>2

(* With start and stop commands one at a time there is one worker at most. *)
LEMMA OneWorkerFollows ==
  ASSUME TypeOK, HandlerInv, HandleInv
  PROVE  OneWorker
<1> SUFFICES ASSUME contention < 2, NEW v \in Workers, NEW w \in Workers,
                    wpc[v] # "free", wpc[w] # "free"
             PROVE  v = w
  BY DEF OneWorker
<1> USE DEF HandleInv, HandlerInv, StepInv, Engaged, Starting
<1>1. CASE \E s \in Sessions : pc[s] = "assign"
  <2>1. thr_ = NoThread
    BY <1>1
  <2>2. \A x \in Workers : wpc[x] # "free" => \E s \in Sessions : pc[s] = "assign" /\ obj[s] = x
    BY <2>1
  <2>3. \A s, t \in Sessions : pc[s] = "assign" /\ pc[t] = "assign" => s = t
    OBVIOUS
  <2>4. QED
    BY <2>2, <2>3
<1>2. CASE ~ \E s \in Sessions : pc[s] = "assign"
  BY <1>2
<1>3. QED
  BY <1>1, <1>2

(* That correspondence gives the status its meaning between start and stop *)
(* commands.                                                               *)
LEMMA StatusFollows ==
  ASSUME TypeOK, HandlerInv, HandleInv
  PROVE  StatusTellsTheTruth
<1> SUFFICES ASSUME contention < 2, \A s \in Sessions : ~Engaged(s)
             PROVE  /\ ~do_run_ => \A w \in Workers : wpc[w] = "free"
                    /\ do_run_  => \E w \in Workers : Live(w) /\ thr_ = w
  BY DEF StatusTellsTheTruth
<1>1. \A s \in Sessions : pc[s] # "assign" /\ pc[s] # "clear"
  BY DEF HandlerInv, Starting
<1>2. QED
  BY <1>1 DEF HandleInv, TypeOK, Live

(* A pause leaves the one worker at most the unit of work it had already   *)
(* decided on.                                                             *)
LEMMA SpentStep ==
  ASSUME TypeOK, HandlerInv, HandleInv, SpentInv, [Next]_vars
  PROVE  SpentInv'
<1> USE DEF TypeOK, SpentInv
<1>1. contention' < 2 => contention < 2
  BY ContentionGrows
<1>2. ASSUME NEW s \in Sessions, Request(s)
      PROVE  SpentInv'
  BY <1>1, <1>2 DEF Request, Command, PauseCommand, ResumeCommand, SpeedCommand,
                    history
<1>3. ASSUME NEW s \in Sessions, Handler(s)
      PROVE  SpentInv'
  <2>1. CASE Unpause(s)
    BY <1>1, <2>1 DEF Unpause
  <2>2. CASE ~Unpause(s)
    <3>1. /\ UNCHANGED <<pause_, spent>>
          /\ \A w \in Workers : wpc'[w] \in {"ping", "advance"} => wpc'[w] = wpc[w]
      BY <1>3, <2>2
         DEF Handler, Joinable, JoinBegin, JoinThrows, JoinReturns, JoinClears,
             ComposeStatus, Broadcast, EnterStart, Arm, Spawn, Assign, history
    <3>2. QED
      BY <1>1, <3>1
  <2>3. QED
    BY <2>1, <2>2
<1>4. ASSUME NEW w \in Workers, Worker(w)
      PROVE  SpentInv'
  <2>1. contention < 2 /\ wpc[w] # "free" => \A v \in Workers \ {w} : wpc[v] = "free"
    BY OneWorkerFollows DEF OneWorker
  <2>2. wpc[w] # "free"
    BY <1>4 DEF Worker, SetClock, WhileDoRun, TestPing, CallBack, TestAdvance,
                AdvanceTime, Work
  <2> USE <1>1, <2>1, <2>2 DEF Work
  <2>3. CASE SetClock(w) \/ WhileDoRun(w)
    BY <2>3 DEF SetClock, WhileDoRun, history
  <2>4. CASE TestPing(w) \/ TestAdvance(w)
    BY <2>4 DEF TestPing, TestAdvance, history
  <2>5. CASE CallBack(w)
    BY <2>5 DEF CallBack
  <2>6. CASE AdvanceTime(w)
    BY <2>6 DEF AdvanceTime
  <2>7. QED
    BY <1>4, <2>3, <2>4, <2>5, <2>6 DEF Worker
<1>5. QED
  BY <1>2, <1>3, <1>4 DEF Next, Terminated, vars, history

IInv == TypeOK /\ HandlerInv /\ StartInv /\ HandleInv /\ SpentInv

(* The conjunction of the parts is inductive, so it holds in every         *)
(* reachable state.                                                        *)
LEMMA Inductive == Spec => []IInv
<1>1. Init => IInv
  BY TypeInit DEF Init, IInv, HandlerInv, StartInv, HandleInv, StepInv, SpentInv,
         Engaged, Starting
<1>2. IInv /\ [Next]_vars => IInv'
  BY TypeStep, HandlerStep, StartStep, HandleStep, SpentStep DEF IInv
<1>3. QED
  BY <1>1, <1>2, PTL DEF Spec

(* Overwriting a joinable thread handle takes two start commands at once.  *)
THEOREM TerminateTheorem == Spec => []TerminateNeedsTwoStarts
<1>1. IInv => TerminateNeedsTwoStarts
  BY DEF IInv, StartInv, TerminateNeedsTwoStarts
<1>2. QED
  BY <1>1, Inductive, PTL

(* One start or stop at a time leaves one worker at most.                  *)
THEOREM OneWorkerTheorem == Spec => []OneWorker
<1>1. IInv => OneWorker
  BY OneWorkerFollows DEF IInv
<1>2. QED
  BY <1>1, Inductive, PTL

(* Between start and stop commands, the status is that of the worker.      *)
THEOREM StatusTheorem == Spec => []StatusTellsTheTruth
<1>1. IInv => StatusTellsTheTruth
  BY StatusFollows DEF IInv
<1>2. QED
  BY <1>1, Inductive, PTL

(* A pause lets one step of the worker pass at most.                       *)
THEOREM PauseTheorem == Spec => []PauseTakesHold
<1>1. IInv => PauseTakesHold
  BY DEF IInv, SpentInv, PauseTakesHold
<1>2. QED
  BY <1>1, Inductive, PTL


-----------------------------------------------------------------------------
(* What the clients are told                                               *)

(* Commands one at a time keep the reply being composed, and then the      *)
(* display, equal to the status.                                           *)
LEMMA DisplayStep ==
  ASSUME TypeOK, HandlerInv, HandleInv, DisplayInv, [Next]_vars
  PROVE  DisplayInv'
<1> SUFFICES ASSUME contention' < 1
             PROVE  DisplayInv'
  BY DEF DisplayInv
<1>1. contention < 1
  BY ContentionGrows
<1>2. [Next]_vars => DisplayInv'
  <2> USE <1>1 DEF TypeOK, HandlerInv, DisplayInv, Idle
  <2>1. ASSUME NEW s \in Sessions, Request(s)
        PROVE  DisplayInv'
    <3>1. \A t \in Sessions \ {s} : pc[t] = "idle"
      BY <2>1, ReceiveAlone
         DEF Request, Command, PauseCommand, ResumeCommand, SpeedCommand, Commands
    <3>2. \/ pc' = [pc EXCEPT ![s] = "joinable"]
          \/ pc' = [pc EXCEPT ![s] = "status"]
      BY <2>1 DEF Request, Command, PauseCommand, ResumeCommand, SpeedCommand
    <3>3. \A t \in Sessions : pc'[t] # "broadcast" /\ (t # s => pc'[t] = "idle")
      BY <3>1, <3>2
    <3>4. pc'[s] # "idle"
      BY <3>2
    <3>5. QED
      BY <3>3, <3>4
  <2>2. ASSUME NEW s \in Sessions, Handler(s)
        PROVE  DisplayInv'
    <3>1. pc[s] # "idle" /\ \A t \in Sessions \ {s} : pc[t] = "idle" /\ pc'[t] = "idle"
      BY <2>2 DEF Handler, Joinable, JoinBegin, JoinThrows, JoinReturns, JoinClears,
                  ComposeStatus, Broadcast, EnterStart, Unpause, Arm, Spawn, Assign
    <3>2. CASE ComposeStatus(s)
      <4>1. reply'[s] = Status /\ Status' = Status /\ pc'[s] = "broadcast"
        BY <3>2 DEF ComposeStatus, Status
      <4>2. QED
        BY <3>1, <4>1
    <3>3. CASE Broadcast(s)
      <4>1. display' = Status /\ Status' = Status /\ pc'[s] # "broadcast"
        BY <3>3 DEF Broadcast, Status
      <4>2. QED
        BY <3>1, <4>1
    <3>4. CASE JoinThrows(s)
      <4>1. thr_ # NoThread /\ ~BeingJoined(thr_) /\ wpc[thr_] # "free"
        BY <3>1, <3>4 DEF JoinThrows, HandleInv, StepInv, BeingJoined, Engaged
      <4>2. QED
        BY <3>4, <4>1 DEF JoinThrows, CanJoin
    <3>5. CASE ~(ComposeStatus(s) \/ Broadcast(s) \/ JoinThrows(s))
      <4>1. pc'[s] \notin {"idle", "broadcast"}
        BY <2>2, <3>5
           DEF Handler, Joinable, JoinBegin, JoinReturns, JoinClears, AfterJoin,
               EnterStart, Unpause, Arm, Spawn, Assign
      <4>2. QED
        BY <3>1, <4>1
    <3>6. QED
      BY <3>2, <3>3, <3>4, <3>5
  <2>3. ASSUME NEW w \in Workers, Worker(w)
        PROVE  DisplayInv'
    <3>1. UNCHANGED <<pc, reply, display, do_run_, pause_, contention>>
      BY <2>3 DEF Worker, SetClock, WhileDoRun, TestPing, CallBack, TestAdvance,
                  AdvanceTime, Work, session
    <3>2. QED
      BY <3>1 DEF Status
  <2>4. CASE UNCHANGED vars
    BY <2>4 DEF vars, session, Status
  <2>5. QED
    BY <2>1, <2>2, <2>3, <2>4 DEF Next, Terminated
<1>3. QED
  BY <1>2

(* Commands sent one after the other leave the clients with the status.    *)
THEOREM DisplayTheorem == Spec => []DisplayIsCurrent
<1>1. Init => DisplayInv
  BY DEF Init, DisplayInv, Status, Idle
<1>2. IInv /\ DisplayInv /\ [Next]_vars => DisplayInv'
  BY DisplayStep DEF IInv
<1>3. DisplayInv => DisplayIsCurrent
  BY DEF DisplayInv, DisplayIsCurrent
<1>4. QED
  BY <1>1, <1>2, <1>3, Inductive, PTL DEF Spec

-----------------------------------------------------------------------------
(* TimeReference implements SimClock                                       *)

SingleOperator == \A s, t \in Operators : s = t

(* Only an operator is ever inside start() or stop().                      *)
AloneInv == contention < 2 /\ \A s \in Sessions : Engaged(s) => s \in Operators

(* With one session that starts and stops, start and stop never overlap.   *)
LEMMA AloneStep ==
  ASSUME SingleOperator, TypeOK, AloneInv, [Next]_vars
  PROVE  AloneInv'
<1> USE DEF AloneInv, Engaged, TypeOK
<1>1. ASSUME NEW s \in Sessions, NEW c \in Commands, Receive(s, c),
             c \in {"start", "stop"} => s \in Operators
      PROVE  AloneInv'
  <2>1. c \in {"start", "stop"} => \A t \in Sessions \ {s} : ~Engaged(t)
    BY <1>1 DEF SingleOperator
  <2>2. Overlap(s, c) < 2
    BY <2>1 DEF Overlap
  <2>3. contention' < 2
    BY <1>1, <2>2 DEF Receive
  <2>4. QED
    BY <1>1, <2>3 DEF Receive
<1>2. ASSUME NEW s \in Sessions, Request(s)
      PROVE  AloneInv'
  BY <1>1, <1>2
     DEF Request, Command, PauseCommand, ResumeCommand, SpeedCommand, Commands
<1>3. ASSUME NEW s \in Sessions, Handler(s)
      PROVE  AloneInv'
  <2>1. contention' = contention /\ \A t \in Sessions : cmd'[t] \in {cmd[t], "none"}
    BY <1>3 DEF Handler, Joinable, JoinBegin, JoinThrows, JoinReturns, JoinClears,
                ComposeStatus, Broadcast, EnterStart, Unpause, Arm, Spawn, Assign
  <2>2. QED
    BY <2>1
<1>4. ASSUME NEW w \in Workers, Worker(w)
      PROVE  UNCHANGED <<cmd, contention>>
  BY <1>4 DEF Worker, SetClock, WhileDoRun, TestPing, CallBack, TestAdvance,
              AdvanceTime, Work, session
<1>5. QED
  BY <1>2, <1>3, <1>4 DEF Next, Terminated, vars, session

Ticking(w) == wpc[w] \notin {"free", "begin", "done"}

(* At each step of the worker: how many advances and pings the pauses so   *)
(* far entitle it to.                                                      *)
TickInv ==
  /\ pause_ => MaxPauses > 0
  /\ \A w \in Workers :
    /\ Ticking(w) /\ pause_ => pauses > 0
    /\ wpc[w] \in {"loop", "test_ping"} =>
         IF pause_ THEN ahead <= pauses ELSE ahead <= pauses + 1
    /\ wpc[w] \in {"loop", "test_ping", "ping"} =>
         (last # NoTime /\ ahead = 0 => pauses > 0)
    /\ wpc[w] = "sleep" => ahead <= pauses
    /\ wpc[w] = "advance" => ahead <= pauses /\ (pause_ => ahead < pauses)

(* Every step keeps the advances and pings of a run within what its pauses *)
(* allow.                                                                  *)
LEMMA TickStep ==
  ASSUME TypeOK, OneWorker, contention < 2, TickInv, [Next]_vars
  PROVE  TickInv'
<1> USE DEF TypeOK, TickInv, Ticking
<1>1. ASSUME NEW s \in Sessions, Request(s)
      PROVE  TickInv'
  BY <1>1 DEF Request, Command, PauseCommand, ResumeCommand, SpeedCommand, history
<1>2. ASSUME NEW s \in Sessions, Handler(s)
      PROVE  TickInv'
  <2>1. /\ UNCHANGED <<ahead, pauses, last>>
        /\ pause_' => pause_
        /\ \A w \in Workers : wpc'[w] \in {wpc[w], "free", "begin"}
    BY <1>2 DEF Handler, Joinable, JoinBegin, JoinThrows, JoinReturns, JoinClears,
                ComposeStatus, Broadcast, EnterStart, Unpause, Arm, Spawn, Assign,
                history
  <2>2. QED
    BY <2>1
<1>3. ASSUME NEW w \in Workers, Worker(w)
      PROVE  TickInv'
  <2>1. wpc[w] # "free"
    BY <1>3 DEF Worker, SetClock, WhileDoRun, TestPing, CallBack, TestAdvance,
                AdvanceTime, Work
  <2>2. \A v \in Workers \ {w} : wpc[v] = "free"
    BY <2>1 DEF OneWorker
  <2> USE <2>2 DEF Work
  <2>3. CASE SetClock(w)
    BY <2>3 DEF SetClock
  <2>4. CASE WhileDoRun(w)
    BY <2>4 DEF WhileDoRun, history
  <2>5. CASE TestPing(w)
    BY <2>5 DEF TestPing, history
  <2>6. CASE CallBack(w)
    BY <2>6 DEF CallBack
  <2>7. CASE TestAdvance(w)
    BY <2>7 DEF TestAdvance, history
  <2>8. CASE AdvanceTime(w)
    BY <2>8 DEF AdvanceTime
  <2>9. QED
    BY <1>3, <2>3, <2>4, <2>5, <2>6, <2>7, <2>8 DEF Worker
<1>4. QED
  BY <1>1, <1>2, <1>3 DEF Next, Terminated, vars, history

(* Every step of TimeReference is a step of SimClock or leaves it alone.   *)
LEMMA TickRefines ==
  ASSUME TypeOK, OneWorker, contention < 2, TickInv, [Next]_vars
  PROVE  [Clock!ClockNext]_(Clock!clockVars)
<1> DEFINE alive == \E w \in Workers : Ticking(w)
<1> USE DEF Clock!clockVars, Ticking
<1>1. ASSUME NEW s \in Sessions, Request(s)
      PROVE  [Clock!ClockNext]_(Clock!clockVars)
  <2>1. UNCHANGED <<wpc, sim_time_, last, ahead>>
    BY <1>1 DEF Request, Command, PauseCommand, ResumeCommand, SpeedCommand, history
  <2>2. \/ UNCHANGED pauses
        \/ pauses < MaxPauses /\ pauses' = pauses + 1
    BY <1>1 DEF Request, Command, PauseCommand, ResumeCommand, SpeedCommand, history
  <2>3. QED
    BY <2>1, <2>2 DEF Clock!ClockNext, Clock!Pause
<1>2. ASSUME NEW s \in Sessions, Handler(s)
      PROVE  UNCHANGED Clock!clockVars
  <2>1. /\ UNCHANGED <<sim_time_, last, ahead, pauses>>
        /\ \A w \in Workers : Ticking(w)' <=> Ticking(w)
    BY <1>2 DEF Handler, Joinable, JoinBegin, JoinThrows, JoinReturns, JoinClears,
                ComposeStatus, Broadcast, EnterStart, Unpause, Arm, Spawn, Assign,
                history, TypeOK
  <2>2. QED
    BY <2>1
<1>3. ASSUME NEW w \in Workers, Worker(w)
      PROVE  [Clock!ClockNext]_(Clock!clockVars)
  <2>1. wpc[w] # "free"
    BY <1>3 DEF Worker, SetClock, WhileDoRun, TestPing, CallBack, TestAdvance,
                AdvanceTime, Work
  <2>2. \A v \in Workers \ {w} : ~Ticking(v) /\ ~Ticking(v)'
    BY <1>3, <2>1 DEF OneWorker, TypeOK, Worker, SetClock, WhileDoRun, TestPing,
                      CallBack, TestAdvance, AdvanceTime, Work
  <2>3. (alive <=> Ticking(w)) /\ (alive' <=> Ticking(w)')
    BY <2>2
  <2> USE <2>3 DEF Work, TypeOK
  <2>4. CASE SetClock(w)
    BY <2>4 DEF SetClock, TickInv, Clock!ClockNext, Clock!Begin
  <2>5. CASE WhileDoRun(w)
    BY <2>5 DEF WhileDoRun, history, Clock!ClockNext, Clock!End
  <2>6. CASE TestPing(w) \/ TestAdvance(w)
    BY <2>6 DEF TestPing, TestAdvance, history
  <2>7. CASE CallBack(w)
    BY <2>7 DEF CallBack, TickInv, Clock!ClockNext, Clock!Ping
  <2>8. CASE AdvanceTime(w)
    BY <2>8 DEF AdvanceTime, TickInv, Clock!ClockNext, Clock!Advance
  <2>9. QED
    BY <1>3, <2>4, <2>5, <2>6, <2>7, <2>8 DEF Worker
<1>4. CASE UNCHANGED vars
  BY <1>4 DEF vars, history
<1>5. QED
  BY <1>1, <1>2, <1>3, <1>4 DEF Next, Terminated

(* If one session starts and stops the simulation, whatever the others do  *)
(* with pause, resume and speed, TimeReference is the clock of SimClock.   *)
THEOREM Refinement ==
  ASSUME SingleOperator
  PROVE  Spec => ImplementsSimClock
<1>1. Init => AloneInv /\ TickInv /\ Clock!ClockInit
  BY DEF Init, AloneInv, TickInv, Ticking, Engaged, Clock!ClockInit
<1>2. IInv /\ AloneInv /\ [Next]_vars => AloneInv'
  BY AloneStep DEF IInv
<1>3. IInv /\ AloneInv => OneWorker /\ contention < 2
  BY OneWorkerFollows DEF IInv, AloneInv
<1>4. IInv /\ AloneInv /\ TickInv /\ [Next]_vars => TickInv'
  BY <1>3, TickStep DEF IInv
<1>5. IInv /\ AloneInv /\ TickInv /\ [Next]_vars => [Clock!ClockNext]_(Clock!clockVars)
  BY <1>3, TickRefines DEF IInv
<1>6. QED
  BY <1>1, <1>2, <1>4, <1>5, Inductive, PTL DEF Spec, ImplementsSimClock, Clock!ClockSpec

=============================================================================
