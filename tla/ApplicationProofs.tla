------------------------- MODULE ApplicationProofs -------------------------
(* Proofs about Application, for any data, any number of ping threads, and *)
(* every speed of the clock.                                               *)
EXTENDS Application, SequenceTheorems, WellFoundedInduction, TLAPS

(* The operator's commands and calculation_id_                             *)

(* The steps of "start" in which there is no clock to ping.                *)
Halted == {"clean", "delete", "calc_id", "start"}

(* Between stop() and start() no clock runs.                               *)
ClockInv == op \in Halted => ~armed /\ ~alive

(* Unless a ping met the restart, none is in flight when the new           *)
(* calculation_id_ is set; a ping of this run has read the current one.    *)
PingInv ==
  /\ pc \in [Pings -> {"free", "announce", "join", "session", "daily", "weekly", "next"}]
  /\ DOMAIN mine = Pings
  /\ ~stale /\ op \in ResetSteps \cup (Halted \ {"start"}) => InFlight = {}

IInv == ClockInv /\ PingInv /\ CalcIdIsMine

(* The initial state satisfies the invariant.                              *)
LEMMA InvInit == Init => IInv
BY DEF Init, IInv, ClockInv, PingInv, CalcIdIsMine, Halted, ResetSteps, InFlight

(* A command keeps the invariant: start sets the new calculation_id_ only  *)
(* after the clock has stopped.                                            *)
LEMMA OperatorStep ==
  ASSUME IInv, Operator
  PROVE  IInv'
<1> USE DEF IInv, ClockInv, PingInv, CalcIdIsMine, Halted, ResetSteps, InFlight,
            CommandStep, clockVars, pingVars, daqVars, history
<1>1. CASE StartCommand
  BY <1>1 DEF StartCommand
<1>2. CASE Rewind
  BY <1>2 DEF Rewind
<1>3. CASE SeekOn
  BY <1>3 DEF SeekOn
<1>4. CASE SeekEnds
  BY <1>4 DEF SeekEnds
<1>5. CASE SeekThrows
  BY <1>5 DEF SeekThrows
<1>6. CASE ResetKpi
  BY <1>6 DEF ResetKpi
<1>7. CASE StopCommand
  BY <1>7 DEF StopCommand
<1>8. CASE StopReturns
  BY <1>8 DEF StopReturns
<1>9. CASE CleanDatabase
  BY <1>9 DEF CleanDatabase
<1>10. CASE Delete
  BY <1>10 DEF Delete
<1>11. CASE DeleteFails
  BY <1>11 DEF DeleteFails
<1>12. CASE NewCalculation
  BY <1>12 DEF NewCalculation
<1>13. CASE StartClock
  BY <1>13 DEF StartClock
<1>14. QED
  BY <1>1, <1>2, <1>3, <1>4, <1>5, <1>6, <1>7, <1>8, <1>9, <1>10, <1>11, <1>12, <1>13
     DEF Operator

(* The clock keeps it: a ping takes the current calculation_id_ along, or  *)
(* meets a restart.                                                        *)
LEMMA ClockStep ==
  ASSUME IInv, SimulatedClock
  PROVE  IInv'
<1> USE DEF IInv, ClockInv, PingInv, CalcIdIsMine, Halted, ResetSteps, InFlight,
            commandVars, pingVars, daqVars, history
<1>1. CASE ClockBegins
  BY <1>1 DEF ClockBegins, Begin
<1>2. CASE ClockTicks
  BY <1>2 DEF ClockTicks, Advance, Pause
<1>3. CASE ClockEnds
  BY <1>3 DEF ClockEnds, End
<1>4. ASSUME NEW p \in Pings, OnTimePing(p)
      PROVE  IInv'
  <2>1. alive /\ alive' = alive
    BY <1>4 DEF OnTimePing, Ping
  <2>2. op \notin Halted
    BY <2>1
  <2>3. UNCHANGED <<op, armed, calculation_id_>> /\ stale' = (stale \/ op \in ResetSteps)
    BY <1>4 DEF OnTimePing
  <2>4. /\ pc' = [pc EXCEPT ![p] = "announce"]
        /\ mine' = [mine EXCEPT ![p] = calculation_id_]
    BY <1>4 DEF OnTimePing
  <2>5. QED
    BY <2>1, <2>2, <2>3, <2>4
<1>5. QED
  BY <1>1, <1>2, <1>3, <1>4 DEF SimulatedClock

(* A ping thread keeps it: it only goes out of flight.                     *)
LEMMA PingThreadStep ==
  ASSUME IInv, NEW p \in Pings, PingThread(p)
  PROVE  IInv'
<1>1. /\ UNCHANGED <<op, armed, alive, calculation_id_, stale>>
      /\ \/ UNCHANGED <<pc, mine>>
         \/ /\ pc[p] # "free"
            /\ \E to \in {"free", "announce", "join", "session", "daily", "weekly", "next"} :
                 /\ pc' = [pc EXCEPT ![p] = to]
                 /\ mine' = mine \/ (to = "free" /\ mine' = [mine EXCEPT ![p] = NoTime])
  <2> USE DEF PingStep, Leave, SlotStep, clockVars, commandVars, pingVars, history
  <2>1. CASE Announce(p)
    BY <2>1 DEF Announce
  <2>2. CASE Join(p)
    BY <2>2 DEF Join
  <2>3. CASE MakeDbSession(p) \/ MakeDbSessionFails(p)
    BY <2>3 DEF MakeDbSession, MakeDbSessionFails
  <2>4. CASE Daily(p) \/ Weekly(p)
    BY <2>4 DEF Daily, Weekly
  <2>5. CASE NextKpi(p)
    BY <2>5 DEF NextKpi
  <2>6. ASSUME NEW d \in Sources, PingSlot(p, d)
        PROVE  UNCHANGED <<op, armed, alive, calculation_id_, stale, pc, mine>>
    BY <2>6 DEF PingSlot, Test, Push, PushGarbage, Increment, Acquire, AcquireFails, Insert
  <2>7. QED
    BY <2>1, <2>2, <2>3, <2>4, <2>5, <2>6 DEF PingThread
<1>2. QED
  BY <1>1 DEF IInv, ClockInv, PingInv, CalcIdIsMine, InFlight

(* Every step keeps the invariant.                                         *)
LEMMA InvStep == IInv /\ [Next]_vars => IInv'
<1> SUFFICES ASSUME IInv, [Next]_vars
             PROVE  IInv'
  OBVIOUS
<1>1. CASE UNCHANGED vars
  BY <1>1 DEF vars, clockVars, commandVars, pingVars, history, IInv, ClockInv, PingInv,
              CalcIdIsMine, InFlight
<1>2. QED
  BY <1>1, OperatorStep, ClockStep, PingThreadStep DEF Next

(* A ping thread broadcasts the calculation_id_ of the run that pinged it, *)
(* however many pings of the run overlap and whenever it is scheduled,     *)
(* unless a ping was in flight while the run was being started.            *)
THEOREM CalcIdTheorem == Spec => []CalcIdIsMine
<1>1. IInv => CalcIdIsMine
  BY DEF IInv
<1>2. QED
  BY <1>1, InvInit, InvStep, PTL DEF Spec

-----------------------------------------------------------------------------
(* What is written to the database                                         *)

(* No two pings overlap in this run, and none met its start.               *)
Calm == ~stale /\ ~overlap

(* resetIterators is at work on the data sources.                          *)
Placing == {"rewind", "seek"}

(* The iterators are placed for a run that has not pinged yet.             *)
New == op \in {"reset_kpi", "stop"} \cup Halted \/ armed \/ last = NoTime

(* iterator_ is at the first row of the run.                               *)
Positioned(d) ==
  /\ iterator_[d] <= Len(Data[d]) /\ Data[d][iterator_[d]] >= StartTime
  /\ \A j \in 1..iterator_[d] - 1 : Data[d][j] < StartTime
  /\ lost[d] = {}

(* Every variable that matters here keeps its type; time goes forward.     *)
TypeInv ==
  /\ op \in {"idle", "halt"} \cup ResetSteps \cup Halted
  /\ target \in 1..Len(Daqs)
  /\ iterator_ \in [Sources -> Nat \ {0}]
  /\ table \in [Sources -> SUBSET Nat] /\ lost \in [Sources -> SUBSET Nat]
  /\ wiped \subseteq Sources
  /\ slot \in [Pings -> [Sources -> {"test", "push", "step", "acquire", "insert", "done"}]]
  /\ pts \in [Pings -> [Sources -> Seq(Nat)]]
  /\ seen \in [Pings -> [Sources -> Nat]]
  /\ tp \in [Pings -> Nat \cup {NoTime}]
  /\ now \in Nat /\ last \in Nat \cup {NoTime}
  /\ last # NoTime => last <= now
  /\ alive => StartTime <= now
  /\ armed => ~alive

(* pingSlot runs while its ping waits for it, and holds rows exactly when  *)
(* it is to insert them.                                                   *)
SlotInv ==
  \A p \in Pings, d \in Sources :
    /\ slot[p][d] # "done" => pc[p] = "join"
    /\ slot[p][d] \in {"acquire", "insert"} => pts[p][d] # <<>>
    /\ slot[p][d] = "done" => pts[p][d] = <<>>

(* resetIterators has placed the sources before target, and is about to    *)
(* find the first row of target, of which there is one.                    *)
PlacingInv ==
  Calm /\ op \in Placing =>
    /\ InFlight = {} /\ wiped = {}
    /\ \A i \in 1..target - 1 : Positioned(Daqs[i])
    /\ op = "seek" =>
         /\ \A j \in 1..iterator_[Daqs[target]] - 1 :
              j <= Len(Data[Daqs[target]]) /\ Data[Daqs[target]][j] < StartTime
         /\ lost[Daqs[target]] = {}

(* Before its first ping a run has stored nothing.                         *)
NewInv ==
  Calm /\ New /\ op \notin Placing =>
    /\ InFlight = {}
    /\ \A d \in Sources : Positioned(d)
    /\ \A d \in wiped : table[d] = {}

(* Of the rows before iterator_, those from k on are still to be inserted. *)
Progress(d, k) ==
  /\ iterator_[d] <= Len(Data[d]) + 1
  /\ \A j \in 1..iterator_[d] - 1 : Data[d][j] <= last
  /\ \A j \in k..Len(Data[d]) : Data[d][j] >= StartTime
  /\ \A t \in lost[d] : \E j \in 1..k - 1 : t = Data[d][j]
  /\ d \in wiped =>
       \A t \in Nat :
         t \in table[d] <=>
           t >= StartTime /\ t \notin lost[d] /\ \E j \in 1..k - 1 : t = Data[d][j]
  /\ InFlight = {} =>
       k = iterator_[d] /\ \A j \in iterator_[d]..Len(Data[d]) : last < Data[d][j]

(* They are what the ping in flight holds; it is to go on until no row is  *)
(* due.                                                                    *)
Holds(p, d, k) ==
  /\ Len(pts[p][d]) = (iterator_[d] - k) + (IF slot[p][d] = "step" THEN 1 ELSE 0)
  /\ \A m \in 1..Len(pts[p][d]) : pts[p][d][m] = Data[d][(k - 1) + m]
  /\ slot[p][d] \in {"push", "step"} =>
       iterator_[d] <= Len(Data[d]) /\ Data[d][iterator_[d]] <= last
  /\ slot[p][d] = "step" => seen[p][d] = iterator_[d]
  /\ \/ pc[p] = "announce"
     \/ slot[p][d] \in {"test", "push", "step"}
     \/ \A j \in iterator_[d]..Len(Data[d]) : last < Data[d][j]

(* From its first ping a run has stored its past.                          *)
PastInv ==
  Calm /\ ~New /\ op \notin Placing =>
    /\ \A p \in InFlight : tp[p] = last
    /\ \A p, q \in InFlight : p = q
    /\ \A d \in Sources :
         \E k \in 1..iterator_[d] : Progress(d, k) /\ \A p \in InFlight : Holds(p, d, k)

RunInv == TypeInv /\ SlotInv /\ PlacingInv /\ NewInv /\ PastInv

-----------------------------------------------------------------------------
(* Lemmas on the data                                                      *)

(* A set of numbers has a least one.                                       *)
LEMMA LeastNat ==
  ASSUME NEW T, T \subseteq Nat, T # {}
  PROVE  \E x \in T : \A y \in T : x <= y
<1>1. PICK x \in T : \A y \in T : <<y, x>> \notin OpToRel(<, Nat)
  BY NatLessThanWellFounded, WFMin
<1>2. \A y \in T : ~(y < x)
  BY <1>1 DEF OpToRel
<1>3. QED
  BY <1>2

(* FirstRow is well defined.                                               *)
LEMMA FirstRowExists ==
  ASSUME NEW d \in Sources
  PROVE  /\ FirstRow(d) \in 1..Len(Data[d])
         /\ Data[d][FirstRow(d)] >= StartTime
         /\ \A j \in 1..FirstRow(d) - 1 : Data[d][j] < StartTime
<1> DEFINE T == {i \in 1..Len(Data[d]) : Data[d][i] >= StartTime}
<1>1. Data[d] \in Seq(Nat) /\ T \subseteq Nat /\ T # {}
  BY DataAssumption
<1>2. PICK i \in T : \A j \in T : i <= j
  BY <1>1, LeastNat
<1>3. \A j \in 1..i - 1 : Data[d][j] < StartTime
  <2>1. ASSUME NEW j \in 1..i - 1
        PROVE  j \in 1..Len(Data[d]) /\ ~(i <= j) /\ Data[d][j] \in Nat
    BY <1>1, <1>2, SMTT(60)
  <2>2. QED
    BY <1>2, <2>1, StartTimeAssumption
<1>4. QED
  BY <1>2, <1>3 DEF FirstRow

(* The rows have times, in order.                                          *)
LEMMA RowTimes ==
  ASSUME NEW d \in Sources
  PROVE  /\ Len(Data[d]) \in Nat
         /\ \A j \in 1..Len(Data[d]) : Data[d][j] \in Nat
         /\ \A i, j \in 1..Len(Data[d]) : i < j => Data[d][i] < Data[d][j]
         /\ \E j \in 1..Len(Data[d]) : Data[d][j] >= StartTime
BY DataAssumption

(* The sources are what target goes through.                               *)
LEMMA DaqsFacts ==
  /\ Len(Daqs) \in Nat \ {0} /\ \A i \in 1..Len(Daqs) : Daqs[i] \in Sources
  /\ \A i, j \in 1..Len(Daqs) : Daqs[i] = Daqs[j] => i = j
<1>1. Daqs \in Seq({"energy", "production"}) /\ Daqs # <<>>
  BY DaqsAssumption
<1>2. Len(Daqs) \in Nat \ {0}
  BY <1>1, EmptySeq
<1>3. QED
  BY <1>2, DaqsAssumption DEF Sources

-----------------------------------------------------------------------------

(* Before the first start nothing is collected, and the clock stands.      *)
LEMMA RunInit == Init => RunInv
<1> SUFFICES ASSUME Init
             PROVE  RunInv
  OBVIOUS
<1>1. /\ op = "idle" /\ target = 1 /\ armed = FALSE /\ last = NoTime /\ alive = FALSE
      /\ now = 0 /\ wiped = Sources
      /\ iterator_ = [d \in Sources |-> FirstRow(d)]
      /\ table = [d \in Sources |-> {}] /\ lost = [d \in Sources |-> {}]
      /\ slot = [p \in Pings |-> [d \in Sources |-> "done"]]
      /\ pts = [p \in Pings |-> [d \in Sources |-> <<>>]]
      /\ seen = [p \in Pings |-> [d \in Sources |-> 0]]
      /\ tp = [p \in Pings |-> NoTime] /\ pc = [p \in Pings |-> "free"]
  BY DEF Init, ClockInit
<1>2. TypeInv
  <2>1. iterator_ \in [Sources -> Nat \ {0}]
    BY <1>1, FirstRowExists, RowTimes
  <2>2. target \in 1..Len(Daqs)
    BY <1>1, DaqsFacts
  <2>3. pts \in [Pings -> [Sources -> Seq(Nat)]]
    BY <1>1
  <2>4. QED
    BY <1>1, <2>1, <2>2, <2>3 DEF TypeInv
<1>3. SlotInv
  BY <1>1 DEF SlotInv
<1>4. NewInv
  <2>1. \A d \in Sources : Positioned(d)
    BY <1>1, FirstRowExists DEF Positioned
  <2>2. QED
    BY <1>1, <2>1 DEF NewInv, InFlight
<1>5. QED
  BY <1>1, <1>2, <1>3, <1>4 DEF RunInv, PlacingInv, PastInv, New, Placing

-----------------------------------------------------------------------------
(* The commands                                                            *)

(* A command leaves clock, ping threads and slots alone.                   *)
LEMMA OperatorFrame ==
  ASSUME Operator
  PROVE  UNCHANGED <<clockVars, pingVars, slotVars, InFlight>>
BY DEF Operator, StartCommand, Rewind, SeekOn, SeekEnds, SeekThrows, ResetKpi, StopCommand,
       StopReturns, CleanDatabase, Delete, DeleteFails, NewCalculation, StartClock,
       CommandStep, InFlight, pingVars

(* A command keeps the types.                                              *)
LEMMA OperatorTypes ==
  ASSUME IInv, TypeInv, Operator
  PROVE  TypeInv'
<1>1. UNCHANGED <<now, last, alive, tp, slot, pts, seen>>
  BY OperatorFrame DEF clockVars, pingVars, slotVars
<1>2. target \in 1..Len(Daqs) /\ Daqs[target] \in Sources /\ Len(Daqs) \in Nat \ {0}
  BY DaqsFacts DEF TypeInv
<1>3. /\ op' \in {"idle", "halt"} \cup ResetSteps \cup Halted
      /\ target' \in 1..Len(Daqs) /\ wiped' \subseteq Sources
      /\ iterator_' \in [Sources -> Nat \ {0}]
      /\ table' \in [Sources -> SUBSET Nat] /\ lost' \in [Sources -> SUBSET Nat]
      /\ armed' => ~alive
  <2> USE <1>2 DEF TypeInv, CommandStep, daqVars, history, ResetSteps, Halted
  <2>1. CASE StartCommand
    BY <2>1 DEF StartCommand
  <2>2. CASE Rewind
    BY <2>2 DEF Rewind
  <2>3. CASE SeekOn
    <3>1. iterator_' = [iterator_ EXCEPT ![Daqs[target]] = iterator_[Daqs[target]] + 1]
      BY <2>3 DEF SeekOn
    <3>2. iterator_' \in [Sources -> Nat \ {0}]
      BY <3>1
    <3>3. QED
      BY <2>3, <3>2 DEF SeekOn
  <2>4. CASE SeekEnds
    BY <2>4 DEF SeekEnds
  <2>5. CASE SeekThrows \/ ResetKpi
    BY <2>5 DEF SeekThrows, ResetKpi
  <2>6. CASE StopCommand \/ StopReturns
    BY <2>6 DEF StopCommand, StopReturns
  <2>7. CASE CleanDatabase \/ DeleteFails
    BY <2>7 DEF CleanDatabase, DeleteFails
  <2>8. CASE Delete
    BY <2>8 DEF Delete
  <2>9. CASE NewCalculation
    BY <2>9 DEF NewCalculation
  <2>10. CASE StartClock
    BY <2>10 DEF StartClock, IInv, ClockInv
  <2>11. QED
    BY <2>1, <2>2, <2>3, <2>4, <2>5, <2>6, <2>7, <2>8, <2>9, <2>10 DEF Operator
<1>4. QED
  BY <1>1, <1>3 DEF TypeInv

(* resetIterators places one source after the other.                       *)
LEMMA PlacingStep ==
  ASSUME RunInv, Rewind \/ SeekOn \/ SeekEnds \/ SeekThrows
  PROVE  PlacingInv' /\ NewInv' /\ PastInv'
<1> DEFINE d == Daqs[target]
<1>1. /\ target \in 1..Len(Daqs) /\ d \in Sources /\ Len(Daqs) \in Nat \ {0}
      /\ \A i \in 1..target - 1 : Daqs[i] \in Sources \ {d}
  <2>1. target \in 1..Len(Daqs) /\ Len(Daqs) \in Nat \ {0}
    BY DaqsFacts DEF RunInv, TypeInv
  <2>2. ASSUME NEW i \in 1..target - 1
        PROVE  i \in 1..Len(Daqs) /\ i # target
    BY <2>1
  <2>3. QED
    BY <2>1, <2>2, DaqsFacts
<1>2. /\ iterator_ \in [Sources -> Nat \ {0}] /\ lost \in [Sources -> SUBSET Nat]
      /\ InFlight' = InFlight
  BY OperatorFrame DEF RunInv, TypeInv, Operator
<1>3. /\ Len(Data[d]) \in Nat
      /\ \A j \in 1..Len(Data[d]) : Data[d][j] \in Nat
      /\ \E j \in 1..Len(Data[d]) : Data[d][j] >= StartTime
  BY <1>1, RowTimes
<1>4. op \in Placing /\ UNCHANGED <<stale, overlap, wiped>>
  BY DEF Rewind, SeekOn, SeekEnds, SeekThrows, CommandStep, Placing, history
<1>5. CASE ~Calm
  BY <1>4, <1>5 DEF Calm, PlacingInv, NewInv, PastInv
<1>6. CASE Calm
  <2>1. /\ InFlight = {} /\ wiped = {} /\ \A i \in 1..target - 1 : Positioned(Daqs[i])
        /\ op = "seek" => /\ \A j \in 1..iterator_[d] - 1 : j <= Len(Data[d]) /\ Data[d][j] < StartTime
                          /\ lost[d] = {}
    BY <1>4, <1>6 DEF RunInv, PlacingInv
  <2>2. CASE Rewind
    <3>1. /\ op' = "seek" /\ target' = target
          /\ iterator_' = [iterator_ EXCEPT ![d] = 1] /\ lost' = [lost EXCEPT ![d] = {}]
      BY <2>2 DEF Rewind, CommandStep
    <3>2. \A i \in 1..target - 1 : Positioned(Daqs[i])'
      BY <1>1, <1>2, <2>1, <3>1 DEF Positioned
    <3>3. iterator_'[d] = 1 /\ lost'[d] = {}
      BY <1>1, <1>2, <3>1
    <3>4. QED
      BY <1>2, <1>4, <2>1, <3>1, <3>2, <3>3 DEF PlacingInv, NewInv, PastInv, Placing
  <2>3. CASE SeekOn
    <3>1. /\ op = "seek" /\ op' = "seek" /\ target' = target /\ lost' = lost
          /\ iterator_' = [iterator_ EXCEPT ![d] = iterator_[d] + 1]
          /\ iterator_[d] <= Len(Data[d]) /\ Data[d][iterator_[d]] < StartTime
      BY <2>3 DEF SeekOn, CommandStep, BeforeStart, history
    <3>2. \A i \in 1..target - 1 : Positioned(Daqs[i])'
      BY <1>1, <1>2, <2>1, <3>1 DEF Positioned
    <3>3. \A j \in 1..iterator_'[d] - 1 : j <= Len(Data[d]) /\ Data[d][j] < StartTime
      <4>1. iterator_'[d] = iterator_[d] + 1 /\ iterator_[d] \in Nat \ {0}
        BY <1>1, <1>2, <3>1
      <4>2. ASSUME NEW j \in 1..iterator_'[d] - 1
            PROVE  j = iterator_[d] \/ j \in 1..iterator_[d] - 1
        BY <4>1
      <4>3. QED
        BY <2>1, <3>1, <4>2
    <3>4. QED
      BY <1>2, <1>4, <2>1, <3>1, <3>2, <3>3 DEF PlacingInv, NewInv, PastInv, Placing
  <2>4. ASSUME op = "seek", iterator_[d] # Len(Data[d]) + 1
        PROVE  iterator_[d] <= Len(Data[d])
    <3>1. iterator_[d] \in Nat \ {0}
      BY <1>1, <1>2
    <3>2. iterator_[d] = 1 \/ iterator_[d] - 1 <= Len(Data[d])
      BY <2>1, <2>4, <3>1
    <3>3. Len(Data[d]) \in Nat /\ iterator_[d] # Len(Data[d]) + 1
      BY <1>3, <2>4
    <3>4. CASE iterator_[d] = 1
      <4>1. Len(Data[d]) # 0
        BY <3>3, <3>4
      <4>2. QED
        BY ONLY <3>3, <3>4, <4>1
    <3>5. CASE iterator_[d] - 1 <= Len(Data[d])
      BY ONLY <3>1, <3>3, <3>5
    <3>6. QED
      BY <3>2, <3>4, <3>5
  <2>5. CASE SeekEnds
    <3>1. /\ op = "seek" /\ iterator_[d] # Len(Data[d]) + 1
          /\ ~(iterator_[d] <= Len(Data[d]) /\ Data[d][iterator_[d]] < StartTime)
          /\ op' = IF target < Len(Daqs) THEN "rewind" ELSE "reset_kpi"
          /\ target' = IF target < Len(Daqs) THEN target + 1 ELSE target
          /\ UNCHANGED <<iterator_, lost, table>>
      BY <2>5 DEF SeekEnds, CommandStep, BeforeStart, AtEnd, daqVars, history
    <3>2. Positioned(d)
      <4>1. iterator_[d] \in 1..Len(Data[d])
        BY <1>1, <1>2, <1>3, <2>4, <3>1
      <4>2. Data[d][iterator_[d]] >= StartTime
        BY <1>3, <3>1, <4>1, StartTimeAssumption
      <4>3. QED
        BY <2>1, <3>1, <4>1, <4>2 DEF Positioned
    <3>3. \A i \in 1..target : Positioned(Daqs[i]) /\ Positioned(Daqs[i])'
      <4>1. ASSUME NEW i \in 1..target
            PROVE  i \in 1..target - 1 \/ Daqs[i] = d
        BY <1>1
      <4>2. QED
        BY <2>1, <3>1, <3>2, <4>1 DEF Positioned
    <3>4. CASE target < Len(Daqs)
      <4>1. target' - 1 = target
        BY <1>1, <3>1, <3>4
      <4>2. QED
        BY <1>2, <1>4, <2>1, <3>1, <3>3, <3>4, <4>1 DEF PlacingInv, NewInv, PastInv, Placing
    <3>5. CASE ~(target < Len(Daqs))
      <4>1. target = Len(Daqs) /\ op' = "reset_kpi"
        BY <1>1, <3>1, <3>5
      <4>2. \A e \in Sources : Positioned(e)'
        BY <3>3, <4>1 DEF Sources
      <4>3. QED
        BY <1>2, <1>4, <2>1, <4>1, <4>2 DEF PlacingInv, NewInv, PastInv, Placing, New
    <3>6. QED
      BY <3>4, <3>5
  <2>6. CASE SeekThrows
    <3>1. op = "seek" /\ iterator_[d] = Len(Data[d]) + 1
      BY <2>6 DEF SeekThrows, CommandStep, AtEnd
    <3>2. \A j \in 1..Len(Data[d]) : Data[d][j] < StartTime
      BY <1>3, <2>1, <3>1
    <3>3. QED
      BY <1>3, <3>2, StartTimeAssumption
  <2>7. QED
    BY <2>2, <2>3, <2>5, <2>6
<1>7. QED
  BY <1>5, <1>6

(* What pings and tables hold depends on nothing else.                     *)
LEMMA RunFrame ==
  ASSUME UNCHANGED <<stale, overlap, wiped, table, iterator_, lost, last, slot, pts, seen, pc, tp>>,
         New' <=> New,
         (op' = op /\ target' = target) \/ (op \notin Placing /\ op' \notin Placing)
  PROVE  /\ PlacingInv => PlacingInv'
         /\ NewInv => NewInv'
         /\ PastInv => PastInv'
<1>1. InFlight' = InFlight /\ (Calm' <=> Calm)
  BY DEF InFlight, Calm
<1>2. ASSUME NEW d
      PROVE  Positioned(d)' <=> Positioned(d)
  BY DEF Positioned
<1>3. ASSUME NEW d, NEW k
      PROVE  Progress(d, k)' <=> Progress(d, k)
  BY <1>1 DEF Progress
<1>4. ASSUME NEW p, NEW d, NEW k
      PROVE  Holds(p, d, k)' <=> Holds(p, d, k)
  BY DEF Holds
<1>5. PlacingInv => PlacingInv'
  BY <1>1, <1>2 DEF PlacingInv
<1>6. NewInv => NewInv'
  <2>1. (op \notin Placing) <=> (op' \notin Placing)
    OBVIOUS
  <2>2. QED
    BY <1>1, <1>2, <2>1 DEF NewInv
<1>7. PastInv => PastInv'
  <2>1. (op \notin Placing) <=> (op' \notin Placing)
    OBVIOUS
  <2>2. QED
    BY <1>1, <1>3, <1>4, <2>1 DEF PastInv
<1>8. QED
  BY <1>5, <1>6, <1>7

(* A command keeps the invariant: only start's first half touches what the *)
(* pings use, and then none is in flight.                                  *)
LEMMA OperatorRun ==
  ASSUME IInv, RunInv, Operator
  PROVE  RunInv'
<1>1. TypeInv' /\ SlotInv' /\ InFlight' = InFlight
      /\ UNCHANGED <<last, tp, slot, pts, seen, pc>>
  <2>1. InFlight' = InFlight /\ UNCHANGED <<last, tp, slot, pts, seen, pc>>
    BY OperatorFrame DEF clockVars, pingVars, slotVars
  <2>2. QED
    BY <2>1, OperatorTypes DEF RunInv, SlotInv
<1>2. CASE StartCommand
  <2>1. op' = "rewind" /\ target' = 1 /\ (stale' <=> InFlight # {}) /\ wiped' = {}
    BY <1>2 DEF StartCommand
  <2>2. op' \in Placing /\ op' # "seek" /\ 1..target' - 1 = {}
    BY <2>1 DEF Placing
  <2>3. Calm' => InFlight' = {}
    BY <1>1, <2>1 DEF Calm
  <2>4. PlacingInv'
    BY <2>1, <2>2, <2>3 DEF PlacingInv
  <2>5. NewInv' /\ PastInv'
    BY <2>2 DEF NewInv, PastInv
  <2>6. QED
    BY <1>1, <2>4, <2>5 DEF RunInv
<1>3. CASE Rewind \/ SeekOn \/ SeekEnds \/ SeekThrows
  BY <1>1, <1>3, PlacingStep DEF RunInv
<1>4. CASE \/ ResetKpi \/ CleanDatabase \/ DeleteFails \/ NewCalculation \/ StartClock
           \/ StopReturns /\ op = "stop"
  <2>1. /\ op \notin Placing /\ op' \notin Placing /\ New /\ New'
        /\ UNCHANGED <<stale, overlap, wiped, table, iterator_, lost>>
    BY <1>4 DEF ResetKpi, CleanDatabase, DeleteFails, NewCalculation, StartClock, StopReturns,
                CommandStep, Placing, New, Halted, daqVars, history
  <2>2. QED
    BY <1>1, <2>1 DEF RunInv, PlacingInv, NewInv, PastInv, Calm, Positioned
<1>5. CASE Delete
  <2>1. /\ op \notin Placing /\ op' \notin Placing /\ New /\ New'
        /\ UNCHANGED <<stale, overlap, iterator_, lost>>
        /\ wiped' = wiped \cup {Daqs[target]}
        /\ table' = [table EXCEPT ![Daqs[target]] = {}]
    BY <1>5 DEF Delete, CommandStep, Placing, New, Halted
  <2>2. \A d \in wiped' : d \in Sources /\ (d \in wiped \/ d = Daqs[target])
    BY <1>1, <2>1 DEF TypeInv
  <2>3. (\A d \in wiped : table[d] = {}) => \A d \in wiped' : table'[d] = {}
    BY <2>1, <2>2 DEF RunInv, TypeInv
  <2>4. QED
    BY <1>1, <2>1, <2>3 DEF RunInv, PlacingInv, NewInv, PastInv, Calm, Positioned
<1>6. CASE StopCommand \/ (StopReturns /\ op = "halt")
  <2>1. /\ op \in {"idle", "halt"} /\ op' \in {"idle", "halt"}
        /\ UNCHANGED <<stale, overlap, wiped, table, iterator_, lost, armed>>
    BY <1>6 DEF StopCommand, StopReturns, CommandStep, daqVars, history
  <2>2. op \notin Placing /\ op' \notin Placing /\ (New' <=> New)
    BY <1>1, <2>1 DEF New, Halted, Placing
  <2>3. QED
    BY <1>1, <2>1, <2>2, RunFrame DEF RunInv
<1>7. CASE StopReturns
  <2>1. op \in {"stop", "halt"}
    BY <1>7 DEF StopReturns, CommandStep
  <2>2. QED
    BY <1>4, <1>6, <1>7, <2>1
<1>8. QED
  BY <1>2, <1>3, <1>4, <1>5, <1>6, <1>7 DEF Operator

-----------------------------------------------------------------------------
(* The clock                                                               *)

(* The clock itself touches neither the rows nor the iterators.            *)
LEMMA ClockRun ==
  ASSUME IInv, RunInv, SimulatedClock
  PROVE  RunInv'
<1>1. CASE ClockBegins
  <2>1. /\ armed /\ ~alive /\ alive' /\ now' = StartTime /\ last' = NoTime /\ armed' = FALSE
        /\ UNCHANGED <<op, target, slot, pts, seen, pc, tp, iterator_, table, lost, wiped,
                       stale, overlap>>
    BY <1>1 DEF ClockBegins, Begin, pingVars, slotVars, daqVars, history
  <2>2. TypeInv'
    BY <2>1, StartTimeAssumption DEF RunInv, TypeInv
  <2>3. New /\ New' /\ InFlight' = InFlight
    BY <2>1 DEF New, InFlight
  <2>4. QED
    BY <2>1, <2>2, <2>3 DEF RunInv, SlotInv, PlacingInv, NewInv, PastInv, Calm, Positioned
<1>2. CASE ClockTicks \/ ClockEnds
  <2>1. /\ now' >= now /\ now' \in Nat /\ last' = last /\ (alive' => alive)
    <3>1. now \in Nat
      BY DEF RunInv, TypeInv
    <3>2. CASE Advance
      BY <3>1, <3>2, SpeedsAssumption DEF Advance
    <3>3. CASE alive /\ Pause
      BY <3>1, <3>3 DEF Pause
    <3>4. CASE End
      BY <3>1, <3>4 DEF End
    <3>5. QED
      BY <1>2, <3>2, <3>3, <3>4 DEF ClockTicks, ClockEnds
  <2>2. UNCHANGED <<op, target, armed, slot, pts, seen, pc, tp, iterator_, table, lost, wiped,
                    stale, overlap>>
    BY <1>2 DEF ClockTicks, ClockEnds, commandVars, pingVars, slotVars, daqVars, history
  <2>3. TypeInv'
    BY <2>1, <2>2, StartTimeAssumption DEF RunInv, TypeInv
  <2>4. New' <=> New
    BY <2>1, <2>2 DEF New
  <2>5. SlotInv'
    BY <2>2 DEF RunInv, SlotInv
  <2>6. QED
    BY <2>1, <2>2, <2>3, <2>4, <2>5, RunFrame DEF RunInv
<1>3. ASSUME NEW p \in Pings, OnTimePing(p)
      PROVE  RunInv'
  <2>1. /\ alive /\ alive' = alive /\ now' = now /\ last' = now
        /\ pc[p] = "free" /\ pc' = [pc EXCEPT ![p] = "announce"]
        /\ tp' = [tp EXCEPT ![p] = now]
        /\ overlap' = (overlap \/ InFlight # {}) /\ stale' = (stale \/ op \in ResetSteps)
        /\ UNCHANGED <<op, target, armed, slot, pts, seen, iterator_, table, lost, wiped>>
    BY <1>3 DEF OnTimePing, Ping, commandVars, slotVars, daqVars
  <2>2. /\ pc \in [Pings -> {"free", "announce", "join", "session", "daily", "weekly", "next"}]
        /\ ~armed /\ op \notin Halted /\ now \in Nat /\ NoTime \notin Nat
    BY <2>1, NoTimeAssumption DEF RunInv, TypeInv, IInv, ClockInv, PingInv
  <2>3. TypeInv'
    BY <2>1, <2>2, StartTimeAssumption DEF RunInv, TypeInv
  <2>4. SlotInv'
    BY <2>1, <2>2 DEF RunInv, SlotInv
  <2>5. CASE ~Calm'
    BY <2>3, <2>4, <2>5 DEF RunInv, PlacingInv, NewInv, PastInv
  <2>6. CASE Calm'
    <3>1. Calm /\ InFlight = {} /\ op \notin ResetSteps /\ op \notin Placing
      BY <2>1, <2>6 DEF Calm, ResetSteps, Placing
    <3>2. ~New'
      BY <2>1, <2>2, <3>1 DEF New, ResetSteps
    <3>3. InFlight' = {p} /\ tp'[p] = last' /\ pc'[p] = "announce"
      BY <2>1, <2>2, <3>1 DEF InFlight, RunInv, TypeInv
    <3>4. ASSUME NEW d \in Sources
          PROVE  \E k \in 1..iterator_'[d] : Progress(d, k)' /\ Holds(p, d, k)'
      <4>1. /\ iterator_[d] \in Nat \ {0} /\ pts[p][d] = <<>> /\ slot[p][d] = "done"
            /\ iterator_[d] \in 1..iterator_[d] /\ Len(Data[d]) \in Nat /\ StartTime \in Nat
            /\ \A j \in 1..Len(Data[d]) : Data[d][j] \in Nat
            /\ StartTime <= now
        BY <2>1, RowTimes, StartTimeAssumption, SMTT(60) DEF RunInv, TypeInv, SlotInv
      <4>2. Holds(p, d, iterator_[d])'
        <5>1. Len(pts'[p][d]) = 0 /\ slot'[p][d] = "done"
          BY <2>1, <4>1
        <5>2. QED
          BY <2>1, <3>3, <4>1, <5>1 DEF Holds
      <4>3. CASE New
        <5>1. Positioned(d) /\ (d \in wiped => table[d] = {})
          BY <3>1, <4>3 DEF RunInv, NewInv
        <5>2. /\ iterator_[d] <= Len(Data[d]) /\ lost[d] = {}
              /\ \A j \in 1..iterator_[d] - 1 : Data[d][j] < StartTime
              /\ Data[d][iterator_[d]] >= StartTime
          BY <5>1 DEF Positioned
        <5>3. \A j \in iterator_[d]..Len(Data[d]) : Data[d][j] >= StartTime
          <6>1. ASSUME NEW j \in iterator_[d]..Len(Data[d])
                PROVE  /\ j \in 1..Len(Data[d]) /\ iterator_[d] \in 1..Len(Data[d])
                       /\ j = iterator_[d] \/ iterator_[d] < j
            BY <4>1
          <6>2. QED
            BY <4>1, <5>2, <6>1, RowTimes, SMTT(60)
        <5>4. \A j \in 1..iterator_[d] - 1 : Data[d][j] <= now /\ ~(Data[d][j] >= StartTime)
          <6>1. ASSUME NEW j \in 1..iterator_[d] - 1
                PROVE  j \in 1..Len(Data[d])
            BY <4>1, <5>2
          <6>2. QED
            BY <2>2, <4>1, <5>2, <6>1
        <5>5. Progress(d, iterator_[d])'
          BY <2>1, <3>3, <4>1, <5>1, <5>2, <5>3, <5>4 DEF Progress
        <5>6. QED
          BY <2>1, <4>1, <4>2, <5>5
      <4>4. CASE ~New
        <5>1. /\ Progress(d, iterator_[d])
              /\ last \in Nat /\ last <= now
          <6>1. PICK k \in 1..iterator_[d] : Progress(d, k)
            BY <3>1, <4>4 DEF RunInv, PastInv
          <6>2. k = iterator_[d]
            BY <3>1, <6>1 DEF Progress
          <6>3. last \in Nat /\ last <= now
            BY <4>4 DEF RunInv, TypeInv, New
          <6>4. QED
            BY <6>1, <6>2, <6>3
        <5>2. \A j \in 1..iterator_[d] - 1 : Data[d][j] <= now
          <6>1. ASSUME NEW j \in 1..iterator_[d] - 1
                PROVE  j \in 1..Len(Data[d]) /\ Data[d][j] <= last
            BY <4>1, <5>1 DEF Progress
          <6>2. QED
            BY <2>2, <4>1, <5>1, <6>1
        <5>3. Progress(d, iterator_[d])'
          BY <2>1, <3>3, <5>1, <5>2 DEF Progress
        <5>4. QED
          BY <2>1, <4>1, <4>2, <5>3
      <4>5. QED
        BY <4>3, <4>4
    <3>5. PastInv'
      BY <3>3, <3>4 DEF PastInv
    <3>6. QED
      BY <2>1, <2>3, <2>4, <3>1, <3>2, <3>5 DEF RunInv, PlacingInv, NewInv
  <2>7. QED
    BY <2>5, <2>6
<1>4. QED
  BY <1>1, <1>2, <1>3 DEF SimulatedClock

-----------------------------------------------------------------------------
(* The threads of a ping                                                   *)

(* In a calm run the ping in flight is the last one, and the only one.     *)
LEMMA CalmPing ==
  ASSUME RunInv, Calm, NEW p \in Pings, pc[p] # "free"
  PROVE  /\ ~New /\ op \notin Placing /\ InFlight = {p} /\ tp[p] = last
         /\ last \in Nat
         /\ \A d \in Sources : \E k \in 1..iterator_[d] : Progress(d, k) /\ Holds(p, d, k)
<1>1. p \in InFlight
  BY DEF InFlight
<1>2. op \notin Placing /\ ~New
  BY <1>1 DEF RunInv, PlacingInv, NewInv
<1>3. InFlight = {p} /\ tp[p] = last
  BY <1>1, <1>2 DEF RunInv, PastInv
<1>4. last \in Nat
  BY <1>2 DEF RunInv, TypeInv, New
<1>5. QED
  BY <1>1, <1>2, <1>3, <1>4 DEF RunInv, PastInv

(* A ping thread leaves clock and commands alone.                          *)
LEMMA ThreadFrame ==
  ASSUME NEW p \in Pings, PingThread(p)
  PROVE  /\ UNCHANGED <<clockVars, commandVars, stale, overlap, wiped>>
         /\ UNCHANGED <<last, op, target, armed>> /\ (New' <=> New) /\ (Calm' <=> Calm)
         /\ pc[p] # "free" \/ \E d \in Sources : PingSlot(p, d)
<1>1. /\ UNCHANGED <<clockVars, commandVars, stale, overlap, wiped>>
      /\ pc[p] # "free" \/ \E d \in Sources : PingSlot(p, d)
  BY DEF PingThread, Announce, Join, MakeDbSession, MakeDbSessionFails, Daily, Weekly, NextKpi,
         PingStep, history, PingSlot, Test, Push, PushGarbage, Increment, Acquire, AcquireFails,
         Insert, SlotStep
<1>2. UNCHANGED <<last, op, target, armed>>
  BY <1>1 DEF clockVars, commandVars
<1>3. New' <=> New
  BY ONLY <1>2 DEF New
<1>4. Calm' <=> Calm
  BY ONLY <1>1 DEF Calm
<1>5. QED
  BY ONLY <1>1, <1>2, <1>3, <1>4, SMTT(60)

(* The ping has announced its time and starts pingSlot.                    *)
LEMMA AnnounceRun ==
  ASSUME IInv, RunInv, NEW p \in Pings, Announce(p)
  PROVE  RunInv'
<1>1. /\ pc[p] = "announce" /\ pc' = [pc EXCEPT ![p] = "join"]
      /\ slot' = [slot EXCEPT ![p] = [d \in Sources |-> "test"]]
      /\ UNCHANGED <<tp, pts, seen, iterator_, table, lost>>
  BY DEF Announce, PingStep
<1>2. UNCHANGED <<clockVars, commandVars, wiped>> /\ (New' <=> New) /\ (Calm' <=> Calm)
      /\ op' = op
  BY ThreadFrame DEF PingThread
<1>3. TypeInv'
  BY <1>1, <1>2 DEF RunInv, TypeInv, clockVars, commandVars
<1>4. /\ pc'[p] = "join" /\ \A q \in Pings : q # p => pc'[q] = pc[q]
      /\ \A d \in Sources : slot'[p][d] = "test" /\ slot[p][d] = "done" /\ pts[p][d] = <<>>
      /\ \A q \in Pings, d \in Sources : q # p => slot'[q][d] = slot[q][d]
  BY <1>1 DEF RunInv, TypeInv, SlotInv, IInv, PingInv
<1>5. SlotInv'
  BY <1>1, <1>4 DEF RunInv, SlotInv
<1>6. CASE ~Calm
  BY <1>2, <1>3, <1>5, <1>6 DEF RunInv, PlacingInv, NewInv, PastInv
<1>7. CASE Calm
  <2>1. /\ ~New /\ op \notin Placing /\ InFlight = {p} /\ tp[p] = last
        /\ \A d \in Sources : \E k \in 1..iterator_[d] : Progress(d, k) /\ Holds(p, d, k)
    BY <1>1, <1>7, CalmPing
  <2>2. InFlight' = {p} /\ last' = last
    BY <1>2, <1>4, <2>1 DEF InFlight, clockVars
  <2>3. ASSUME NEW d \in Sources, NEW k \in 1..iterator_[d], Progress(d, k), Holds(p, d, k)
        PROVE  Progress(d, k)' /\ Holds(p, d, k)'
    <3>1. Progress(d, k)'
      BY <1>1, <1>2, <2>1, <2>2, <2>3 DEF Progress
    <3>2. Holds(p, d, k)'
      BY <1>1, <1>4, <2>3 DEF Holds
    <3>3. QED
      BY <3>1, <3>2
  <2>4. PastInv'
    BY <1>1, <2>1, <2>2, <2>3 DEF PastInv
  <2>5. QED
    BY <1>2, <1>3, <1>5, <2>1, <2>4 DEF RunInv, PlacingInv, NewInv
<1>8. QED
  BY <1>6, <1>7

(* What comes after pingSlot touches neither rows nor tables.              *)
LEMMA AfterRun ==
  ASSUME IInv, RunInv, NEW p \in Pings,
         \/ Join(p) \/ MakeDbSession(p) \/ MakeDbSessionFails(p)
         \/ Daily(p) \/ Weekly(p) \/ NextKpi(p)
  PROVE  RunInv'
<1>1. /\ pc[p] \in {"join", "session", "daily", "weekly", "next"}
      /\ pc[p] = "join" => \A d \in Sources : slot[p][d] = "done"
      /\ \/ pc' = [pc EXCEPT ![p] = "free"] /\ tp' = [tp EXCEPT ![p] = NoTime]
         \/ tp' = tp /\ \E to \in {"session", "daily", "weekly", "next"} :
                          pc' = [pc EXCEPT ![p] = to]
      /\ UNCHANGED <<slot, pts, seen, iterator_, table, lost>>
  <2>1. pc \in [Pings -> {"free", "announce", "join", "session", "daily", "weekly", "next"}]
    BY DEF IInv, PingInv
  <2>2. CASE MakeDbSessionFails(p)
    <3>1. pc[p] = "session" /\ pc' = pc
      BY <2>2 DEF MakeDbSessionFails, pingVars
    <3>2. pc' = [pc EXCEPT ![p] = "session"]
      BY <2>1, <3>1
    <3>3. QED
      BY <2>2, <3>1, <3>2 DEF MakeDbSessionFails, pingVars, slotVars, history
  <2>3. CASE Join(p)
    BY <2>3 DEF Join, PingStep, Leave
  <2>4. CASE MakeDbSession(p) \/ Daily(p) \/ Weekly(p)
    BY <2>4 DEF MakeDbSession, Daily, Weekly, PingStep
  <2>5. CASE NextKpi(p)
    BY <2>5 DEF NextKpi, PingStep, Leave
  <2>6. QED
    BY <2>2, <2>3, <2>4, <2>5
<1>2. UNCHANGED <<clockVars, commandVars, wiped>> /\ (New' <=> New) /\ (Calm' <=> Calm)
      /\ op' = op
  BY ThreadFrame DEF PingThread
<1>3. TypeInv'
  BY <1>1, <1>2 DEF RunInv, TypeInv, clockVars, commandVars
<1>4. /\ \A q \in Pings : q # p => pc'[q] = pc[q]
      /\ pc'[p] \in {"free", "session", "daily", "weekly", "next"}
      /\ pc'[p] # "free" => tp' = tp
      /\ \A d \in Sources : slot[p][d] = "done" /\ pts[p][d] = <<>>
  BY <1>1 DEF RunInv, SlotInv, IInv, PingInv
<1>5. SlotInv'
  BY <1>1, <1>4 DEF RunInv, SlotInv
<1>6. CASE ~Calm
  BY <1>2, <1>3, <1>5, <1>6 DEF RunInv, PlacingInv, NewInv, PastInv
<1>7. CASE Calm
  <2>1. /\ ~New /\ op \notin Placing /\ InFlight = {p} /\ tp[p] = last
        /\ \A d \in Sources : \E k \in 1..iterator_[d] : Progress(d, k) /\ Holds(p, d, k)
    BY <1>1, <1>7, CalmPing
  <2>2. InFlight' \in {{}, {p}} /\ last' = last /\ (InFlight' = {p} => tp'[p] = last)
    BY <1>2, <1>4, <2>1 DEF InFlight, clockVars
  <2>3. ASSUME NEW d \in Sources, NEW k \in 1..iterator_[d], Progress(d, k), Holds(p, d, k)
        PROVE  Progress(d, k)' /\ Holds(p, d, k)'
    <3>1. k = iterator_[d] /\ \A j \in iterator_[d]..Len(Data[d]) : last < Data[d][j]
      <4>1. Len(pts[p][d]) = 0 /\ iterator_[d] \in Nat /\ k \in Nat
        BY <1>4 DEF RunInv, TypeInv
      <4>2. Len(pts[p][d]) = (iterator_[d] - k) + 0
        BY <1>4, <2>3 DEF Holds
      <4>3. k = iterator_[d]
        BY <4>1, <4>2
      <4>4. QED
        BY <1>1, <1>4, <2>3, <4>3 DEF Holds
    <3>2. Progress(d, k)'
      BY <1>1, <1>2, <2>2, <2>3, <3>1 DEF Progress
    <3>3. Holds(p, d, k)'
      BY <1>1, <1>4, <2>2, <2>3, <3>1 DEF Holds
    <3>4. QED
      BY <3>2, <3>3
  <2>4. PastInv'
    BY <1>1, <2>1, <2>2, <2>3 DEF PastInv
  <2>5. QED
    BY <1>2, <1>3, <1>5, <2>1, <2>4 DEF RunInv, PlacingInv, NewInv
<1>8. QED
  BY <1>6, <1>7

-----------------------------------------------------------------------------
(* pingSlot                                                                *)

(* A step of pingSlot concerns its own ping and source only.               *)
OnlyAt(p, d) ==
  /\ \A e \in Sources \ {d} :
       iterator_'[e] = iterator_[e] /\ table'[e] = table[e] /\ lost'[e] = lost[e]
  /\ \A q \in Pings, e \in Sources :
       q # p \/ e # d =>
         slot'[q][e] = slot[q][e] /\ pts'[q][e] = pts[q][e] /\ seen'[q][e] = seen[q][e]

(* So it keeps the invariant if it does so for these.                      *)
LEMMA SlotCompose ==
  ASSUME RunInv, NEW p \in Pings, NEW d \in Sources, PingSlot(p, d), TypeInv', OnlyAt(p, d),
         slot'[p][d] \in {"acquire", "insert"} => pts'[p][d] # <<>>,
         slot'[p][d] = "done" => pts'[p][d] = <<>>,
         ASSUME NEW k \in 1..iterator_[d], Calm, Progress(d, k), Holds(p, d, k), tp[p] = last
         PROVE  \E n \in 1..iterator_'[d] : Progress(d, n)' /\ Holds(p, d, n)'
  PROVE  RunInv'
<1>1. PingThread(p)
  BY DEF PingThread
<1>2. slot[p][d] # "done" /\ UNCHANGED <<pc, tp>>
  BY DEF PingSlot, Test, Push, PushGarbage, Increment, Acquire, AcquireFails, Insert, SlotStep,
         pingVars
<1>3. pc[p] = "join" /\ InFlight' = InFlight
  BY <1>2 DEF RunInv, SlotInv, InFlight
<1>4. UNCHANGED <<last, op, wiped>> /\ (New' <=> New) /\ (Calm' <=> Calm)
  BY <1>1, ThreadFrame
<1>5. SlotInv'
  BY <1>2, <1>3 DEF RunInv, SlotInv, OnlyAt
<1>6. CASE ~Calm
  BY <1>4, <1>5, <1>6 DEF RunInv, PlacingInv, NewInv, PastInv
<1>7. CASE Calm
  <2>1. /\ ~New /\ op \notin Placing /\ InFlight = {p} /\ tp[p] = last
        /\ \A e \in Sources : \E k \in 1..iterator_[e] : Progress(e, k) /\ Holds(p, e, k)
    BY <1>3, <1>7, CalmPing
  <2>2. \A e \in Sources : \E k \in 1..iterator_'[e] : Progress(e, k)' /\ Holds(p, e, k)'
    <3>1. ASSUME NEW e \in Sources, e # d
          PROVE  \E k \in 1..iterator_'[e] : Progress(e, k)' /\ Holds(p, e, k)'
      <4>1. PICK k \in 1..iterator_[e] : Progress(e, k) /\ Holds(p, e, k)
        BY <2>1
      <4>2. Progress(e, k)'
        BY <1>3, <1>4, <3>1, <4>1 DEF OnlyAt, Progress
      <4>3. Holds(p, e, k)'
        BY <1>2, <1>4, <3>1, <4>1, SMTT(60) DEF OnlyAt, Holds
      <4>4. QED
        BY <3>1, <4>1, <4>2, <4>3 DEF OnlyAt
    <3>2. \E k \in 1..iterator_'[d] : Progress(d, k)' /\ Holds(p, d, k)'
      BY <1>7, <2>1
    <3>3. QED
      BY <3>1, <3>2
  <2>3. PastInv'
    BY <1>2, <1>3, <1>4, <2>1, <2>2 DEF PastInv
  <2>4. QED
    BY <1>4, <1>5, <2>1, <2>3 DEF RunInv, PlacingInv, NewInv
<1>8. QED
  BY <1>6, <1>7

(* What the types give of a slot at work.                                  *)
LEMMA SlotFacts ==
  ASSUME RunInv, NEW p \in Pings, NEW d \in Sources
  PROVE  /\ iterator_[d] \in Nat \ {0} /\ Len(Data[d]) \in Nat
         /\ pts[p][d] \in Seq(Nat) /\ Len(pts[p][d]) \in Nat
         /\ table[d] \subseteq Nat /\ lost[d] \subseteq Nat
         /\ iterator_[d] <= Len(Data[d]) => Data[d][iterator_[d]] \in Nat
         /\ slot[p][d] \in {"acquire", "insert"} => Len(pts[p][d]) \in Nat \ {0}
<1>1. /\ iterator_[d] \in Nat \ {0} /\ Len(Data[d]) \in Nat
      /\ pts[p][d] \in Seq(Nat) /\ Len(pts[p][d]) \in Nat
      /\ table[d] \subseteq Nat /\ lost[d] \subseteq Nat
  BY RowTimes DEF RunInv, TypeInv
<1>2. iterator_[d] <= Len(Data[d]) => Data[d][iterator_[d]] \in Nat
  BY <1>1, RowTimes
<1>3. slot[p][d] \in {"acquire", "insert"} => Len(pts[p][d]) \in Nat \ {0}
  BY <1>1, EmptySeq DEF RunInv, SlotInv
<1>4. QED
  BY <1>1, <1>2, <1>3

(* A row is due exactly when the ping has reached its time.                *)
LEMMA TestRun ==
  ASSUME RunInv, NEW p \in Pings, NEW d \in Sources, Test(p, d)
  PROVE  RunInv'
<1>1. PICK due \in Due(p, d) :
        /\ slot[p][d] = "test"
        /\ slot' = [slot EXCEPT ![p][d] = IF due THEN "push"
                                          ELSE IF pts[p][d] = <<>> THEN "done" ELSE "acquire"]
  BY DEF Test, SlotStep
<1>2. /\ UNCHANGED <<clockVars, commandVars, pingVars, stale, overlap, wiped>>
      /\ UNCHANGED <<iterator_, table, pts, seen, lost>>
  BY DEF Test, SlotStep
<1>3. UNCHANGED <<op, target, armed, now, last, alive, pc, tp>>
  BY <1>2 DEF clockVars, commandVars, pingVars
<1>4. TypeInv'
  BY <1>1, <1>2, <1>3 DEF RunInv, TypeInv
<1>5. OnlyAt(p, d)
  BY <1>1, <1>2 DEF OnlyAt, RunInv, TypeInv
<1>6. slot'[p][d] = IF due THEN "push" ELSE IF pts[p][d] = <<>> THEN "done" ELSE "acquire"
  BY <1>1 DEF RunInv, TypeInv
<1>7. ASSUME NEW k \in 1..iterator_[d], Calm, Progress(d, k), Holds(p, d, k), tp[p] = last
      PROVE  Progress(d, k)' /\ Holds(p, d, k)'
  <2>1. /\ pc[p] = "join" /\ last \in Nat /\ InFlight' = InFlight
        /\ iterator_[d] <= Len(Data[d]) + 1
    <3>1. pc[p] = "join"
      BY <1>1 DEF RunInv, SlotInv
    <3>2. QED
      BY <1>3, <1>7, <3>1, CalmPing DEF Progress, InFlight
  <2>2. Progress(d, k)'
    BY <1>2, <1>3, <1>7, <2>1 DEF Progress
  <2>3. CASE iterator_[d] <= Len(Data[d]) /\ due
    <3>1. Data[d][iterator_[d]] <= last
      BY <1>1, <1>7, <2>3, SlotFacts, <2>1 DEF Due
    <3>2. QED
      BY <1>1, <1>2, <1>3, <1>6, <1>7, <2>2, <2>3, <3>1 DEF Holds
  <2>4. CASE ~due
    <3>1. \A j \in iterator_[d]..Len(Data[d]) : last < Data[d][j]
      <4>1. ASSUME NEW j \in iterator_[d]..Len(Data[d])
            PROVE  /\ iterator_[d] \in 1..Len(Data[d]) /\ j \in 1..Len(Data[d])
                   /\ j = iterator_[d] \/ iterator_[d] < j
        BY SlotFacts
      <4>2. ASSUME NEW j \in iterator_[d]..Len(Data[d])
            PROVE  last < Data[d][iterator_[d]]
        <5>1. iterator_[d] <= Len(Data[d]) /\ Data[d][iterator_[d]] \in Nat
          BY <4>1, <4>2, RowTimes
        <5>2. ~(last >= Data[d][iterator_[d]])
          BY <1>1, <1>7, <2>4, <5>1 DEF Due
        <5>3. QED
          BY <2>1, <5>1, <5>2
      <4>3. QED
        BY <2>1, <4>1, <4>2, RowTimes, SMTT(60)
    <3>2. QED
      BY <1>1, <1>2, <1>3, <1>6, <1>7, <2>2, <2>4, <3>1 DEF Holds
  <2>5. CASE iterator_[d] = Len(Data[d]) + 1
    <3>1. ~(iterator_[d] <= Len(Data[d]))
      BY <2>5, SlotFacts
    <3>2. ~due
      BY <1>1, <2>5, <3>1 DEF Due
    <3>3. QED
      BY <2>4, <3>2
  <2>6. QED
    <3>1. iterator_[d] <= Len(Data[d]) \/ iterator_[d] = Len(Data[d]) + 1
      BY <2>1, SlotFacts
    <3>2. QED
      BY <2>3, <2>4, <2>5, <3>1
<1>8. PingSlot(p, d)
  BY DEF PingSlot
<1>9. QED
  BY <1>2, <1>4, <1>5, <1>6, <1>7, <1>8, SlotCompose

(* pingSlot runs while its ping waits for it.                              *)
LEMMA SlotFrame ==
  ASSUME RunInv, NEW p \in Pings, NEW d \in Sources, PingSlot(p, d)
  PROVE  /\ UNCHANGED <<op, target, armed, now, last, alive, pc, tp, wiped, InFlight>>
         /\ pc[p] = "join"
<1>1. PingThread(p)
  BY DEF PingThread
<1>2. slot[p][d] # "done" /\ UNCHANGED <<pc, tp>>
  BY DEF PingSlot, Test, Push, PushGarbage, Increment, Acquire, AcquireFails, Insert, SlotStep,
         pingVars
<1>3. pc[p] = "join" /\ InFlight' = InFlight
  BY <1>2 DEF RunInv, SlotInv, InFlight
<1>4. QED
  BY <1>1, <1>2, <1>3, ThreadFrame DEF clockVars

(* The row at iterator_ is collected.                                      *)
LEMMA PushRun ==
  ASSUME RunInv, NEW p \in Pings, NEW d \in Sources, Push(p, d)
  PROVE  RunInv'
<1>1. /\ iterator_[d] <= Len(Data[d]) /\ slot[p][d] = "push"
      /\ slot' = [slot EXCEPT ![p][d] = "step"]
      /\ seen' = [seen EXCEPT ![p][d] = iterator_[d]]
      /\ pts' = [pts EXCEPT ![p][d] = Append(pts[p][d], Data[d][iterator_[d]])]
      /\ UNCHANGED <<iterator_, table, lost>>
  BY DEF Push, SlotStep
<1>2. PingSlot(p, d)
  BY DEF PingSlot
<1>3. /\ UNCHANGED <<op, target, armed, now, last, alive, pc, tp, wiped, InFlight>>
      /\ pc[p] = "join"
  BY <1>2, SlotFrame
<1>4. /\ iterator_[d] \in Nat \ {0} /\ Data[d][iterator_[d]] \in Nat
      /\ pts[p][d] \in Seq(Nat) /\ Len(pts[p][d]) \in Nat /\ Len(Data[d]) \in Nat
  BY <1>1, SlotFacts
<1>5. /\ slot \in [Pings -> [Sources -> {"test", "push", "step", "acquire", "insert", "done"}]]
      /\ pts \in [Pings -> [Sources -> Seq(Nat)]]
      /\ seen \in [Pings -> [Sources -> Nat]]
  BY DEF RunInv, TypeInv
<1>6. TypeInv'
  <2>1. slot' \in [Pings -> [Sources -> {"test", "push", "step", "acquire", "insert", "done"}]]
    BY ONLY <1>1, <1>5
  <2>2. Append(pts[p][d], Data[d][iterator_[d]]) \in Seq(Nat)
    BY ONLY <1>4
  <2>3. pts' \in [Pings -> [Sources -> Seq(Nat)]]
    BY ONLY <1>1, <1>5, <2>2
  <2>4. seen' \in [Pings -> [Sources -> Nat]]
    BY ONLY <1>1, <1>4, <1>5
  <2>5. QED
    BY <1>1, <1>3, <2>1, <2>3, <2>4 DEF RunInv, TypeInv
<1>7. OnlyAt(p, d)
  BY <1>1, <1>5 DEF OnlyAt
<1>8. /\ slot'[p][d] = "step" /\ seen'[p][d] = iterator_[d]
      /\ pts'[p][d] = Append(pts[p][d], Data[d][iterator_[d]])
  BY ONLY <1>1, <1>5
<1>9. ASSUME NEW k \in 1..iterator_[d], Progress(d, k), Holds(p, d, k)
      PROVE  Progress(d, k)' /\ Holds(p, d, k)'
  <2>1. Progress(d, k)'
    BY <1>1, <1>3, <1>9 DEF Progress
  <2>2. Data[d][iterator_[d]] <= last
    BY <1>1, <1>9 DEF Holds
  <2>3. k \in Nat /\ Len(pts[p][d]) = iterator_[d] - k
    BY <1>1, <1>4, <1>9 DEF Holds
  <2>4. Len(pts'[p][d]) = (iterator_[d] - k) + 1
    BY ONLY <1>4, <1>8, <2>3
  <2>5. ASSUME NEW m \in 1..Len(pts'[p][d])
        PROVE  pts'[p][d][m] = Data[d][(k - 1) + m]
    <3>1. CASE m \in 1..Len(pts[p][d])
      <4>1. pts'[p][d][m] = pts[p][d][m]
        BY ONLY <1>4, <1>8, <3>1
      <4>2. QED
        BY <1>9, <3>1, <4>1 DEF Holds
    <3>2. CASE m = Len(pts[p][d]) + 1
      <4>1. pts'[p][d][m] = Data[d][iterator_[d]]
        BY ONLY <1>4, <1>8, <3>2
      <4>2. (k - 1) + m = iterator_[d]
        BY ONLY <1>4, <2>3, <3>2
      <4>3. QED
        BY ONLY <4>1, <4>2
    <3>3. QED
      BY ONLY <1>4, <2>3, <2>4, <2>5, <3>1, <3>2, SMTT(60)
  <2>6. Holds(p, d, k)'
    BY <1>1, <1>3, <1>8, <2>2, <2>4, <2>5 DEF Holds
  <2>7. QED
    BY <2>1, <2>6
<1>10. QED
  BY <1>1, <1>2, <1>6, <1>7, <1>8, <1>9, SlotCompose

(* Behind the rows pingSlot comes only with overlapping pings.             *)
LEMMA PushGarbageRun ==
  ASSUME RunInv, NEW p \in Pings, NEW d \in Sources, PushGarbage(p, d)
  PROVE  RunInv' /\ ~Calm
<1>1. /\ iterator_[d] > Len(Data[d]) /\ slot[p][d] = "push"
      /\ slot' = [slot EXCEPT ![p][d] = "done"]
      /\ pts' = [pts EXCEPT ![p][d] = <<>>]
      /\ UNCHANGED <<iterator_, table, lost, seen>>
  BY DEF PushGarbage, SlotStep
<1>2. PingSlot(p, d)
  BY DEF PingSlot
<1>3. /\ UNCHANGED <<op, target, armed, now, last, alive, pc, tp, wiped, InFlight>>
      /\ pc[p] = "join"
  BY <1>2, SlotFrame
<1>4. ~Calm
  <2>1. ASSUME Calm
        PROVE  iterator_[d] <= Len(Data[d])
    BY <1>1, <1>3, <2>1, CalmPing DEF Holds
  <2>2. QED
    BY <1>1, <2>1, SlotFacts
<1>5. /\ slot \in [Pings -> [Sources -> {"test", "push", "step", "acquire", "insert", "done"}]]
      /\ pts \in [Pings -> [Sources -> Seq(Nat)]]
  BY DEF RunInv, TypeInv
<1>6. TypeInv'
  BY <1>1, <1>3, <1>5 DEF RunInv, TypeInv
<1>7. OnlyAt(p, d)
  BY <1>1, <1>5 DEF OnlyAt
<1>8. slot'[p][d] = "done" /\ pts'[p][d] = <<>>
  BY ONLY <1>1, <1>5
<1>9. QED
  BY <1>2, <1>4, <1>6, <1>7, <1>8, SlotCompose

(* Nobody else has moved iterator_ meanwhile.                              *)
LEMMA IncrementRun ==
  ASSUME RunInv, NEW p \in Pings, NEW d \in Sources, Increment(p, d)
  PROVE  RunInv'
<1>1. PICK i \in {iterator_[d], seen[p][d]} :
        /\ slot[p][d] = "step" /\ slot' = [slot EXCEPT ![p][d] = "test"]
        /\ seen' = [seen EXCEPT ![p][d] = 0]
        /\ iterator_' = [iterator_ EXCEPT ![d] = i + 1]
        /\ UNCHANGED <<pts, table, lost>>
  BY DEF Increment, SlotStep
<1>2. PingSlot(p, d)
  BY DEF PingSlot
<1>3. /\ UNCHANGED <<op, target, armed, now, last, alive, pc, tp, wiped, InFlight>>
      /\ pc[p] = "join"
  BY <1>2, SlotFrame
<1>4. /\ iterator_[d] \in Nat \ {0} /\ i \in Nat
      /\ pts[p][d] \in Seq(Nat) /\ Len(pts[p][d]) \in Nat /\ Len(Data[d]) \in Nat
  BY <1>1, SlotFacts, SMTT(60) DEF RunInv, TypeInv
<1>5. /\ slot \in [Pings -> [Sources -> {"test", "push", "step", "acquire", "insert", "done"}]]
      /\ iterator_ \in [Sources -> Nat \ {0}]
      /\ seen \in [Pings -> [Sources -> Nat]]
  BY DEF RunInv, TypeInv
<1>6. TypeInv'
  <2>1. slot' \in [Pings -> [Sources -> {"test", "push", "step", "acquire", "insert", "done"}]]
    BY ONLY <1>1, <1>5
  <2>2. iterator_' \in [Sources -> Nat \ {0}]
    BY ONLY <1>1, <1>4, <1>5
  <2>3. seen' \in [Pings -> [Sources -> Nat]]
    BY ONLY <1>1, <1>5
  <2>4. QED
    BY <1>1, <1>3, <2>1, <2>2, <2>3 DEF RunInv, TypeInv
<1>7. OnlyAt(p, d)
  BY <1>1, <1>5 DEF OnlyAt
<1>8. slot'[p][d] = "test" /\ iterator_'[d] = i + 1
  BY ONLY <1>1, <1>5
<1>9. ASSUME NEW k \in 1..iterator_[d], Calm, Progress(d, k), Holds(p, d, k), tp[p] = last
      PROVE  k \in 1..iterator_'[d] /\ Progress(d, k)' /\ Holds(p, d, k)'
  <2>1. /\ iterator_'[d] = iterator_[d] + 1 /\ iterator_[d] <= Len(Data[d])
        /\ Data[d][iterator_[d]] <= last
    BY <1>1, <1>8, <1>9 DEF Holds
  <2>2. InFlight # {} /\ last \in Nat
    BY <1>3, <1>9, CalmPing DEF InFlight
  <2>3. iterator_'[d] <= Len(Data[d]) + 1
    BY ONLY <1>4, <2>1
  <2>4. \A j \in 1..iterator_'[d] - 1 : Data[d][j] <= last
    <3>1. ASSUME NEW j \in 1..iterator_'[d] - 1
          PROVE  j = iterator_[d] \/ j \in 1..iterator_[d] - 1
      BY ONLY <1>4, <2>1, <3>1
    <3>2. QED
      BY <1>9, <2>1, <3>1 DEF Progress
  <2>5. Progress(d, k)'
    BY <1>1, <1>3, <1>9, <2>2, <2>3, <2>4 DEF Progress
  <2>6. Len(pts[p][d]) = (iterator_'[d] - k) + 0
    <3>1. Len(pts[p][d]) = (iterator_[d] - k) + 1
      BY <1>1, <1>9 DEF Holds
    <3>2. QED
      BY ONLY <1>4, <1>9, <2>1, <3>1
  <2>7. Holds(p, d, k)'
    BY <1>1, <1>3, <1>8, <1>9, <2>6 DEF Holds
  <2>8. k \in 1..iterator_'[d]
    BY ONLY <1>4, <1>9, <2>1
  <2>9. QED
    BY <2>5, <2>7, <2>8
<1>10. QED
  BY <1>2, <1>6, <1>7, <1>8, <1>9, SlotCompose

(* insertData has a connection.                                            *)
LEMMA AcquireRun ==
  ASSUME RunInv, NEW p \in Pings, NEW d \in Sources, Acquire(p, d)
  PROVE  RunInv'
<1>1. /\ slot[p][d] = "acquire" /\ slot' = [slot EXCEPT ![p][d] = "insert"]
      /\ UNCHANGED <<pts, seen, iterator_, table, lost>>
  BY DEF Acquire, SlotStep
<1>2. PingSlot(p, d)
  BY DEF PingSlot
<1>3. /\ UNCHANGED <<op, target, armed, now, last, alive, pc, tp, wiped, InFlight>>
      /\ pc[p] = "join"
  BY <1>2, SlotFrame
<1>4. slot \in [Pings -> [Sources -> {"test", "push", "step", "acquire", "insert", "done"}]]
  BY DEF RunInv, TypeInv
<1>5. TypeInv'
  BY <1>1, <1>3, <1>4 DEF RunInv, TypeInv
<1>6. OnlyAt(p, d) /\ slot'[p][d] = "insert"
  BY <1>1, <1>4 DEF OnlyAt
<1>7. pts'[p][d] # <<>>
  BY <1>1 DEF RunInv, SlotInv
<1>8. ASSUME NEW k \in 1..iterator_[d], Progress(d, k), Holds(p, d, k)
      PROVE  Progress(d, k)' /\ Holds(p, d, k)'
  <2>1. Progress(d, k)'
    BY <1>1, <1>3, <1>8 DEF Progress
  <2>2. Holds(p, d, k)'
    BY <1>1, <1>3, <1>6, <1>8 DEF Holds
  <2>3. QED
    BY <2>1, <2>2
<1>9. QED
  BY <1>1, <1>2, <1>5, <1>6, <1>7, <1>8, SlotCompose

(* The rows a ping is to insert are those from k on, and are in no table.  *)
LEMMA RowsHeld ==
  ASSUME RunInv, NEW p \in Pings, NEW d \in Sources, NEW k \in 1..iterator_[d],
         Progress(d, k), Holds(p, d, k), pc[p] = "join", slot[p][d] \in {"acquire", "insert"}
  PROVE  /\ k \in Nat /\ k < iterator_[d] /\ Len(pts[p][d]) = iterator_[d] - k
         /\ \A j \in 1..iterator_[d] - 1 : j \in 1..Len(Data[d]) /\ Data[d][j] \in Nat
         /\ \A j \in k..iterator_[d] - 1 : Data[d][j] >= StartTime
         /\ \A j \in k..iterator_[d] - 1 : \A i \in 1..k - 1 : Data[d][i] # Data[d][j]
         /\ \A j \in iterator_[d]..Len(Data[d]) : last < Data[d][j]
<1>1. /\ iterator_[d] \in Nat \ {0} /\ Len(pts[p][d]) \in Nat \ {0} /\ Len(Data[d]) \in Nat
      /\ k \in Nat
  BY SlotFacts
<1>2. Len(pts[p][d]) = (iterator_[d] - k) + 0 /\ iterator_[d] <= Len(Data[d]) + 1
  BY DEF Holds, Progress
<1>3. k < iterator_[d] /\ Len(pts[p][d]) = iterator_[d] - k
  BY ONLY <1>1, <1>2
<1>4. \A j \in 1..iterator_[d] - 1 : j \in 1..Len(Data[d])
  BY ONLY <1>1, <1>2
<1>5. \A j \in k..iterator_[d] - 1 : Data[d][j] >= StartTime
  <2>1. \A j \in k..iterator_[d] - 1 : j \in k..Len(Data[d])
    BY ONLY <1>1, <1>2
  <2>2. QED
    BY <2>1 DEF Progress
<1>6. \A j \in k..iterator_[d] - 1 : \A i \in 1..k - 1 : Data[d][i] # Data[d][j]
  <2>1. ASSUME NEW j \in k..iterator_[d] - 1, NEW i \in 1..k - 1
        PROVE  i < j /\ i \in 1..iterator_[d] - 1 /\ j \in 1..iterator_[d] - 1
    BY ONLY <1>1, <1>3, <2>1
  <2>2. ASSUME NEW j \in k..iterator_[d] - 1, NEW i \in 1..k - 1
        PROVE  Data[d][i] \in Nat /\ Data[d][j] \in Nat /\ Data[d][i] < Data[d][j]
    BY <1>4, <2>1, RowTimes
  <2>3. QED
    BY ONLY <2>2
<1>7. QED
  BY <1>1, <1>3, <1>4, <1>5, <1>6, RowTimes DEF Holds

(* Without a connection all of them are refused.                           *)
LEMMA AcquireFailsRun ==
  ASSUME RunInv, NEW p \in Pings, NEW d \in Sources, AcquireFails(p, d)
  PROVE  RunInv'
<1> DEFINE refused == {pts[p][d][i] : i \in DOMAIN pts[p][d]}
<1>1. /\ slot[p][d] = "acquire" /\ slot' = [slot EXCEPT ![p][d] = "done"]
      /\ pts' = [pts EXCEPT ![p][d] = <<>>]
      /\ lost' = [lost EXCEPT ![d] = lost[d] \cup refused]
      /\ UNCHANGED <<seen, iterator_, table>>
  BY DEF AcquireFails, SlotStep
<1>2. PingSlot(p, d)
  BY DEF PingSlot
<1>3. /\ UNCHANGED <<op, target, armed, now, last, alive, pc, tp, wiped, InFlight>>
      /\ pc[p] = "join"
  BY <1>2, SlotFrame
<1>4. /\ slot \in [Pings -> [Sources -> {"test", "push", "step", "acquire", "insert", "done"}]]
      /\ pts \in [Pings -> [Sources -> Seq(Nat)]]
      /\ lost \in [Sources -> SUBSET Nat]
  BY DEF RunInv, TypeInv
<1>5. /\ refused \subseteq Nat /\ pts[p][d] \in Seq(Nat) /\ Len(pts[p][d]) \in Nat
      /\ iterator_[d] \in Nat \ {0} /\ table[d] \subseteq Nat
      /\ DOMAIN pts[p][d] = 1..Len(pts[p][d])
  BY SlotFacts
<1>6. TypeInv'
  <2>1. slot' \in [Pings -> [Sources -> {"test", "push", "step", "acquire", "insert", "done"}]]
    BY ONLY <1>1, <1>4
  <2>2. pts' \in [Pings -> [Sources -> Seq(Nat)]]
    BY ONLY <1>1, <1>4
  <2>3. lost[d] \cup refused \subseteq Nat
    BY <1>4, <1>5
  <2>4. lost' \in [Sources -> SUBSET Nat]
    BY <1>1, <1>4, <2>3
  <2>5. QED
    BY <1>1, <1>3, <2>1, <2>2, <2>4 DEF RunInv, TypeInv
<1>7. OnlyAt(p, d)
  BY <1>1, <1>4 DEF OnlyAt
<1>8. slot'[p][d] = "done" /\ pts'[p][d] = <<>> /\ lost'[d] = lost[d] \cup refused
  BY <1>1, <1>4
<1>9. ASSUME NEW k \in 1..iterator_[d], NEW n \in Nat, n = iterator_[d],
             Progress(d, k), Holds(p, d, k)
      PROVE  Progress(d, n)' /\ Holds(p, d, n)'
  <2>1. /\ k \in Nat /\ k < iterator_[d] /\ Len(pts[p][d]) = iterator_[d] - k
        /\ \A j \in k..iterator_[d] - 1 : \A i \in 1..k - 1 : Data[d][i] # Data[d][j]
        /\ \A j \in iterator_[d]..Len(Data[d]) : last < Data[d][j]
    BY <1>1, <1>3, <1>9, RowsHeld
  <2>2. \A m \in 1..Len(pts[p][d]) : pts[p][d][m] = Data[d][(k - 1) + m]
    BY <1>9 DEF Holds
  <2>3. \A t \in refused : \E j \in k..iterator_[d] - 1 : t = Data[d][j]
    <3>1. ASSUME NEW m \in 1..Len(pts[p][d])
          PROVE  (k - 1) + m \in k..iterator_[d] - 1
      BY ONLY <1>5, <2>1, <3>1
    <3>2. QED
      BY <1>5, <2>2, <3>1
  <2>4. \A j \in k..iterator_[d] - 1 : Data[d][j] \in refused
    <3>1. ASSUME NEW j \in k..iterator_[d] - 1
          PROVE  (j - k) + 1 \in 1..Len(pts[p][d]) /\ (k - 1) + ((j - k) + 1) = j
      BY ONLY <1>5, <2>1, <3>1
    <3>2. ASSUME NEW j \in k..iterator_[d] - 1
          PROVE  Data[d][j] \in refused
      <4>1. pts[p][d][(j - k) + 1] = Data[d][j]
        BY <2>2, <3>1
      <4>2. QED
        BY <1>5, <3>1, <4>1
    <3>3. QED
      BY <3>2
  <2>5. \A j \in 1..iterator_[d] - 1 : j \in 1..k - 1 \/ j \in k..iterator_[d] - 1
    BY ONLY <1>5, <2>1
  <2>6. \A j \in 1..k - 1 : j \in 1..iterator_[d] - 1
    BY ONLY <1>5, <2>1
  <2>7. \A j \in k..iterator_[d] - 1 : j \in 1..iterator_[d] - 1
    BY ONLY <1>5, <1>9, <2>1
  <2>8. \A t \in lost'[d] : \E j \in 1..iterator_[d] - 1 : t = Data[d][j]
    BY <1>8, <1>9, <2>3, <2>6, <2>7, ZenonT(60) DEF Progress
  <2>9. ASSUME d \in wiped, NEW t \in Nat
        PROVE  t \in table[d] <=>
                 t >= StartTime /\ t \notin lost'[d] /\ \E j \in 1..iterator_[d] - 1 : t = Data[d][j]
    <3>1. t \in table[d] <=>
            t >= StartTime /\ t \notin lost[d] /\ \E j \in 1..k - 1 : t = Data[d][j]
      BY <1>9, <2>9 DEF Progress
    <3>2. (\E j \in 1..k - 1 : t = Data[d][j]) => t \notin refused
      BY <2>1, <2>3
    <3>3. t \notin refused /\ (\E j \in 1..iterator_[d] - 1 : t = Data[d][j])
            => \E j \in 1..k - 1 : t = Data[d][j]
      BY <2>4, <2>5
    <3>4. (\E j \in 1..k - 1 : t = Data[d][j]) => \E j \in 1..iterator_[d] - 1 : t = Data[d][j]
      BY <2>6
    <3>5. t \in lost'[d] <=> t \in lost[d] \/ t \in refused
      BY <1>8
    <3>6. QED
      BY ONLY <3>1, <3>2, <3>3, <3>4, <3>5
  <2>10. Progress(d, n)'
    <3>1. \A j \in iterator_[d]..Len(Data[d]) : j \in k..Len(Data[d])
      BY <1>5, <2>1, SlotFacts
    <3>2. InFlight # {}
      BY <1>3 DEF InFlight
    <3>3. QED
      BY <1>1, <1>3, <1>9, <2>1, <2>8, <2>9, <3>1, <3>2 DEF Progress
  <2>11. Holds(p, d, n)'
    <3>1. Len(pts'[p][d]) = (iterator_[d] - n) + 0 /\ 1..Len(pts'[p][d]) = {}
      BY <1>5, <1>8, <1>9
    <3>2. QED
      BY <1>1, <1>3, <1>8, <1>9, <2>1, <3>1 DEF Holds
  <2>12. QED
    BY <2>10, <2>11
<1>10. iterator_[d] \in 1..iterator_'[d]
  BY <1>1, <1>5
<1>11. QED
  <2>1. ASSUME NEW k \in 1..iterator_[d], Calm, Progress(d, k), Holds(p, d, k), tp[p] = last
        PROVE  \E n \in 1..iterator_'[d] : Progress(d, n)' /\ Holds(p, d, n)'
    <3>1. PICK n \in 1..iterator_'[d] : n = iterator_[d]
      BY <1>10
    <3>2. n \in Nat
      BY <1>5, <3>1
    <3>3. QED
      BY <1>9, <2>1, <3>1, <3>2
  <2>2. QED
    BY <1>2, <1>6, <1>7, <1>8, <2>1, SlotCompose

(* One row is stored, or refused.                                          *)
LEMMA InsertRun ==
  ASSUME RunInv, NEW p \in Pings, NEW d \in Sources, Insert(p, d)
  PROVE  RunInv'
<1> DEFINE row == Head(pts[p][d])
<1>1. /\ slot[p][d] = "insert"
      /\ slot' = [slot EXCEPT ![p][d] = IF Len(pts[p][d]) = 1 THEN "done" ELSE "insert"]
      /\ pts' = [pts EXCEPT ![p][d] = Tail(pts[p][d])]
      /\ \/ table' = [table EXCEPT ![d] = table[d] \cup {row}] /\ lost' = lost
         \/ lost' = [lost EXCEPT ![d] = lost[d] \cup {row}] /\ table' = table
      /\ UNCHANGED <<seen, iterator_>>
  BY DEF Insert, SlotStep
<1>2. PingSlot(p, d)
  BY DEF PingSlot
<1>3. /\ UNCHANGED <<op, target, armed, now, last, alive, pc, tp, wiped, InFlight>>
      /\ pc[p] = "join"
  BY <1>2, SlotFrame
<1>4. /\ slot \in [Pings -> [Sources -> {"test", "push", "step", "acquire", "insert", "done"}]]
      /\ pts \in [Pings -> [Sources -> Seq(Nat)]]
      /\ lost \in [Sources -> SUBSET Nat] /\ table \in [Sources -> SUBSET Nat]
  BY DEF RunInv, TypeInv
<1>5. /\ pts[p][d] \in Seq(Nat) /\ Len(pts[p][d]) \in Nat \ {0}
      /\ iterator_[d] \in Nat \ {0} /\ table[d] \subseteq Nat /\ lost[d] \subseteq Nat
  BY <1>1, SlotFacts
<1>6. /\ row \in Nat /\ row = pts[p][d][1] /\ Tail(pts[p][d]) \in Seq(Nat)
      /\ Len(Tail(pts[p][d])) = Len(pts[p][d]) - 1
      /\ \A m \in 1..Len(pts[p][d]) - 1 : Tail(pts[p][d])[m] = pts[p][d][m + 1]
  <2>1. pts[p][d] # <<>>
    BY ONLY <1>5
  <2>2. QED
    BY ONLY <1>5, <2>1, HeadTailProperties, SMTT(30)
<1>7. TypeInv'
  <2>1. slot' \in [Pings -> [Sources -> {"test", "push", "step", "acquire", "insert", "done"}]]
    BY ONLY <1>1, <1>4
  <2>2. pts' \in [Pings -> [Sources -> Seq(Nat)]]
    BY ONLY <1>1, <1>4, <1>6
  <2>3. lost[d] \cup {row} \subseteq Nat /\ table[d] \cup {row} \subseteq Nat
    BY <1>5, <1>6
  <2>4. lost' \in [Sources -> SUBSET Nat] /\ table' \in [Sources -> SUBSET Nat]
    BY <1>1, <1>4, <2>3
  <2>5. QED
    BY <1>1, <1>3, <2>1, <2>2, <2>4 DEF RunInv, TypeInv
<1>8. OnlyAt(p, d)
  BY <1>1, <1>4 DEF OnlyAt
<1>9. /\ slot'[p][d] = (IF Len(pts[p][d]) = 1 THEN "done" ELSE "insert")
      /\ pts'[p][d] = Tail(pts[p][d])
      /\ \/ table'[d] = table[d] \cup {row} /\ lost'[d] = lost[d]
         \/ table'[d] = table[d] /\ lost'[d] = lost[d] \cup {row}
  BY <1>1, <1>4
<1>10. /\ slot'[p][d] \in {"acquire", "insert"} => pts'[p][d] # <<>>
       /\ slot'[p][d] = "done" => pts'[p][d] = <<>>
  <2>1. CASE Len(pts[p][d]) = 1
    <3>1. Len(Tail(pts[p][d])) = 0
      BY ONLY <1>6, <2>1
    <3>2. Tail(pts[p][d]) = <<>>
      BY ONLY <1>6, <3>1, EmptySeq
    <3>3. QED
      BY <1>9, <2>1, <3>2
  <2>2. CASE Len(pts[p][d]) # 1
    <3>1. Len(Tail(pts[p][d])) # 0 /\ Len(<<>>) = 0
      BY ONLY <1>5, <1>6, <2>2
    <3>2. QED
      BY <1>9, <2>2, <3>1
  <2>3. QED
    BY <2>1, <2>2
<1>11. ASSUME NEW k \in 1..iterator_[d], NEW n \in Nat, n = k + 1,
              Progress(d, k), Holds(p, d, k)
       PROVE  n \in 1..iterator_[d] /\ Progress(d, n)' /\ Holds(p, d, n)'
  <2>1. /\ k \in Nat \ {0} /\ k < iterator_[d] /\ Len(pts[p][d]) = iterator_[d] - k
        /\ \A j \in k..iterator_[d] - 1 : Data[d][j] >= StartTime
        /\ \A j \in k..iterator_[d] - 1 : \A i \in 1..k - 1 : Data[d][i] # Data[d][j]
        /\ \A j \in iterator_[d]..Len(Data[d]) : last < Data[d][j]
    BY <1>1, <1>3, <1>11, RowsHeld
  <2>2. row = Data[d][k]
    <3>1. 1 \in 1..Len(pts[p][d]) /\ (k - 1) + 1 = k
      BY ONLY <1>5, <2>1
    <3>2. pts[p][d][1] = Data[d][(k - 1) + 1]
      BY <1>11, <3>1 DEF Holds
    <3>3. QED
      BY ONLY <1>6, <3>1, <3>2
  <2>3. row >= StartTime /\ \A i \in 1..k - 1 : Data[d][i] # row
    <3>1. k \in k..iterator_[d] - 1
      BY ONLY <1>5, <2>1
    <3>2. QED
      BY <2>1, <2>2, <3>1
  <2>4. n \in 1..iterator_[d] /\ n - 1 = k
    BY ONLY <1>5, <1>11, <2>1
  <2>5. \A t : (\E j \in 1..n - 1 : t = Data[d][j]) <=>
               t = row \/ \E j \in 1..k - 1 : t = Data[d][j]
    <3>1. \A j : j \in 1..n - 1 <=> j = k \/ j \in 1..k - 1
      BY ONLY <2>1, <2>4
    <3>2. QED
      BY ONLY <2>2, <3>1
  <2>6. \A t \in lost'[d] : \E j \in 1..n - 1 : t = Data[d][j]
    <3>1. \A t \in lost[d] : \E j \in 1..k - 1 : t = Data[d][j]
      BY <1>11 DEF Progress
    <3>2. QED
      BY <1>9, <2>5, <3>1
  <2>7. ASSUME d \in wiped, NEW t \in Nat
        PROVE  t \in table'[d] <=>
                 t >= StartTime /\ t \notin lost'[d] /\ \E j \in 1..n - 1 : t = Data[d][j]
    <3>1. t \in table[d] <=>
            t >= StartTime /\ t \notin lost[d] /\ \E j \in 1..k - 1 : t = Data[d][j]
      BY <1>11, <2>7 DEF Progress
    <3>2. t = row => t >= StartTime /\ t \notin lost[d] /\ ~(\E j \in 1..k - 1 : t = Data[d][j])
      BY <1>11, <2>3 DEF Progress
    <3>3. (\E j \in 1..n - 1 : t = Data[d][j]) <=> t = row \/ \E j \in 1..k - 1 : t = Data[d][j]
      BY <2>5
    <3>4. \/ (t \in table'[d] <=> t \in table[d] \/ t = row) /\ (t \in lost'[d] <=> t \in lost[d])
          \/ (t \in table'[d] <=> t \in table[d]) /\ (t \in lost'[d] <=> t \in lost[d] \/ t = row)
      BY <1>9
    <3>5. QED
      BY ONLY <3>1, <3>2, <3>3, <3>4
  <2>8. Progress(d, n)'
    <3>1. \A j \in n..Len(Data[d]) : j \in k..Len(Data[d])
      BY <1>11, <2>1, SlotFacts
    <3>2. InFlight # {}
      BY <1>3 DEF InFlight
    <3>3. QED
      BY <1>1, <1>3, <1>11, <2>6, <2>7, <3>1, <3>2 DEF Progress
  <2>9. Holds(p, d, n)'
    <3>1. Len(pts'[p][d]) = (iterator_[d] - n) + 0
      BY ONLY <1>5, <1>6, <1>9, <1>11, <2>1
    <3>2. ASSUME NEW m \in 1..Len(pts'[p][d])
          PROVE  pts'[p][d][m] = Data[d][(n - 1) + m]
      <4>1. /\ m \in 1..Len(pts[p][d]) - 1 /\ m + 1 \in 1..Len(pts[p][d])
            /\ (k - 1) + (m + 1) = (n - 1) + m
        BY ONLY <1>5, <1>6, <1>9, <2>1, <2>4, <3>2
      <4>2. pts'[p][d][m] = pts[p][d][m + 1]
        BY <1>6, <1>9, <4>1
      <4>3. pts[p][d][m + 1] = Data[d][(k - 1) + (m + 1)]
        BY <1>11, <4>1 DEF Holds
      <4>4. QED
        BY ONLY <4>1, <4>2, <4>3
    <3>3. slot'[p][d] \in {"done", "insert"}
      BY <1>9
    <3>4. QED
      BY <1>1, <1>3, <2>1, <3>1, <3>2, <3>3 DEF Holds
  <2>10. QED
    BY <2>4, <2>8, <2>9
<1>12. QED
  <2>1. ASSUME NEW k \in 1..iterator_[d], Calm, Progress(d, k), Holds(p, d, k), tp[p] = last
        PROVE  \E n \in 1..iterator_'[d] : Progress(d, n)' /\ Holds(p, d, n)'
    <3>1. PICK n \in Nat : n = k + 1
      BY <1>5
    <3>2. n \in 1..iterator_[d] /\ Progress(d, n)' /\ Holds(p, d, n)'
      BY <1>11, <2>1, <3>1
    <3>3. QED
      BY <1>1, <3>2
  <2>2. QED
    BY <1>2, <1>7, <1>8, <1>10, <2>1, SlotCompose

-----------------------------------------------------------------------------

(* Every step keeps the invariant.                                         *)
LEMMA RunStep == IInv /\ RunInv /\ [Next]_vars => RunInv'
<1> SUFFICES ASSUME IInv, RunInv, [Next]_vars
             PROVE  RunInv'
  OBVIOUS
<1>1. CASE UNCHANGED vars
  <2>1. UNCHANGED <<op, target, armed, now, last, alive, pc, tp, wiped, stale, overlap, table,
                    iterator_, lost, slot, pts, seen>>
    BY <1>1 DEF vars, clockVars, commandVars, pingVars, slotVars, daqVars, history
  <2>2. TypeInv' /\ SlotInv' /\ (New' <=> New)
    BY <2>1 DEF RunInv, TypeInv, SlotInv, New
  <2>3. PlacingInv' /\ NewInv' /\ PastInv'
    BY <2>1, <2>2, RunFrame DEF RunInv
  <2>4. QED
    BY <2>2, <2>3 DEF RunInv
<1>2. ASSUME NEW p \in Pings, PingThread(p)
      PROVE  RunInv'
  <2>1. ASSUME NEW d \in Sources, PingSlot(p, d)
        PROVE  RunInv'
    BY <2>1, TestRun, PushRun, PushGarbageRun, IncrementRun, AcquireRun, AcquireFailsRun,
       InsertRun DEF PingSlot
  <2>2. QED
    BY <1>2, <2>1, AnnounceRun, AfterRun DEF PingThread
<1>3. QED
  BY <1>1, <1>2, OperatorRun, ClockRun DEF Next

(* For all data: at the KPI computation of a ping, and between pings, the  *)
(* tables this run deleted hold the rows of the run up to the last ping    *)
(* and no others, but for those the database refused.  pingSlot neither    *)
(* skips nor repeats nor anticipates a row.                                *)
THEOREM PastTheorem == Spec => []DatabaseMirrorsPast
<1>1. RunInv => DatabaseMirrorsPast
  <2> SUFFICES ASSUME RunInv, ~stale, ~overlap, Settled, last # NoTime, Stored,
                      NEW d \in wiped
               PROVE  table[d] = {t \in Rows(d) : StartTime <= t /\ t <= last} \ lost[d]
    BY DEF DatabaseMirrorsPast
  <2>1. Calm /\ ~New /\ op \notin Placing /\ last \in Nat /\ d \in Sources
    BY DEF Calm, Settled, New, Placing, Halted, RunInv, TypeInv
  <2>2. PICK k \in 1..iterator_[d] : Progress(d, k) /\ \A p \in InFlight : Holds(p, d, k)
    BY <2>1 DEF RunInv, PastInv
  <2>3. k = iterator_[d] /\ \A j \in iterator_[d]..Len(Data[d]) : last < Data[d][j]
    <3>1. CASE InFlight = {}
      BY <2>2, <3>1 DEF Progress
    <3>2. ASSUME NEW p \in InFlight
          PROVE  k = iterator_[d] /\ \A j \in iterator_[d]..Len(Data[d]) : last < Data[d][j]
      <4>1. p \in Pings /\ pc[p] \notin {"announce", "join"}
        BY DEF InFlight, Stored
      <4>2. slot[p][d] = "done" /\ pts[p][d] = <<>>
        BY <2>1, <4>1 DEF RunInv, SlotInv
      <4>3. Len(pts[p][d]) = (iterator_[d] - k) + 0 /\ iterator_[d] \in Nat /\ k \in Nat
        BY <2>1, <2>2, <4>1, <4>2 DEF Holds, RunInv, TypeInv
      <4>4. k = iterator_[d]
        BY ONLY <4>2, <4>3
      <4>5. QED
        BY <2>2, <4>1, <4>2, <4>4 DEF Holds
    <3>3. QED
      BY <3>1, <3>2
  <2>4. /\ iterator_[d] \in Nat \ {0} /\ Len(Data[d]) \in Nat /\ table[d] \subseteq Nat
        /\ iterator_[d] <= Len(Data[d]) + 1
        /\ \A j \in 1..Len(Data[d]) : Data[d][j] \in Nat
    BY <2>1, <2>2, RowTimes DEF RunInv, TypeInv, Progress
  <2>5. \A t \in Nat : t \in table[d] <=>
          t >= StartTime /\ t \notin lost[d] /\ \E j \in 1..iterator_[d] - 1 : t = Data[d][j]
    BY <2>2, <2>3 DEF Progress
  <2>6. \A t : (\E j \in 1..iterator_[d] - 1 : t = Data[d][j]) <=> t \in Rows(d) /\ t <= last
    <3>1. \A j \in 1..iterator_[d] - 1 : j \in 1..Len(Data[d])
      BY ONLY <2>4
    <3>2. \A j \in 1..Len(Data[d]) :
            j \in 1..iterator_[d] - 1 \/ j \in iterator_[d]..Len(Data[d])
      BY ONLY <2>4
    <3>3. \A j \in 1..iterator_[d] - 1 : Data[d][j] <= last
      BY <2>2 DEF Progress
    <3>4. \A j \in iterator_[d]..Len(Data[d]) : ~(Data[d][j] <= last)
      <4>1. ASSUME NEW j \in iterator_[d]..Len(Data[d])
            PROVE  j \in 1..Len(Data[d])
        BY ONLY <2>4, <4>1
      <4>2. QED
        BY <2>1, <2>3, <2>4, <4>1
    <3>5. QED
      BY <3>1, <3>2, <3>3, <3>4 DEF Rows
  <2>7. Rows(d) \subseteq Nat
    BY <2>4 DEF Rows
  <2>8. \A t \in Nat : t >= StartTime <=> StartTime <= t
    BY StartTimeAssumption
  <2>9. QED
    BY ONLY <2>4, <2>5, <2>6, <2>7, <2>8
<1>2. QED
  BY <1>1, InvInit, InvStep, RunInit, RunStep, PTL DEF Spec

(* Unless pings overlap or meet a restart, nothing but a failing           *)
(* makeDbSession terminates the process: iterator_ is not used beyond the  *)
(* end of the rows.                                                        *)
THEOREM CrashTheorem == Spec => []CrashNeedsOverlap
<1>1. Init => CrashNeedsOverlap
  BY DEF Init, CrashNeedsOverlap
<1>2. IInv /\ RunInv /\ CrashNeedsOverlap /\ [Next]_vars => CrashNeedsOverlap'
  <2> SUFFICES ASSUME IInv, RunInv, CrashNeedsOverlap, [Next]_vars
               PROVE  CrashNeedsOverlap'
    OBVIOUS
  <2>1. CASE crashed
    BY <2>1 DEF Next, vars, pingVars, history, CrashNeedsOverlap
  <2>2. CASE UNCHANGED vars
    BY <2>2 DEF vars, pingVars, daqVars, history, CrashNeedsOverlap
  <2>3. ASSUME ~crashed, Operator \/ SimulatedClock
        PROVE  ~crashed'
    BY <2>3 DEF Operator, StartCommand, Rewind, SeekOn, SeekEnds, SeekThrows, ResetKpi,
         StopCommand, StopReturns, CleanDatabase, Delete, DeleteFails, NewCalculation, StartClock,
         daqVars, SimulatedClock, ClockBegins, ClockTicks, ClockEnds, OnTimePing
  <2>4. ASSUME ~crashed, NEW p \in Pings, PingThread(p)
        PROVE  crashed' => stale' \/ overlap' \/ pc'[p] = "session"
    <3>1. CASE MakeDbSessionFails(p)
      BY <3>1 DEF MakeDbSessionFails, pingVars
    <3>2. ASSUME NEW d \in Sources, PingSlot(p, d)
          PROVE  crashed' => stale' \/ overlap'
      <4>1. CASE PushGarbage(p, d)
        BY <2>4, <4>1, PushGarbageRun, ThreadFrame DEF Calm
      <4>2. CASE ~PushGarbage(p, d)
        BY <2>4, <3>2, <4>2 DEF PingSlot, Test, Push, Increment, Acquire, AcquireFails, Insert
      <4>3. QED
        BY <4>1, <4>2
    <3>3. CASE Announce(p) \/ Join(p) \/ MakeDbSession(p) \/ Daily(p) \/ Weekly(p) \/ NextKpi(p)
      BY <2>4, <3>3 DEF Announce, Join, MakeDbSession, Daily, Weekly, NextKpi
    <3>4. QED
      BY <2>4, <3>1, <3>2, <3>3 DEF PingThread
  <2>5. QED
    BY <2>1, <2>2, <2>3, <2>4 DEF Next, CrashNeedsOverlap
<1>3. QED
  BY <1>1, <1>2, InvInit, InvStep, RunInit, RunStep, PTL DEF Spec

-----------------------------------------------------------------------------
(* The KPIs                                                                *)

(* resetIterators is at work.                                              *)
Resetting == Placing \cup {"reset_kpi"}

(* The day of tp_kpi_next_ has its daily KPI, but not yet its weekly one.  *)
AtWeekly == \E p \in Pings : pc[p] = "weekly"

(* The day of tp_kpi_next_ has its daily KPI.                              *)
Computed == \E p \in Pings : pc[p] \in {"weekly", "next"}

Dailies == {kpis[i] : i \in 1..Len(kpis)}
Weeks   == {weeklies[i] : i \in 1..Len(weeklies)}

KpiType ==
  /\ kpis \in Seq(Nat) /\ weeklies \in Seq(Nat) /\ tp_kpi_next_ \in Nat
  /\ ahead \in Nat

(* The daily KPIs are those of the days before tp_kpi_next_.               *)
DayInv ==
  /\ \A i \in 1..Len(kpis) : kpis[i] = KpiStart + (i - 1) * Day
  /\ ~Computed => tp_kpi_next_ = KpiStart + Len(kpis) * Day
  /\ Computed => Len(kpis) > 0 /\ tp_kpi_next_ = KpiStart + (Len(kpis) - 1) * Day
  /\ \A day \in Dailies : day < tp_kpi_next_ \/ (Computed /\ day = tp_kpi_next_)

(* The weekly ones are those of the Sundays among them.                    *)
WeekInv ==
  /\ \A i, j \in 1..Len(weeklies) : i < j => weeklies[i] < weeklies[j]
  /\ ~AtWeekly => Weeks = {day \in Dailies : Sunday(day)}
  /\ AtWeekly => Weeks = {day \in Dailies \ {tp_kpi_next_} : Sunday(day)}

KpiInv == Calm /\ op \notin Resetting => DayInv /\ WeekInv

(* Between two pings without a pause the clock advances once.              *)
NowInv ==
  alive =>
    /\ ahead = 0 => now = IF last = NoTime THEN StartTime ELSE last
    /\ ahead = 1 /\ last # NoTime => now <= last + Day

(* A ping finds at most one KPI due, and computes it.                      *)
KeepInv ==
  Calm /\ ~New /\ op \notin Resetting /\ ~skipped =>
    /\ InFlight = {} => last < tp_kpi_next_
    /\ last < tp_kpi_next_ + Day

-----------------------------------------------------------------------------

(* A number of days is a time, and the next is one day later.             *)
LEMMA DayTimes ==
  ASSUME NEW n \in Nat
  PROVE  n * Day \in Nat /\ (n + 1) * Day = n * Day + Day
BY DayAssumption

(* There is a row of the run: resetIterator does not throw.                *)
LEMMA SeekFinds ==
  ASSUME RunInv, Calm, op = "seek"
  PROVE  ~AtEnd
<1> DEFINE d == Daqs[target]
<1>1. d \in Sources
  BY DaqsFacts DEF RunInv, TypeInv
<1>2. \A j \in 1..iterator_[d] - 1 : Data[d][j] < StartTime
  BY DEF RunInv, PlacingInv, Placing
<1>3. /\ Len(Data[d]) \in Nat
      /\ \A j \in 1..Len(Data[d]) : Data[d][j] \in Nat
      /\ \E j \in 1..Len(Data[d]) : Data[d][j] >= StartTime
  BY <1>1, RowTimes
<1>4. ASSUME iterator_[d] = Len(Data[d]) + 1
      PROVE  FALSE
  <2>1. \A j \in 1..Len(Data[d]) : Data[d][j] < StartTime
    BY <1>2, <1>3, <1>4
  <2>2. QED
    BY <1>3, <2>1, StartTimeAssumption
<1>5. QED
  BY <1>4 DEF AtEnd

(* While a ping of a calm run is in flight, no reset is under way.         *)
LEMMA NoReset ==
  ASSUME IInv, Calm, op \in Resetting
  PROVE  InFlight = {}
BY DEF IInv, PingInv, Calm, Resetting, Placing, ResetSteps

(* What changes neither the KPIs nor who computes them keeps the           *)
(* invariant.                                                              *)
LEMMA KpiFrame ==
  ASSUME KpiInv, UNCHANGED <<kpis, weeklies, tp_kpi_next_>>,
         Computed' <=> Computed, AtWeekly' <=> AtWeekly,
         (Calm /\ op \notin Resetting)' => Calm /\ op \notin Resetting
  PROVE  KpiInv'
<1>1. Dailies' = Dailies /\ Weeks' = Weeks
  BY DEF Dailies, Weeks
<1>2. DayInv => DayInv'
  BY <1>1 DEF DayInv
<1>3. WeekInv => WeekInv'
  BY <1>1 DEF WeekInv
<1>4. QED
  BY <1>2, <1>3 DEF KpiInv

(* A command leaves the KPIs alone, but for resetIterators.                *)
LEMMA OperatorKpi ==
  ASSUME IInv, RunInv, KpiType, KpiInv, Operator
  PROVE  KpiType' /\ KpiInv'
<1>1. UNCHANGED <<ahead, pc>> /\ InFlight' = InFlight
  BY OperatorFrame DEF clockVars, pingVars
<1>2. CASE ResetKpi
  <2>1. /\ tp_kpi_next_' = KpiStart /\ kpis' = <<>> /\ weeklies' = <<>>
        /\ op \in Resetting /\ UNCHANGED <<stale, overlap>>
    BY <1>2 DEF ResetKpi, CommandStep, Resetting
  <2>2. KpiType'
    BY <1>1, <2>1, KpiAssumption DEF KpiType
  <2>3. Len(kpis') = 0 /\ Len(weeklies') = 0
    BY <2>1
  <2>4. Dailies' = {} /\ Weeks' = {}
    BY <2>3 DEF Dailies, Weeks
  <2>5. Calm' => ~Computed' /\ ~AtWeekly'
    <3>1. Calm' => InFlight' = {}
      BY <1>1, <2>1, NoReset DEF Calm
    <3>2. QED
      BY <3>1 DEF InFlight, Computed, AtWeekly
  <2>6. KpiStart + 0 * Day = KpiStart
    BY DayAssumption, KpiAssumption
  <2>7. QED
    BY <2>1, <2>2, <2>3, <2>4, <2>5, <2>6 DEF KpiInv, DayInv, WeekInv
<1>3. CASE ~ResetKpi
  <2>1. /\ UNCHANGED <<kpis, weeklies, tp_kpi_next_>>
        /\ (Calm /\ op \notin Resetting)' => Calm /\ op \notin Resetting
    <3> USE DEF CommandStep, daqVars, history, Resetting, Placing
    <3>1. CASE StartCommand
      BY <3>1 DEF StartCommand
    <3>2. CASE Rewind \/ SeekOn \/ SeekEnds
      BY <3>2 DEF Rewind, SeekOn, SeekEnds
    <3>3. CASE SeekThrows
      <4>1. op = "seek" /\ AtEnd /\ UNCHANGED <<stale, overlap, kpis, weeklies, tp_kpi_next_>>
        BY <3>3 DEF SeekThrows
      <4>2. ~Calm'
        BY <4>1, SeekFinds DEF Calm
      <4>3. QED
        BY <4>1, <4>2
    <3>4. CASE \/ StopCommand \/ StopReturns \/ CleanDatabase \/ Delete \/ DeleteFails
               \/ NewCalculation \/ StartClock
      BY <3>4 DEF StopCommand, StopReturns, CleanDatabase, Delete, DeleteFails, NewCalculation,
                  StartClock, Calm
    <3>5. QED
      BY <1>3, <3>1, <3>2, <3>3, <3>4 DEF Operator
  <2>2. (Computed' <=> Computed) /\ (AtWeekly' <=> AtWeekly)
    BY <1>1 DEF Computed, AtWeekly
  <2>3. QED
    BY <1>1, <2>1, <2>2, KpiFrame DEF KpiType
<1>4. QED
  BY <1>2, <1>3

(* So does the clock.                                                      *)
LEMMA ClockKpi ==
  ASSUME IInv, KpiType, KpiInv, SimulatedClock
  PROVE  KpiType' /\ KpiInv'
<1>1. /\ UNCHANGED <<op, kpis, weeklies, tp_kpi_next_>> /\ (Calm' => Calm)
      /\ ahead' \in Nat
      /\ \/ pc' = pc
         \/ \E p \in Pings : pc[p] = "free" /\ pc' = [pc EXCEPT ![p] = "announce"]
  <2> USE DEF commandVars, pingVars, daqVars, history, Calm, KpiType
  <2>1. CASE ClockBegins
    BY <2>1 DEF ClockBegins, Begin
  <2>2. CASE ClockTicks
    BY <2>2 DEF ClockTicks, Advance, Pause
  <2>3. CASE ClockEnds
    BY <2>3 DEF ClockEnds, End
  <2>4. ASSUME NEW p \in Pings, OnTimePing(p)
        PROVE  /\ UNCHANGED <<op, kpis, weeklies, tp_kpi_next_>> /\ (Calm' => Calm)
               /\ ahead' \in Nat
               /\ pc[p] = "free" /\ pc' = [pc EXCEPT ![p] = "announce"]
    BY <2>4 DEF OnTimePing, Ping
  <2>5. QED
    BY <2>1, <2>2, <2>3, <2>4 DEF SimulatedClock
<1>2. (Computed' <=> Computed) /\ (AtWeekly' <=> AtWeekly)
  BY <1>1 DEF Computed, AtWeekly, IInv, PingInv
<1>3. KpiInv'
  BY <1>1, <1>2, KpiFrame
<1>4. QED
  BY <1>1, <1>3 DEF KpiType

(* A ping thread has reached none of the KPIs, or is done with them.       *)
LEMMA ThreadKpi ==
  ASSUME IInv, KpiType, KpiInv, NEW p \in Pings, PingThread(p),
         ~(Daily(p) \/ Weekly(p) \/ NextKpi(p))
  PROVE  KpiType' /\ KpiInv'
<1>1. UNCHANGED <<clockVars, op>> /\ (Calm' <=> Calm)
  BY ThreadFrame
<1>2. /\ UNCHANGED <<kpis, weeklies, tp_kpi_next_>>
      /\ \/ pc' = pc
         \/ /\ pc[p] \notin {"weekly", "next"}
            /\ \E to \in {"join", "session", "daily", "free"} : pc' = [pc EXCEPT ![p] = to]
  <2>1. CASE Announce(p)
    BY <2>1 DEF Announce, PingStep
  <2>2. CASE Join(p)
    BY <2>2 DEF Join, PingStep
  <2>3. CASE MakeDbSession(p)
    BY <2>3 DEF MakeDbSession, PingStep
  <2>4. CASE MakeDbSessionFails(p)
    BY <2>4 DEF MakeDbSessionFails, pingVars, history
  <2>5. ASSUME NEW d \in Sources, PingSlot(p, d)
        PROVE  UNCHANGED <<kpis, weeklies, tp_kpi_next_, pc>>
    BY <2>5 DEF PingSlot, Test, Push, PushGarbage, Increment, Acquire, AcquireFails, Insert,
                SlotStep, pingVars
  <2>6. QED
    BY <2>1, <2>2, <2>3, <2>4, <2>5 DEF PingThread
<1>3. (Computed' <=> Computed) /\ (AtWeekly' <=> AtWeekly)
  BY <1>2 DEF Computed, AtWeekly, IInv, PingInv
<1>4. KpiInv'
  BY <1>1, <1>2, <1>3, KpiFrame
<1>5. QED
  BY <1>1, <1>2, <1>4 DEF KpiType, clockVars

(* A sequence grows at its end.                                            *)
LEMMA Grows ==
  ASSUME NEW s \in Seq(Nat), NEW t \in Nat
  PROVE  /\ Append(s, t) \in Seq(Nat) /\ Len(Append(s, t)) = Len(s) + 1 /\ Len(s) \in Nat
         /\ \A i \in 1..Len(s) : Append(s, t)[i] = s[i]
         /\ Append(s, t)[Len(s) + 1] = t
         /\ {Append(s, t)[i] : i \in 1..Len(Append(s, t))} = {s[i] : i \in 1..Len(s)} \cup {t}
<1>1. /\ Append(s, t) \in Seq(Nat) /\ Len(Append(s, t)) = Len(s) + 1 /\ Len(s) \in Nat
      /\ \A i \in 1..Len(s) : Append(s, t)[i] = s[i]
      /\ Append(s, t)[Len(s) + 1] = t
  BY AppendProperties
<1>2. 1..Len(Append(s, t)) = 1..Len(s) \cup {Len(s) + 1}
  BY ONLY <1>1
<1>3. QED
  BY ONLY <1>1, <1>2

(* Only the thread of the last ping computes KPIs: the daily one of the    *)
(* next day, ...                                                           *)
LEMMA DailyKpi ==
  ASSUME IInv, RunInv, KpiType, KpiInv, NEW p \in Pings, Daily(p)
  PROVE  KpiType' /\ KpiInv'
<1>1. /\ pc[p] = "daily" /\ pc' = [pc EXCEPT ![p] = "weekly"]
      /\ kpis' = Append(kpis, tp_kpi_next_)
      /\ UNCHANGED <<tp_kpi_next_, weeklies, ahead>>
  BY DEF Daily, PingStep, clockVars
<1>2. /\ kpis' \in Seq(Nat) /\ Len(kpis') = Len(kpis) + 1 /\ Len(kpis) \in Nat
      /\ \A i \in 1..Len(kpis) : kpis'[i] = kpis[i]
      /\ kpis'[Len(kpis) + 1] = tp_kpi_next_
      /\ Dailies' = Dailies \cup {tp_kpi_next_} /\ Weeks' = Weeks
  BY <1>1, Grows DEF KpiType, Dailies, Weeks
<1>3. KpiType'
  BY <1>1, <1>2 DEF KpiType
<1>4. (Calm' <=> Calm) /\ op' = op
  BY ThreadFrame DEF PingThread
<1>5. CASE Calm
  <2>1. InFlight = {p} /\ op \notin Resetting
    BY <1>1, <1>5, CalmPing, NoReset DEF InFlight
  <2>2. ~Computed /\ ~AtWeekly
    BY <1>1, <2>1 DEF InFlight, Computed, AtWeekly
  <2>3. Computed' /\ AtWeekly'
    BY <1>1 DEF Computed, AtWeekly, IInv, PingInv
  <2>4. DayInv /\ WeekInv
    BY <1>5, <2>1 DEF KpiInv
  <2>5. /\ tp_kpi_next_ = KpiStart + Len(kpis) * Day
        /\ \A day \in Dailies : day < tp_kpi_next_
        /\ \A i \in 1..Len(kpis) : kpis[i] = KpiStart + (i - 1) * Day
    BY <2>2, <2>4 DEF DayInv
  <2>6. DayInv'
    <3>1. ASSUME NEW i \in 1..Len(kpis')
          PROVE  kpis'[i] = KpiStart + (i - 1) * Day
      <4>1. i \in 1..Len(kpis) \/ i = Len(kpis) + 1
        BY ONLY <1>2
      <4>2. CASE i \in 1..Len(kpis)
        BY <1>2, <2>5, <4>2
      <4>3. CASE i = Len(kpis) + 1
        <5>1. i - 1 = Len(kpis)
          BY ONLY <1>2, <4>3
        <5>2. QED
          BY <1>2, <2>5, <4>3, <5>1
      <4>4. QED
        BY <4>1, <4>2, <4>3
    <3>2. Len(kpis') > 0 /\ Len(kpis') - 1 = Len(kpis)
      BY ONLY <1>2
    <3>3. QED
      BY <1>1, <1>2, <2>3, <2>5, <3>1, <3>2 DEF DayInv
  <2>7. WeekInv'
    <3>1. Dailies' \ {tp_kpi_next_} = Dailies
      <4>1. tp_kpi_next_ \notin Dailies
        BY <2>5 DEF KpiType
      <4>2. QED
        BY <1>2, <4>1
    <3>2. QED
      BY <1>1, <1>2, <2>2, <2>3, <2>4, <3>1 DEF WeekInv
  <2>8. QED
    BY <1>3, <2>6, <2>7 DEF KpiInv
<1>6. QED
  BY <1>3, <1>4, <1>5 DEF KpiInv

(* ... the weekly one if that is a Sunday, ...                             *)
LEMMA WeeklyKpi ==
  ASSUME IInv, RunInv, KpiType, KpiInv, NEW p \in Pings, Weekly(p)
  PROVE  KpiType' /\ KpiInv'
<1>1. /\ pc[p] = "weekly" /\ pc' = [pc EXCEPT ![p] = "next"]
      /\ weeklies' = IF Sunday(tp_kpi_next_) THEN Append(weeklies, tp_kpi_next_) ELSE weeklies
      /\ UNCHANGED <<tp_kpi_next_, kpis, ahead>>
  BY DEF Weekly, PingStep, clockVars
<1>2. Sunday(tp_kpi_next_) =>
        /\ weeklies' \in Seq(Nat) /\ Len(weeklies') = Len(weeklies) + 1 /\ Len(weeklies) \in Nat
        /\ \A i \in 1..Len(weeklies) : weeklies'[i] = weeklies[i]
        /\ weeklies'[Len(weeklies) + 1] = tp_kpi_next_
        /\ Weeks' = Weeks \cup {tp_kpi_next_}
  BY <1>1, Grows DEF KpiType, Weeks
<1>3. Dailies' = Dailies /\ (~Sunday(tp_kpi_next_) => weeklies' = weeklies /\ Weeks' = Weeks)
  BY <1>1 DEF Dailies, Weeks
<1>4. KpiType'
  BY <1>1, <1>2, <1>3 DEF KpiType
<1>5. (Calm' <=> Calm) /\ op' = op
  BY ThreadFrame DEF PingThread
<1>6. CASE Calm
  <2>1. InFlight = {p} /\ op \notin Resetting
    BY <1>1, <1>6, CalmPing, NoReset DEF InFlight
  <2>2. Computed /\ AtWeekly
    BY <1>1 DEF Computed, AtWeekly
  <2>3. Computed' /\ ~AtWeekly'
    BY <1>1, <2>1 DEF Computed, AtWeekly, IInv, PingInv, InFlight
  <2>4. DayInv /\ WeekInv
    BY <1>6, <2>1 DEF KpiInv
  <2>5. DayInv'
    BY <1>1, <1>3, <2>2, <2>3, <2>4 DEF DayInv
  <2>6. /\ Weeks = {day \in Dailies \ {tp_kpi_next_} : Sunday(day)}
        /\ \A i, j \in 1..Len(weeklies) : i < j => weeklies[i] < weeklies[j]
    BY <2>2, <2>4 DEF WeekInv
  <2>7. WeekInv'
    <3>1. CASE ~Sunday(tp_kpi_next_)
      <4>1. Weeks' = {day \in Dailies' : Sunday(day)}
        BY <1>3, <2>6, <3>1
      <4>2. QED
        BY <1>3, <2>3, <2>6, <3>1, <4>1 DEF WeekInv
    <3>2. CASE Sunday(tp_kpi_next_)
      <4>1. tp_kpi_next_ \in Dailies
        <5>1. Len(kpis) \in Nat /\ Len(kpis) > 0
              /\ tp_kpi_next_ = KpiStart + (Len(kpis) - 1) * Day
          BY <2>2, <2>4 DEF DayInv, KpiType
        <5>2. Len(kpis) \in 1..Len(kpis)
          BY ONLY <5>1
        <5>3. kpis[Len(kpis)] = tp_kpi_next_
          BY <2>4, <5>1, <5>2 DEF DayInv
        <5>4. QED
          BY <5>2, <5>3 DEF Dailies
      <4>2. Weeks' = {day \in Dailies' : Sunday(day)}
        BY <1>2, <1>3, <2>6, <3>2, <4>1
      <4>3. \A day \in Weeks : day < tp_kpi_next_
        BY <2>4, <2>6 DEF DayInv
      <4>4. ASSUME NEW i \in 1..Len(weeklies'), NEW j \in 1..Len(weeklies'), i < j
            PROVE  weeklies'[i] < weeklies'[j]
        <5>1. Len(weeklies') = Len(weeklies) + 1 /\ Len(weeklies) \in Nat
          BY <1>2, <3>2
        <5>2. i \in 1..Len(weeklies) /\ (j \in 1..Len(weeklies) \/ j = Len(weeklies) + 1)
          BY ONLY <4>4, <5>1
        <5>3. weeklies'[i] = weeklies[i] /\ weeklies[i] < tp_kpi_next_
          BY <1>2, <3>2, <4>3, <5>2 DEF Weeks
        <5>4. CASE j \in 1..Len(weeklies)
          BY <1>2, <2>6, <3>2, <4>4, <5>2, <5>3, <5>4
        <5>5. CASE j = Len(weeklies) + 1
          BY <1>2, <3>2, <5>3, <5>5
        <5>6. QED
          BY <5>2, <5>4, <5>5
      <4>5. QED
        BY <2>3, <4>2, <4>4 DEF WeekInv
    <3>3. QED
      BY <3>1, <3>2
  <2>8. QED
    BY <1>4, <2>5, <2>7 DEF KpiInv
<1>7. QED
  BY <1>4, <1>5, <1>6 DEF KpiInv

(* ... and then moves on to the day after.                                 *)
LEMMA NextKpiKpi ==
  ASSUME IInv, RunInv, KpiType, KpiInv, NEW p \in Pings, NextKpi(p)
  PROVE  KpiType' /\ KpiInv'
<1>1. /\ pc[p] = "next" /\ pc' = [pc EXCEPT ![p] = "free"]
      /\ tp_kpi_next_' = tp_kpi_next_ + Day
      /\ UNCHANGED <<weeklies, kpis, ahead>>
  BY DEF NextKpi, PingStep, clockVars
<1>2. Dailies' = Dailies /\ Weeks' = Weeks
  BY <1>1 DEF Dailies, Weeks
<1>3. KpiType'
  BY <1>1, DayAssumption DEF KpiType
<1>4. (Calm' <=> Calm) /\ op' = op
  BY ThreadFrame DEF PingThread
<1>5. CASE Calm
  <2>1. InFlight = {p} /\ op \notin Resetting
    BY <1>1, <1>5, CalmPing, NoReset DEF InFlight
  <2>2. Computed /\ ~AtWeekly
    BY <1>1, <2>1 DEF Computed, AtWeekly, InFlight
  <2>3. ~Computed' /\ ~AtWeekly'
    BY <1>1, <2>1 DEF Computed, AtWeekly, IInv, PingInv, InFlight
  <2>4. DayInv /\ WeekInv
    BY <1>5, <2>1 DEF KpiInv
  <2>5. /\ Len(kpis) \in Nat /\ Len(kpis) > 0
        /\ tp_kpi_next_ = KpiStart + (Len(kpis) - 1) * Day
    BY <2>2, <2>4 DEF DayInv, KpiType
  <2>6. tp_kpi_next_' = KpiStart + Len(kpis) * Day
    <3>1. Len(kpis) - 1 \in Nat /\ (Len(kpis) - 1) + 1 = Len(kpis)
      BY ONLY <2>5
    <3>2. (Len(kpis) - 1) * Day \in Nat /\ Len(kpis) * Day = (Len(kpis) - 1) * Day + Day
      BY <3>1, DayTimes
    <3>3. QED
      BY <1>1, <2>5, <3>2, DayAssumption, KpiAssumption
  <2>7. \A day \in Dailies : day < tp_kpi_next_'
    <3>1. Dailies \subseteq Nat
      BY DEF Dailies, KpiType
    <3>2. QED
      BY <1>1, <2>4, <3>1, DayAssumption DEF DayInv, KpiType
  <2>8. DayInv'
    BY <1>1, <1>2, <2>3, <2>4, <2>6, <2>7 DEF DayInv
  <2>9. WeekInv'
    BY <1>1, <1>2, <2>2, <2>3, <2>4 DEF WeekInv
  <2>10. QED
    BY <1>3, <2>8, <2>9 DEF KpiInv
<1>6. QED
  BY <1>3, <1>4, <1>5 DEF KpiInv

(* No KPI is computed before the first start.                              *)
LEMMA KpiInit == Init => KpiType /\ KpiInv
<1> SUFFICES ASSUME Init
             PROVE  KpiType /\ KpiInv
  OBVIOUS
<1>1. /\ kpis = <<>> /\ weeklies = <<>> /\ tp_kpi_next_ = KpiStart /\ ahead = 0
      /\ pc = [p \in Pings |-> "free"]
  BY DEF Init, ClockInit
<1>2. Len(kpis) = 0 /\ Len(weeklies) = 0 /\ ~Computed /\ ~AtWeekly
  BY <1>1 DEF Computed, AtWeekly
<1>3. Dailies = {} /\ Weeks = {}
  BY <1>2 DEF Dailies, Weeks
<1>4. KpiStart + 0 * Day = KpiStart
  BY DayAssumption, KpiAssumption
<1>5. KpiType
  BY <1>1, KpiAssumption DEF KpiType
<1>6. QED
  BY <1>1, <1>2, <1>3, <1>4, <1>5 DEF KpiInv, DayInv, WeekInv

(* Every step keeps the KPIs in order.                                     *)
LEMMA KpiStep == IInv /\ RunInv /\ KpiType /\ KpiInv /\ [Next]_vars => KpiType' /\ KpiInv'
<1> SUFFICES ASSUME IInv, RunInv, KpiType, KpiInv, [Next]_vars
             PROVE  KpiType' /\ KpiInv'
  OBVIOUS
<1>1. CASE UNCHANGED vars
  <2>1. UNCHANGED <<ahead, op, pc, kpis, weeklies, tp_kpi_next_, stale, overlap>>
    BY <1>1 DEF vars, clockVars, commandVars, pingVars, daqVars, history
  <2>2. /\ (Computed' <=> Computed) /\ (AtWeekly' <=> AtWeekly) /\ (Calm' <=> Calm)
        /\ KpiType'
    BY <2>1 DEF Computed, AtWeekly, Calm, KpiType
  <2>3. QED
    BY <2>1, <2>2, KpiFrame
<1>2. ASSUME NEW p \in Pings, PingThread(p)
      PROVE  KpiType' /\ KpiInv'
  BY <1>2, ThreadKpi, DailyKpi, WeeklyKpi, NextKpiKpi
<1>3. QED
  BY <1>1, <1>2, OperatorKpi, ClockKpi DEF Next

(* For all data and any number of days: unless pings overlap or meet a     *)
(* restart, a run computes the KPI of each day once and in order, and the  *)
(* weekly KPIs of the Sundays among them.                                  *)
THEOREM KpiOrderTheorem == Spec => []KpisInOrder
<1>1. KpiType /\ KpiInv => KpisInOrder
  <2> SUFFICES ASSUME KpiType, KpiInv, ~stale, ~overlap, Settled
               PROVE  /\ \A i \in 1..Len(kpis) : kpis[i] = KpiStart + (i - 1) * Day
                      /\ InFlight = {} =>
                           /\ tp_kpi_next_ = KpiStart + Len(kpis) * Day
                           /\ Weeks = {day \in Dailies : Sunday(day)}
                           /\ \A i, j \in 1..Len(weeklies) : i < j => weeklies[i] < weeklies[j]
    BY DEF KpisInOrder, Weeks, Dailies
  <2>1. DayInv /\ WeekInv
    BY DEF KpiInv, Calm, Settled, Resetting, Placing
  <2>2. InFlight = {} => ~Computed /\ ~AtWeekly
    BY DEF InFlight, Computed, AtWeekly
  <2>3. QED
    BY <2>1, <2>2 DEF DayInv, WeekInv
<1>2. QED
  BY <1>1, InvInit, InvStep, RunInit, RunStep, KpiInit, KpiStep, PTL DEF Spec

-----------------------------------------------------------------------------
(* KPIs do not fall behind                                                 *)

(* There is no clock before the first start.                               *)
LEMMA NowInit == Init => NowInv /\ KeepInv
BY DEF Init, ClockInit, NowInv, KeepInv, New

(* At no more than a day per tick a ping is at most a day after the one    *)
(* before.                                                                 *)
LEMMA NowStep ==
  ASSUME \A v \in Speeds : v <= Day, TypeInv, KpiType, NowInv, [Next]_vars
  PROVE  NowInv'
<1>1. CASE UNCHANGED clockVars
  BY <1>1 DEF clockVars, NowInv
<1>2. CASE ClockBegins
  BY <1>2 DEF ClockBegins, Begin, NowInv
<1>3. CASE Advance
  <2>1. PICK v \in Speeds : now' = now + v
    BY <1>3 DEF Advance
  <2>2. v \in Nat /\ v <= Day /\ Day \in Nat /\ now \in Nat /\ ahead \in Nat
    BY <2>1, SpeedsAssumption, DayAssumption DEF TypeInv, KpiType
  <2>3. alive /\ last' = last /\ ahead' = ahead + 1
    BY <1>3 DEF Advance
  <2>4. ahead' = 1 /\ last' # NoTime => now' <= last' + Day
    BY <2>1, <2>2, <2>3 DEF NowInv
  <2>5. ahead' # 0
    BY ONLY <2>2, <2>3
  <2>6. QED
    BY <2>4, <2>5 DEF NowInv
<1>4. CASE alive /\ Pause
  BY <1>4 DEF Pause, NowInv
<1>5. CASE End
  BY <1>5 DEF End, NowInv
<1>6. CASE Ping
  <2>1. last' = now /\ ahead' = 0 /\ now' = now /\ now \in Nat
    BY <1>6 DEF Ping, TypeInv
  <2>2. QED
    BY <2>1, NoTimeAssumption DEF NowInv
<1>7. CASE UNCHANGED vars
  BY <1>1, <1>7 DEF vars
<1>8. CASE Operator
  BY <1>1, <1>8, OperatorFrame
<1>9. ASSUME NEW p \in Pings, PingThread(p)
      PROVE  NowInv'
  BY <1>1, <1>9, ThreadFrame
<1>10. QED
  BY <1>1, <1>2, <1>3, <1>4, <1>5, <1>6, <1>7, <1>8, <1>9
     DEF Next, SimulatedClock, ClockTicks, ClockEnds, OnTimePing

(* A ping that is at most a day after the one before finds at most one KPI *)
(* due.                                                                    *)
LEMMA PingKeeps ==
  ASSUME IInv, RunInv, KpiType, KpiInv, NowInv, KeepInv,
         NEW p \in Pings, OnTimePing(p)
  PROVE  KeepInv'
<1>1. /\ alive /\ last' = now /\ UNCHANGED <<op, tp_kpi_next_, armed>>
      /\ pc' = [pc EXCEPT ![p] = "announce"]
      /\ overlap' = (overlap \/ InFlight # {}) /\ stale' = (stale \/ op \in ResetSteps)
      /\ skipped' = (skipped \/ ahead > IF last = NoTime THEN 0 ELSE 1)
  BY DEF OnTimePing, Ping, commandVars, daqVars
<1>2. SUFFICES ASSUME Calm', ~skipped'
               PROVE  /\ InFlight' # {} /\ last' < tp_kpi_next_' + Day
  BY DEF KeepInv
<1>3. /\ Calm /\ InFlight = {} /\ op \notin ResetSteps /\ op \notin Resetting
      /\ ~armed /\ op \notin Halted /\ ~skipped
  BY <1>1, <1>2 DEF Calm, ResetSteps, Resetting, Placing, RunInv, TypeInv, IInv, ClockInv
<1>4. p \in InFlight'
  BY <1>1 DEF InFlight, IInv, PingInv
<1>5. /\ tp_kpi_next_ \in Nat /\ now \in Nat /\ ahead \in Nat /\ Day \in Nat \ {0}
      /\ StartTime \in Nat /\ KpiStart \in Nat /\ StartTime < KpiStart + Day
  BY DayAssumption, KpiAssumption, StartTimeAssumption DEF KpiType, RunInv, TypeInv
<1>6. ~(ahead > IF last = NoTime THEN 0 ELSE 1)
  BY ONLY <1>1, <1>2
<1>7. CASE last = NoTime
  <2>1. ahead = 0
    BY ONLY <1>5, <1>6, <1>7
  <2>2. now = StartTime
    BY <1>1, <1>7, <2>1 DEF NowInv
  <2>3. KpiStart <= tp_kpi_next_
    <3>1. tp_kpi_next_ = KpiStart + Len(kpis) * Day /\ Len(kpis) \in Nat
      BY <1>3 DEF KpiInv, DayInv, Computed, InFlight, KpiType
    <3>2. Len(kpis) * Day \in Nat
      BY <3>1, DayTimes
    <3>3. QED
      BY ONLY <1>5, <3>1, <3>2
  <2>4. QED
    BY <1>1, <1>4, <1>5, <2>2, <2>3
<1>8. CASE last # NoTime
  <2>1. last \in Nat /\ last < tp_kpi_next_
    BY <1>3, <1>8 DEF KeepInv, New, ResetSteps, RunInv, TypeInv
  <2>2. ahead \in {0, 1}
    BY ONLY <1>5, <1>6, <1>8
  <2>3. now <= last + Day
    BY <1>1, <1>5, <1>8, <2>1, <2>2 DEF NowInv
  <2>4. QED
    BY <1>1, <1>4, <1>5, <2>1, <2>3
<1>9. QED
  BY <1>7, <1>8

(* It computes that KPI before it ends.                                    *)
LEMMA ThreadKeeps ==
  ASSUME IInv, RunInv, KpiType, KpiInv, KeepInv, NEW p \in Pings, PingThread(p)
  PROVE  KeepInv'
<1>1. /\ last' = last /\ op' = op /\ (New' <=> New) /\ (Calm' <=> Calm)
  BY ThreadFrame
<1>2. /\ skipped' = skipped
      /\ \/ tp_kpi_next_' = tp_kpi_next_ /\ pc' = pc
         \/ /\ tp_kpi_next_' = tp_kpi_next_ /\ pc[p] # "free"
            /\ \E to \in {"join", "session", "daily", "weekly", "next"} :
                 pc' = [pc EXCEPT ![p] = to]
         \/ pc[p] # "free" /\ tp[p] < tp_kpi_next_ /\ tp_kpi_next_' = tp_kpi_next_
         \/ pc[p] # "free" /\ tp_kpi_next_' = tp_kpi_next_ + Day
  <2>1. CASE Announce(p)
    BY <2>1 DEF Announce, PingStep
  <2>2. CASE Join(p)
    BY <2>2 DEF Join, PingStep
  <2>3. CASE MakeDbSession(p) \/ Daily(p) \/ Weekly(p)
    BY <2>3 DEF MakeDbSession, Daily, Weekly, PingStep
  <2>4. CASE MakeDbSessionFails(p)
    BY <2>4 DEF MakeDbSessionFails, pingVars, history
  <2>5. CASE NextKpi(p)
    BY <2>5 DEF NextKpi, PingStep
  <2>6. ASSUME NEW d \in Sources, PingSlot(p, d)
        PROVE  UNCHANGED <<skipped, tp_kpi_next_, pc>>
    BY <2>6 DEF PingSlot, Test, Push, PushGarbage, Increment, Acquire, AcquireFails, Insert,
                SlotStep, pingVars
  <2>7. QED
    BY <2>1, <2>2, <2>3, <2>4, <2>5, <2>6 DEF PingThread
<1>3. SUFFICES ASSUME Calm, ~New, op \notin Resetting, ~skipped
               PROVE  /\ InFlight' = {} => last < tp_kpi_next_'
                      /\ last < tp_kpi_next_' + Day
  BY <1>1, <1>2 DEF KeepInv
<1>4. /\ InFlight = {} => last < tp_kpi_next_
      /\ last < tp_kpi_next_ + Day
  BY <1>3 DEF KeepInv
<1>5. /\ last \in Nat /\ tp_kpi_next_ \in Nat /\ Day \in Nat
      /\ pc[p] # "free" => tp[p] = last
  BY <1>3, CalmPing, DayAssumption DEF KpiType, New, RunInv, TypeInv
<1>6. CASE tp_kpi_next_' = tp_kpi_next_ /\ pc' = pc
  BY <1>4, <1>6 DEF InFlight
<1>7. CASE /\ tp_kpi_next_' = tp_kpi_next_
           /\ \E to \in {"join", "session", "daily", "weekly", "next"} :
                pc' = [pc EXCEPT ![p] = to]
  <2>1. p \in InFlight'
    BY <1>7 DEF InFlight, IInv, PingInv
  <2>2. QED
    BY <1>4, <1>7, <2>1
<1>8. CASE pc[p] # "free" /\ tp[p] < tp_kpi_next_ /\ tp_kpi_next_' = tp_kpi_next_
  BY <1>4, <1>5, <1>8
<1>9. CASE tp_kpi_next_' = tp_kpi_next_ + Day
  BY <1>4, <1>5, <1>9
<1>10. QED
  BY <1>2, <1>6, <1>7, <1>8, <1>9

(* Every step keeps tp_kpi_next_ up with the clock.                        *)
LEMMA KeepStep ==
  ASSUME IInv, RunInv, KpiType, KpiInv, NowInv, KeepInv, [Next]_vars
  PROVE  KeepInv'
<1>1. ASSUME UNCHANGED <<last, tp_kpi_next_, skipped>>, InFlight' = InFlight,
             (Calm /\ ~New /\ op \notin Resetting)' => Calm /\ ~New /\ op \notin Resetting
      PROVE  KeepInv'
  BY <1>1 DEF KeepInv
<1>2. CASE Operator
  <2>1. last' = last /\ InFlight' = InFlight
    BY <1>2, OperatorFrame DEF clockVars
  <2>2. CASE StartCommand \/ Rewind \/ SeekOn \/ SeekEnds \/ SeekThrows \/ ResetKpi
    <3>1. op' \in Resetting \/ (op = "seek" /\ AtEnd /\ UNCHANGED <<stale, overlap>>) \/ op' = "stop"
      BY <2>2 DEF StartCommand, Rewind, SeekOn, SeekEnds, SeekThrows, ResetKpi, CommandStep,
                  Resetting, Placing, history
    <3>2. CASE op' \in Resetting \/ op' = "stop"
      BY <3>2 DEF KeepInv, New
    <3>3. CASE op = "seek" /\ AtEnd /\ UNCHANGED <<stale, overlap>>
      <4>1. ~Calm'
        BY <3>3, SeekFinds DEF Calm
      <4>2. QED
        BY <4>1 DEF KeepInv
    <3>4. QED
      BY <3>1, <3>2, <3>3
  <2>3. CASE CleanDatabase \/ Delete \/ DeleteFails \/ NewCalculation \/ StartClock
    <3>1. op' \in Halted \/ armed'
      BY <2>3 DEF CleanDatabase, Delete, DeleteFails, NewCalculation, StartClock, CommandStep,
                  Halted
    <3>2. QED
      BY <3>1 DEF KeepInv, New
  <2>4. CASE StopCommand \/ StopReturns
    <3>1. /\ UNCHANGED <<tp_kpi_next_, skipped, armed, stale, overlap>>
          /\ op' \in Halted \/ (op \in {"idle", "halt"} /\ op' \in {"idle", "halt"})
      BY <2>4 DEF StopCommand, StopReturns, CommandStep, Halted, daqVars, history
    <3>2. CASE op' \in Halted
      BY <3>2 DEF KeepInv, New
    <3>3. CASE op \in {"idle", "halt"} /\ op' \in {"idle", "halt"}
      BY <1>1, <2>1, <3>1, <3>3 DEF Calm, New, Halted, Resetting, Placing
    <3>4. QED
      BY <3>1, <3>2, <3>3
  <2>5. QED
    BY <1>2, <2>2, <2>3, <2>4 DEF Operator
<1>3. CASE ClockBegins
  BY <1>3 DEF ClockBegins, Begin, KeepInv, New
<1>4. CASE ClockTicks \/ ClockEnds
  <2>1. UNCHANGED <<last, tp_kpi_next_, skipped, pc, op, armed, stale, overlap>>
    BY <1>4 DEF ClockTicks, ClockEnds, Advance, Pause, End, commandVars, pingVars, daqVars, history
  <2>2. QED
    BY <1>1, <2>1 DEF InFlight, Calm, New
<1>5. CASE UNCHANGED vars
  <2>1. UNCHANGED <<last, tp_kpi_next_, skipped, pc, op, armed, stale, overlap>>
    BY <1>5 DEF vars, clockVars, commandVars, pingVars, daqVars, history
  <2>2. QED
    BY <1>1, <2>1 DEF InFlight, Calm, New
<1>6. QED
  BY <1>2, <1>3, <1>4, <1>5, PingKeeps, ThreadKeeps DEF Next, SimulatedClock

(* For all data: at no more than a day per tick, and while no pause makes  *)
(* the clock leave out a ping, a run has computed the KPI of every day     *)
(* that has passed when the threads of its last ping have ended, although  *)
(* a ping computes at most one.                                            *)
THEOREM KeepsUpTheorem ==
  ASSUME \A v \in Speeds : v <= Day
  PROVE  Spec => []KpiKeepsUp
<1>1. KpiType /\ KeepInv => KpiKeepsUp
  BY DEF KpiKeepsUp, KeepInv, Calm, Settled, New, Halted, Resetting, Placing
<1>2. TypeInv /\ KpiType /\ NowInv /\ [Next]_vars => NowInv'
  BY NowStep
<1>3. IInv /\ RunInv /\ KpiType /\ KpiInv /\ NowInv /\ KeepInv /\ [Next]_vars => KeepInv'
  BY KeepStep
<1>4. RunInv => TypeInv
  BY DEF RunInv
<1>5. QED
  BY <1>1, <1>2, <1>3, <1>4, InvInit, InvStep, RunInit, RunStep, KpiInit, KpiStep, NowInit, PTL
     DEF Spec

-----------------------------------------------------------------------------
(* Pings that overlap, but do not collect at once                          *)

(* No two pings of this run collected at once, and none met its start.     *)
Tidy == ~stale /\ ~raced

(* The rows a ping is to insert                                            *)
Pending(p, d) == {pts[p][d][i] : i \in 1..Len(pts[p][d])}

Distinct(s) == \A i, j \in 1..Len(s) : s[i] = s[j] => i = j

(* A row has been collected, and iterator_ still points to it.             *)
Stepping(d) == \E p \in Pings : slot[p][d] = "step"

(* The rows this run has collected                                         *)
Taken(d) ==
  {Data[d][i] : i \in FirstRow(d)..(IF Stepping(d) THEN iterator_[d] ELSE iterator_[d] - 1)}

(* One ping collects at a time.                                            *)
Turn ==
  \A p, q \in Pings, d, e \in Sources : Collecting(p, d) /\ Collecting(q, e) => p = q

(* Where iterator_ is                                                      *)
Placed(d) ==
  /\ iterator_[d] \in FirstRow(d)..Len(Data[d]) + 1
  /\ \A p \in Pings :
       /\ slot[p][d] \in {"push", "step"} => iterator_[d] <= Len(Data[d])
       /\ slot[p][d] = "step" => seen[p][d] = iterator_[d]

(* Every row collected is in one place.                                    *)
Accounted(d) ==
  /\ \A p \in Pings : Distinct(pts[p][d])
  /\ \A t : t \in Taken(d) <=>
              t \in table[d] \/ t \in lost[d] \/ \E p \in Pings : t \in Pending(p, d)
  /\ \A p, q \in Pings : p # q => Pending(p, d) \cap Pending(q, d) = {}
  /\ \A p \in Pings : Pending(p, d) \cap (table[d] \cup lost[d]) = {}

RowInv ==
  Tidy /\ ~New /\ op \notin Placing =>
    Turn /\ \A d \in Sources : Placed(d) /\ (d \in wiped => Accounted(d))

(* Pings overlap only after the first ping of their run.                   *)
FreshInv == ~stale /\ (New \/ op \in Placing) => ~overlap

-----------------------------------------------------------------------------

(* There is no ping before the first start.                                *)
LEMMA FreshInit == Init => FreshInv
BY DEF Init, FreshInv

(* In a fresh run no step makes pings overlap.                             *)
LEMMA FreshStep == IInv /\ RunInv /\ FreshInv /\ [Next]_vars => FreshInv'
<1> SUFFICES ASSUME IInv, RunInv, FreshInv, [Next]_vars
             PROVE  FreshInv'
  OBVIOUS
<1>1. ASSUME UNCHANGED <<stale, overlap>>,
             (New \/ op \in Placing)' => New \/ op \in Placing
      PROVE  FreshInv'
  BY <1>1 DEF FreshInv
<1>2. CASE Operator
  <2>1. last' = last
    BY <1>2, OperatorFrame DEF clockVars
  <2>2. CASE StartCommand
    BY <2>2 DEF StartCommand, FreshInv
  <2>3. CASE Rewind \/ SeekOn \/ SeekEnds \/ SeekThrows
    BY <1>1, <2>3 DEF Rewind, SeekOn, SeekEnds, SeekThrows, CommandStep, Placing, history
  <2>4. CASE \/ ResetKpi \/ CleanDatabase \/ Delete \/ DeleteFails \/ NewCalculation
             \/ StartClock
    <3>1. New /\ UNCHANGED <<stale, overlap>>
      BY <2>4 DEF ResetKpi, CleanDatabase, Delete, DeleteFails, NewCalculation, StartClock,
                  CommandStep, New, Halted, history
    <3>2. QED
      BY <1>1, <3>1
  <2>5. CASE StopCommand \/ StopReturns
    <3>1. /\ UNCHANGED <<armed, stale, overlap>>
          /\ op = "stop" \/ (op \in {"idle", "halt"} /\ op' \in {"idle", "halt"})
      BY <2>5 DEF StopCommand, StopReturns, CommandStep, daqVars, history
    <3>2. QED
      BY <1>1, <2>1, <3>1 DEF New, Halted, Placing
  <2>6. QED
    BY <1>2, <2>2, <2>3, <2>4, <2>5 DEF Operator
<1>3. CASE ClockBegins
  BY <1>1, <1>3 DEF ClockBegins, history, New
<1>4. CASE ClockTicks \/ ClockEnds
  <2>1. UNCHANGED <<last, op, armed, stale, overlap>>
    BY <1>4 DEF ClockTicks, ClockEnds, Advance, Pause, End, commandVars, history
  <2>2. QED
    BY <1>1, <2>1 DEF New
<1>5. ASSUME NEW p \in Pings, OnTimePing(p)
      PROVE  FreshInv'
  <2>1. /\ alive /\ last' = now /\ UNCHANGED <<op, armed>>
        /\ stale' = (stale \/ op \in ResetSteps)
    BY <1>5 DEF OnTimePing, Ping, commandVars
  <2>2. ~armed /\ op \notin Halted /\ last' # NoTime
    BY <2>1, NoTimeAssumption DEF RunInv, TypeInv, IInv, ClockInv
  <2>3. QED
    BY <2>1, <2>2 DEF FreshInv, New, Placing, ResetSteps
<1>6. CASE UNCHANGED vars
  <2>1. UNCHANGED <<last, op, armed, stale, overlap>>
    BY <1>6 DEF vars, clockVars, commandVars, history
  <2>2. QED
    BY <1>1, <2>1 DEF New
<1>7. ASSUME NEW p \in Pings, PingThread(p)
      PROVE  FreshInv'
  BY <1>1, <1>7, ThreadFrame
<1>8. QED
  BY <1>2, <1>3, <1>4, <1>5, <1>6, <1>7 DEF Next, SimulatedClock

-----------------------------------------------------------------------------
(* Lemmas on sequences of rows                                             *)

(* A row that is not in a list yet can be appended to it.                  *)
LEMMA GrowsDistinct ==
  ASSUME NEW s \in Seq(Nat), NEW t \in Nat, Distinct(s), t \notin {s[i] : i \in 1..Len(s)}
  PROVE  Distinct(Append(s, t))
<1> DEFINE u == Append(s, t)
<1>1. /\ Len(u) = Len(s) + 1 /\ Len(s) \in Nat
      /\ \A i \in 1..Len(s) : u[i] = s[i]
      /\ u[Len(s) + 1] = t
  BY Grows
<1>2. \A i \in 1..Len(u) : i \in 1..Len(s) \/ i = Len(s) + 1
  BY ONLY <1>1
<1>3. QED
  BY ONLY <1>1, <1>2, Distinct(s), t \notin {s[i] : i \in 1..Len(s)}, SMTT(60) DEF Distinct

(* The first row of a list can be taken away from it.                      *)
LEMMA TailDistinct ==
  ASSUME NEW s \in Seq(Nat), s # <<>>, Distinct(s)
  PROVE  /\ Tail(s) \in Seq(Nat) /\ Distinct(Tail(s))
         /\ Head(s) \in {s[i] : i \in 1..Len(s)}
         /\ {Tail(s)[i] : i \in 1..Len(Tail(s))} = {s[i] : i \in 1..Len(s)} \ {Head(s)}
<1>1. Len(s) \in Nat \ {0}
  BY EmptySeq
<1>2. /\ Tail(s) \in Seq(Nat) /\ Len(Tail(s)) = Len(s) - 1 /\ Head(s) = s[1]
      /\ \A i \in 1..Len(Tail(s)) : Tail(s)[i] = s[i + 1]
  BY HeadTailProperties
<1>3. /\ 1 \in 1..Len(s)
      /\ \A i \in 1..Len(Tail(s)) : i + 1 \in 1..Len(s) /\ i + 1 # 1
      /\ \A i \in 1..Len(s) : i = 1 \/ (i - 1 \in 1..Len(Tail(s)) /\ (i - 1) + 1 = i)
      /\ \A i, j \in 1..Len(Tail(s)) : i + 1 = j + 1 => i = j
  BY ONLY <1>1, <1>2
<1>4. Distinct(Tail(s))
  <2>1. ASSUME NEW i \in 1..Len(Tail(s)), NEW j \in 1..Len(Tail(s)), Tail(s)[i] = Tail(s)[j]
        PROVE  i = j
    <3>1. s[i + 1] = s[j + 1]
      BY <1>2, <2>1
    <3>2. i + 1 = j + 1
      BY <1>3, <3>1 DEF Distinct
    <3>3. QED
      BY <1>3, <3>2
  <2>2. QED
    BY <2>1 DEF Distinct
<1>5. ASSUME NEW t
      PROVE  t \in {Tail(s)[i] : i \in 1..Len(Tail(s))} <=>
               t \in {s[i] : i \in 1..Len(s)} /\ t # Head(s)
  <2>1. ASSUME NEW i \in 1..Len(Tail(s)), t = Tail(s)[i]
        PROVE  t \in {s[j] : j \in 1..Len(s)} /\ t # Head(s)
    <3>1. t = s[i + 1] /\ i + 1 \in 1..Len(s) /\ i + 1 # 1
      BY <1>2, <1>3, <2>1
    <3>2. QED
      BY <1>2, <1>3, <3>1 DEF Distinct
  <2>2. ASSUME NEW i \in 1..Len(s), t = s[i], t # Head(s)
        PROVE  t \in {Tail(s)[j] : j \in 1..Len(Tail(s))}
    <3>1. i - 1 \in 1..Len(Tail(s)) /\ (i - 1) + 1 = i
      BY <1>2, <1>3, <2>2
    <3>2. Tail(s)[i - 1] = s[i]
      BY <1>2, <3>1
    <3>3. QED
      BY <2>2, <3>1, <3>2
  <2>3. QED
    BY <2>1, <2>2
<1>6. {Tail(s)[i] : i \in 1..Len(Tail(s))} = {s[i] : i \in 1..Len(s)} \ {Head(s)}
  BY ONLY <1>5
<1>7. Head(s) \in {s[i] : i \in 1..Len(s)}
  BY ONLY <1>2, <1>3
<1>8. QED
  BY <1>2, <1>4, <1>6, <1>7

(* Among the rows, the one iterator_ points to has not been collected.     *)
LEMMA RowIsNew ==
  ASSUME TypeInv, NEW d \in Sources, Placed(d), ~Stepping(d), iterator_[d] <= Len(Data[d])
  PROVE  /\ Data[d][iterator_[d]] \in Nat
         /\ Data[d][iterator_[d]] \notin Taken(d)
         /\ {Data[d][i] : i \in FirstRow(d)..iterator_[d]} = Taken(d) \cup {Data[d][iterator_[d]]}
<1>1. /\ FirstRow(d) \in Nat \ {0} /\ iterator_[d] \in Nat /\ FirstRow(d) <= iterator_[d]
      /\ Len(Data[d]) \in Nat
  BY FirstRowExists, RowTimes DEF Placed, TypeInv
<1>2. Taken(d) = {Data[d][i] : i \in FirstRow(d)..iterator_[d] - 1}
  BY DEF Taken
<1>3. /\ FirstRow(d)..iterator_[d] = (FirstRow(d)..iterator_[d] - 1) \cup {iterator_[d]}
      /\ iterator_[d] \in 1..Len(Data[d])
      /\ \A i \in FirstRow(d)..iterator_[d] - 1 : i \in 1..Len(Data[d]) /\ i < iterator_[d]
  BY ONLY <1>1, iterator_[d] <= Len(Data[d])
<1>4. /\ Data[d][iterator_[d]] \in Nat
      /\ \A i \in FirstRow(d)..iterator_[d] - 1 :
           Data[d][i] \in Nat /\ Data[d][i] < Data[d][iterator_[d]]
  BY <1>3, RowTimes
<1>5. \A i \in FirstRow(d)..iterator_[d] - 1 : Data[d][i] # Data[d][iterator_[d]]
  BY ONLY <1>4
<1>6. QED
  BY ONLY <1>2, <1>3, <1>4, <1>5

-----------------------------------------------------------------------------
(* The steps of pingSlot                                                   *)

(* What pingSlot does between the rows changes no place of any.            *)
LEMMA PlacesFrame ==
  ASSUME NEW d \in Sources, Accounted(d), Stepping(d)' <=> Stepping(d),
         iterator_'[d] = iterator_[d], table'[d] = table[d], lost'[d] = lost[d],
         \A q \in Pings : pts'[q][d] = pts[q][d]
  PROVE  Accounted(d)'
<1>1. Taken(d)' = Taken(d)
  BY DEF Taken
<1>2. \A q \in Pings : Pending(q, d)' = Pending(q, d)
  BY DEF Pending
<1>3. QED
  BY <1>1, <1>2 DEF Accounted

(* What a step leaves to the other pings and sources                       *)
LEMMA OnlyAtSlot ==
  ASSUME RunInv, NEW p \in Pings, NEW d \in Sources, PingSlot(p, d)
  PROVE  /\ OnlyAt(p, d)
         /\ \A q \in Pings, e \in Sources : Collecting(q, e)' => Collecting(q, e)
<1>1. /\ slot \in [Pings -> [Sources -> {"test", "push", "step", "acquire", "insert", "done"}]]
      /\ pts \in [Pings -> [Sources -> Seq(Nat)]]
      /\ seen \in [Pings -> [Sources -> Nat]]
      /\ iterator_ \in [Sources -> Nat \ {0}]
      /\ lost \in [Sources -> SUBSET Nat] /\ table \in [Sources -> SUBSET Nat]
  BY DEF RunInv, TypeInv
<1>2. ASSUME NEW to, NEW rows, NEW n, NEW i, NEW failed, NEW stored,
             slot' = [slot EXCEPT ![p][d] = to],
             to \in {"test", "push", "step"} => slot[p][d] \in {"test", "push", "step"},
             pts' = pts \/ pts' = [pts EXCEPT ![p][d] = rows],
             seen' = seen \/ seen' = [seen EXCEPT ![p][d] = n],
             iterator_' = iterator_ \/ iterator_' = [iterator_ EXCEPT ![d] = i],
             lost' = lost \/ lost' = [lost EXCEPT ![d] = failed],
             table' = table \/ table' = [table EXCEPT ![d] = stored]
      PROVE  OnlyAt(p, d) /\ \A q \in Pings, e \in Sources : Collecting(q, e)' => Collecting(q, e)
  <2>1. \A q \in Pings, e \in Sources :
          /\ q # p \/ e # d => slot'[q][e] = slot[q][e]
          /\ slot'[q][e] \in {"test", "push", "step"} => slot[q][e] \in {"test", "push", "step"}
    BY ONLY <1>1, <1>2, p \in Pings, d \in Sources
  <2>2. \A q \in Pings, e \in Sources : q # p \/ e # d => pts'[q][e] = pts[q][e]
    BY ONLY <1>1, <1>2, p \in Pings, d \in Sources
  <2>3. \A q \in Pings, e \in Sources : q # p \/ e # d => seen'[q][e] = seen[q][e]
    BY ONLY <1>1, <1>2, p \in Pings, d \in Sources
  <2>4. \A e \in Sources \ {d} :
          iterator_'[e] = iterator_[e] /\ table'[e] = table[e] /\ lost'[e] = lost[e]
    BY ONLY <1>1, <1>2, d \in Sources
  <2>5. QED
    BY <2>1, <2>2, <2>3, <2>4 DEF OnlyAt, Collecting
<1>3. CASE Test(p, d)
  <2>1. PICK due \in Due(p, d) :
          slot' = [slot EXCEPT ![p][d] = IF due THEN "push"
                                         ELSE IF pts[p][d] = <<>> THEN "done" ELSE "acquire"]
    BY <1>3 DEF Test, SlotStep
  <2>2. slot[p][d] = "test" /\ UNCHANGED <<iterator_, table, lost, pts, seen>>
    BY <1>3 DEF Test, SlotStep
  <2>3. QED
    BY <1>2, <2>1, <2>2
<1>4. CASE Push(p, d) \/ PushGarbage(p, d)
  <2>1. /\ slot[p][d] = "push" /\ UNCHANGED <<iterator_, table, lost>>
        /\ \/ slot' = [slot EXCEPT ![p][d] = "step"]
           \/ slot' = [slot EXCEPT ![p][d] = "done"]
        /\ \/ pts' = [pts EXCEPT ![p][d] = Append(pts[p][d], Data[d][iterator_[d]])]
           \/ pts' = [pts EXCEPT ![p][d] = <<>>]
        /\ seen' = seen \/ seen' = [seen EXCEPT ![p][d] = iterator_[d]]
    BY <1>4 DEF Push, PushGarbage, SlotStep
  <2>2. QED
    BY <1>2, <2>1
<1>5. CASE Increment(p, d)
  <2>1. PICK i \in {iterator_[d], seen[p][d]} : iterator_' = [iterator_ EXCEPT ![d] = i + 1]
    BY <1>5 DEF Increment
  <2>2. /\ slot[p][d] = "step" /\ slot' = [slot EXCEPT ![p][d] = "test"]
        /\ seen' = [seen EXCEPT ![p][d] = 0] /\ UNCHANGED <<table, pts, lost>>
    BY <1>5 DEF Increment, SlotStep
  <2>3. QED
    BY <1>2, <2>1, <2>2
<1>6. CASE Acquire(p, d)
  <2>1. /\ slot' = [slot EXCEPT ![p][d] = "insert"]
        /\ UNCHANGED <<iterator_, table, lost, pts, seen>>
    BY <1>6 DEF Acquire, SlotStep
  <2>2. QED
    BY <1>2, <2>1
<1>7. CASE AcquireFails(p, d)
  <2>1. /\ slot' = [slot EXCEPT ![p][d] = "done"] /\ pts' = [pts EXCEPT ![p][d] = <<>>]
        /\ lost' = [lost EXCEPT ![d] = lost[d] \cup {pts[p][d][i] : i \in DOMAIN pts[p][d]}]
        /\ UNCHANGED <<iterator_, table, seen>>
    BY <1>7 DEF AcquireFails, SlotStep
  <2>2. QED
    BY <1>2, <2>1
<1>8. CASE Insert(p, d)
  <2>1. /\ slot' = [slot EXCEPT ![p][d] = IF Len(pts[p][d]) = 1 THEN "done" ELSE "insert"]
        /\ pts' = [pts EXCEPT ![p][d] = Tail(pts[p][d])]
        /\ \/ table' = [table EXCEPT ![d] = table[d] \cup {Head(pts[p][d])}] /\ lost' = lost
           \/ lost' = [lost EXCEPT ![d] = lost[d] \cup {Head(pts[p][d])}] /\ table' = table
        /\ UNCHANGED <<seen, iterator_>>
    BY <1>8 DEF Insert, SlotStep
  <2>2. QED
    BY <1>2, <2>1
<1>9. QED
  BY <1>3, <1>4, <1>5, <1>6, <1>7, <1>8 DEF PingSlot

(* The other sources notice nothing.                                       *)
LEMMA OthersRow ==
  ASSUME NEW p \in Pings, NEW d \in Sources, OnlyAt(p, d), NEW e \in Sources \ {d}
  PROVE  /\ Placed(e) => Placed(e)'
         /\ Accounted(e) => Accounted(e)'
<1>1. /\ iterator_'[e] = iterator_[e] /\ table'[e] = table[e] /\ lost'[e] = lost[e]
      /\ \A q \in Pings : /\ slot'[q][e] = slot[q][e] /\ pts'[q][e] = pts[q][e]
                          /\ seen'[q][e] = seen[q][e]
  BY DEF OnlyAt
<1>2. Stepping(e)' <=> Stepping(e)
  BY <1>1 DEF Stepping
<1>3. QED
  BY <1>1, <1>2, PlacesFrame DEF Placed

(* A step of pingSlot keeps the invariant if it does so at its source.     *)
LEMMA RowCompose ==
  ASSUME RunInv, RowInv, NEW p \in Pings, NEW d \in Sources, PingSlot(p, d),
         ASSUME Turn, Placed(d)
         PROVE  Placed(d)' /\ (Accounted(d) => Accounted(d)')
  PROVE  RowInv'
<1>1. /\ UNCHANGED <<op, stale, wiped>> /\ (New' <=> New)
  <2>1. PingThread(p)
    BY DEF PingThread
  <2>2. QED
    BY <2>1, ThreadFrame
<1>2. UNCHANGED raced
  BY DEF PingSlot, Test, Push, PushGarbage, Increment, Acquire, AcquireFails, Insert, SlotStep
<1>3. OnlyAt(p, d) /\ \A q \in Pings, e \in Sources : Collecting(q, e)' => Collecting(q, e)
  BY OnlyAtSlot
<1>4. SUFFICES ASSUME Tidy, ~New, op \notin Placing
               PROVE  Turn' /\ \A e \in Sources : Placed(e)' /\ (e \in wiped => Accounted(e)')
  BY <1>1, <1>2 DEF RowInv, Tidy
<1>5. Turn /\ \A e \in Sources : Placed(e) /\ (e \in wiped => Accounted(e))
  BY <1>4 DEF RowInv
<1>6. Turn'
  BY <1>3, <1>5 DEF Turn
<1>7. Placed(d)' /\ (Accounted(d) => Accounted(d)')
  BY <1>5
<1>8. ASSUME NEW e \in Sources
      PROVE  Placed(e)' /\ (e \in wiped => Accounted(e)')
  BY <1>3, <1>5, <1>7, OthersRow
<1>9. QED
  BY <1>6, <1>8

(* Only one ping is at a step of pingSlot that concerns iterator_.         *)
LEMMA OneCollects ==
  ASSUME Turn, NEW p \in Pings, NEW d \in Sources, slot[p][d] \in {"test", "push", "step"},
         NEW q \in Pings, slot[q][d] \in {"test", "push", "step"}
  PROVE  q = p
BY DEF Turn, Collecting

(* The loop condition: the row is due, or the ping collects no more.       *)
LEMMA TestRow ==
  ASSUME RunInv, RowInv, NEW p \in Pings, NEW d \in Sources, Test(p, d)
  PROVE  RowInv'
<1>1. PingSlot(p, d)
  BY DEF PingSlot
<1>2. PICK due \in Due(p, d) :
        slot' = [slot EXCEPT ![p][d] = IF due THEN "push"
                                       ELSE IF pts[p][d] = <<>> THEN "done" ELSE "acquire"]
  BY DEF Test, SlotStep
<1>3. slot[p][d] = "test" /\ UNCHANGED <<iterator_, table, lost, pts, seen>>
  BY DEF Test, SlotStep
<1>4. /\ slot'[p][d] = "push" => due
      /\ slot'[p][d] # "step"
      /\ \A q \in Pings \ {p} : slot'[q][d] = slot[q][d]
  BY <1>2 DEF RunInv, TypeInv
<1>5. ASSUME Turn, Placed(d)
      PROVE  Placed(d)' /\ (Accounted(d) => Accounted(d)')
  <2>1. iterator_[d] \in Nat /\ Len(Data[d]) \in Nat /\ iterator_[d] <= Len(Data[d]) + 1
    BY <1>5, FirstRowExists, RowTimes DEF Placed
  <2>2. due => iterator_[d] <= Len(Data[d])
    <3>1. CASE ~(iterator_[d] <= Len(Data[d]))
      <4>1. iterator_[d] = Len(Data[d]) + 1
        BY ONLY <2>1, <3>1
      <4>2. Due(p, d) = {FALSE}
        BY <3>1, <4>1 DEF Due
      <4>3. due \in {FALSE}
        BY <1>2, <4>2
      <4>4. QED
        BY ONLY <4>3
    <3>2. QED
      BY <3>1
  <2>3. Placed(d)'
    BY <1>3, <1>4, <1>5, <2>2 DEF Placed
  <2>4. Stepping(d)' <=> Stepping(d)
    BY <1>3, <1>4 DEF Stepping
  <2>5. QED
    BY <1>3, <2>3, <2>4, PlacesFrame
<1>6. QED
  BY <1>1, <1>5, RowCompose

(* The row at iterator_ joins those of the ping.                           *)
LEMMA PushRow ==
  ASSUME RunInv, RowInv, NEW p \in Pings, NEW d \in Sources, Push(p, d)
  PROVE  RowInv'
<1> DEFINE row == Data[d][iterator_[d]]
<1>1. PingSlot(p, d)
  BY DEF PingSlot
<1>2. /\ slot[p][d] = "push" /\ iterator_[d] <= Len(Data[d])
      /\ slot' = [slot EXCEPT ![p][d] = "step"]
      /\ seen' = [seen EXCEPT ![p][d] = iterator_[d]]
      /\ pts' = [pts EXCEPT ![p][d] = Append(pts[p][d], row)]
      /\ UNCHANGED <<iterator_, table, lost>>
  BY DEF Push, SlotStep
<1>3. /\ slot'[p][d] = "step" /\ seen'[p][d] = iterator_[d]
      /\ pts'[p][d] = Append(pts[p][d], row) /\ pts[p][d] \in Seq(Nat)
      /\ \A q \in Pings \ {p} : slot'[q][d] = slot[q][d] /\ pts'[q][d] = pts[q][d]
  BY <1>2 DEF RunInv, TypeInv
<1>4. ASSUME Turn, Placed(d)
      PROVE  Placed(d)' /\ (Accounted(d) => Accounted(d)')
  <2>1. \A q \in Pings \ {p} : slot[q][d] \notin {"test", "push", "step"}
    BY <1>2, <1>4, OneCollects
  <2>2. Placed(d)'
    BY <1>2, <1>3, <1>4, <2>1 DEF Placed
  <2>3. ~Stepping(d) /\ Stepping(d)'
    BY <1>2, <1>3, <2>1 DEF Stepping
  <2>4. row \in Nat /\ row \notin Taken(d) /\ Taken(d)' = Taken(d) \cup {row}
    <3>1. /\ row \in Nat /\ row \notin Taken(d)
          /\ {Data[d][i] : i \in FirstRow(d)..iterator_[d]} = Taken(d) \cup {row}
      BY <1>2, <1>4, <2>3, RowIsNew DEF RunInv
    <3>2. Taken(d)' = {Data[d][i] : i \in FirstRow(d)..iterator_[d]}
      BY <1>2, <2>3 DEF Taken
    <3>3. QED
      BY <3>1, <3>2
  <2>5. ASSUME Accounted(d)
        PROVE  Accounted(d)'
    <3>1. row \notin table[d] /\ row \notin lost[d] /\ \A q \in Pings : row \notin Pending(q, d)
      BY <2>4, <2>5 DEF Accounted
    <3>2. \A q \in Pings \ {p} : Pending(q, d)' = Pending(q, d)
      BY <1>3 DEF Pending
    <3>3. Pending(p, d)' = Pending(p, d) \cup {row}
      <4>1. {Append(pts[p][d], row)[i] : i \in 1..Len(Append(pts[p][d], row))} =
              {pts[p][d][i] : i \in 1..Len(pts[p][d])} \cup {row}
        BY <1>3, <2>4, Grows, ZenonT(60)
      <4>2. QED
        BY <1>3, <4>1, SMTT(60) DEF Pending
    <3>4. Distinct(pts'[p][d])
      BY <1>3, <2>4, <2>5, <3>1, GrowsDistinct DEF Pending, Accounted
    <3>5. \A q \in Pings : Distinct(pts'[q][d])
      BY <1>3, <2>5, <3>4 DEF Accounted
    <3>6. \A t : t \in Taken(d)' <=>
                   t \in table[d] \/ t \in lost[d] \/ \E q \in Pings : t \in Pending(q, d)'
      <4>1. \A t : t \in Taken(d) <=>
                     t \in table[d] \/ t \in lost[d] \/ \E q \in Pings : t \in Pending(q, d)
        BY <2>5 DEF Accounted
      <4>2. QED
        BY ONLY <2>4, <3>2, <3>3, <4>1, p \in Pings
    <3>7. \A q, r \in Pings : q # r => Pending(q, d)' \cap Pending(r, d)' = {}
      <4>1. \A q, r \in Pings : q # r => Pending(q, d) \cap Pending(r, d) = {}
        BY <2>5 DEF Accounted
      <4>2. QED
        BY ONLY <3>1, <3>2, <3>3, <4>1
    <3>8. \A q \in Pings : Pending(q, d)' \cap (table[d] \cup lost[d]) = {}
      <4>1. \A q \in Pings : Pending(q, d) \cap (table[d] \cup lost[d]) = {}
        BY <2>5 DEF Accounted
      <4>2. QED
        BY ONLY <3>1, <3>2, <3>3, <4>1
    <3>9. QED
      BY <1>2, <3>5, <3>6, <3>7, <3>8 DEF Accounted
  <2>6. QED
    BY <2>2, <2>5
<1>5. QED
  BY <1>1, <1>4, RowCompose

(* Beyond the end nothing is due.                                          *)
LEMMA PushGarbageRow ==
  ASSUME RunInv, RowInv, NEW p \in Pings, NEW d \in Sources, PushGarbage(p, d)
  PROVE  RowInv'
<1>1. PingSlot(p, d)
  BY DEF PingSlot
<1>2. slot[p][d] = "push" /\ iterator_[d] > Len(Data[d])
  BY DEF PushGarbage, SlotStep
<1>3. iterator_[d] \in Nat /\ Len(Data[d]) \in Nat
  BY RowTimes DEF RunInv, TypeInv
<1>4. ~Placed(d)
  BY <1>2, <1>3 DEF Placed
<1>5. QED
  BY <1>1, <1>4, RowCompose

(* iterator_ passes the row that was pushed.                               *)
LEMMA IncrementRow ==
  ASSUME RunInv, RowInv, NEW p \in Pings, NEW d \in Sources, Increment(p, d)
  PROVE  RowInv'
<1>1. PingSlot(p, d)
  BY DEF PingSlot
<1>2. PICK i \in {iterator_[d], seen[p][d]} : iterator_' = [iterator_ EXCEPT ![d] = i + 1]
  BY DEF Increment
<1>3. /\ slot[p][d] = "step" /\ slot' = [slot EXCEPT ![p][d] = "test"]
      /\ seen' = [seen EXCEPT ![p][d] = 0] /\ UNCHANGED <<table, pts, lost>>
  BY DEF Increment, SlotStep
<1>4. /\ slot'[p][d] = "test" /\ iterator_'[d] = i + 1
      /\ \A q \in Pings \ {p} : slot'[q][d] = slot[q][d]
  BY <1>2, <1>3 DEF RunInv, TypeInv
<1>5. ASSUME Turn, Placed(d)
      PROVE  Placed(d)' /\ (Accounted(d) => Accounted(d)')
  <2>1. \A q \in Pings \ {p} : slot[q][d] \notin {"test", "push", "step"}
    BY <1>3, <1>5, OneCollects
  <2>2. /\ iterator_'[d] = iterator_[d] + 1 /\ iterator_[d] \in Nat
        /\ FirstRow(d) \in Nat /\ FirstRow(d) <= iterator_[d] /\ Len(Data[d]) \in Nat
        /\ iterator_[d] <= Len(Data[d])
    BY <1>2, <1>3, <1>4, <1>5, FirstRowExists, RowTimes DEF Placed, RunInv, TypeInv
  <2>3. iterator_'[d] \in FirstRow(d)..Len(Data[d]) + 1 /\ iterator_'[d] - 1 = iterator_[d]
    BY ONLY <2>2
  <2>4. \A q \in Pings : slot'[q][d] \notin {"push", "step"}
    BY <1>4, <2>1
  <2>5. Placed(d)'
    BY <2>3, <2>4 DEF Placed
  <2>6. Stepping(d) /\ ~Stepping(d)'
    BY <1>3, <2>4 DEF Stepping
  <2>7. Taken(d)' = Taken(d)
    BY <2>3, <2>6 DEF Taken
  <2>8. \A q \in Pings : Pending(q, d)' = Pending(q, d)
    BY <1>3 DEF Pending
  <2>9. QED
    BY <1>3, <2>5, <2>7, <2>8 DEF Accounted
<1>6. QED
  BY <1>1, <1>5, RowCompose

(* The ping goes on to insert what it has collected.                       *)
LEMMA AcquireRow ==
  ASSUME RunInv, RowInv, NEW p \in Pings, NEW d \in Sources, Acquire(p, d)
  PROVE  RowInv'
<1>1. PingSlot(p, d)
  BY DEF PingSlot
<1>2. /\ slot[p][d] = "acquire" /\ slot' = [slot EXCEPT ![p][d] = "insert"]
      /\ UNCHANGED <<iterator_, table, lost, pts, seen>>
  BY DEF Acquire, SlotStep
<1>3. slot'[p][d] = "insert" /\ \A q \in Pings \ {p} : slot'[q][d] = slot[q][d]
  BY <1>2 DEF RunInv, TypeInv
<1>4. ASSUME Placed(d)
      PROVE  Placed(d)' /\ (Accounted(d) => Accounted(d)')
  <2>1. Placed(d)'
    BY <1>2, <1>3, <1>4 DEF Placed
  <2>2. Stepping(d)' <=> Stepping(d)
    BY <1>2, <1>3 DEF Stepping
  <2>3. QED
    BY <1>2, <2>1, <2>2, PlacesFrame
<1>5. QED
  BY <1>1, <1>4, RowCompose

(* A row that a ping no longer holds is in the table or refused.           *)
LEMMA RowsMove ==
  ASSUME NEW p \in Pings, NEW d \in Sources, Accounted(d), NEW moved,
         moved \subseteq Pending(p, d),
         iterator_'[d] = iterator_[d], Stepping(d)' <=> Stepping(d),
         \A q \in Pings \ {p} : pts'[q][d] = pts[q][d],
         Distinct(pts'[p][d]), Pending(p, d)' = Pending(p, d) \ moved,
         \/ table'[d] = table[d] \cup moved /\ lost'[d] = lost[d]
         \/ table'[d] = table[d] /\ lost'[d] = lost[d] \cup moved
  PROVE  Accounted(d)'
<1>1. Taken(d)' = Taken(d)
  BY DEF Taken
<1>2. \A q \in Pings \ {p} : Pending(q, d)' = Pending(q, d)
  BY DEF Pending
<1>3. \A t : (t \in table'[d] \/ t \in lost'[d]) <=> t \in table[d] \/ t \in lost[d] \/ t \in moved
  OBVIOUS
<1>4. \A q \in Pings : Distinct(pts'[q][d])
  BY DEF Accounted
<1>5. \A t : t \in Taken(d)' <=>
               t \in table'[d] \/ t \in lost'[d] \/ \E q \in Pings : t \in Pending(q, d)'
  <2>1. \A t : t \in Taken(d) <=>
                 t \in table[d] \/ t \in lost[d] \/ \E q \in Pings : t \in Pending(q, d)
    BY DEF Accounted
  <2>2. \A t : (\E q \in Pings : t \in Pending(q, d)) <=>
                 t \in moved \/ \E q \in Pings : t \in Pending(q, d)'
    BY ONLY <1>2, p \in Pings, moved \subseteq Pending(p, d),
            Pending(p, d)' = Pending(p, d) \ moved
  <2>3. QED
    BY ONLY <1>1, <1>3, <2>1, <2>2
<1>6. \A q, r \in Pings : q # r => Pending(q, d) \cap Pending(r, d) = {}
  BY DEF Accounted
<1>7. \A q, r \in Pings : q # r => Pending(q, d)' \cap Pending(r, d)' = {}
  BY ONLY <1>2, <1>6, Pending(p, d)' = Pending(p, d) \ moved
<1>8. \A q \in Pings : Pending(q, d) \cap (table[d] \cup lost[d]) = {}
  BY DEF Accounted
<1>9. \A q \in Pings : Pending(q, d)' \cap (table'[d] \cup lost'[d]) = {}
  <2>1. ASSUME NEW q \in Pings, NEW t \in Pending(q, d)'
        PROVE  t \notin table'[d] /\ t \notin lost'[d]
    <3>1. t \in Pending(q, d)
      BY <1>2
    <3>2. t \notin table[d] /\ t \notin lost[d]
      BY <1>8, <3>1
    <3>3. t \notin moved
      BY <1>2, <1>6
    <3>4. QED
      BY <1>3, <3>2, <3>3
  <2>2. QED
    BY <2>1
<1>10. QED
  BY <1>4, <1>5, <1>7, <1>9 DEF Accounted

(* No connection: what the ping has collected is lost.                     *)
LEMMA AcquireFailsRow ==
  ASSUME RunInv, RowInv, NEW p \in Pings, NEW d \in Sources, AcquireFails(p, d)
  PROVE  RowInv'
<1>1. PingSlot(p, d)
  BY DEF PingSlot
<1>2. /\ slot[p][d] = "acquire"
      /\ slot' = [slot EXCEPT ![p][d] = "done"] /\ pts' = [pts EXCEPT ![p][d] = <<>>]
      /\ lost' = [lost EXCEPT ![d] = lost[d] \cup {pts[p][d][i] : i \in DOMAIN pts[p][d]}]
      /\ UNCHANGED <<iterator_, table, seen>>
  BY DEF AcquireFails, SlotStep
<1>3. /\ slot'[p][d] = "done" /\ pts'[p][d] = <<>> /\ pts[p][d] \in Seq(Nat)
      /\ \A q \in Pings \ {p} : slot'[q][d] = slot[q][d] /\ pts'[q][d] = pts[q][d]
      /\ lost'[d] = lost[d] \cup {pts[p][d][i] : i \in DOMAIN pts[p][d]}
  BY <1>2 DEF RunInv, TypeInv
<1>4. lost'[d] = lost[d] \cup Pending(p, d)
  <2>1. DOMAIN pts[p][d] = 1..Len(pts[p][d])
    BY <1>3
  <2>2. QED
    BY <1>3, <2>1 DEF Pending
<1>5. Len(pts'[p][d]) = 0
  BY <1>3
<1>6. Pending(p, d)' = Pending(p, d) \ Pending(p, d) /\ Distinct(pts'[p][d])
  BY <1>5 DEF Pending, Distinct
<1>7. ASSUME Placed(d)
      PROVE  Placed(d)' /\ (Accounted(d) => Accounted(d)')
  <2>1. Placed(d)'
    BY <1>2, <1>3, <1>7 DEF Placed
  <2>2. Stepping(d)' <=> Stepping(d)
    BY <1>2, <1>3 DEF Stepping
  <2>3. QED
    BY <1>2, <1>3, <1>4, <1>6, <2>1, <2>2, RowsMove
<1>8. QED
  BY <1>1, <1>7, RowCompose

(* A row goes from the ping to the table, or is lost.                      *)
LEMMA InsertRow ==
  ASSUME RunInv, RowInv, NEW p \in Pings, NEW d \in Sources, Insert(p, d)
  PROVE  RowInv'
<1> DEFINE row == Head(pts[p][d])
<1>1. PingSlot(p, d)
  BY DEF PingSlot
<1>2. /\ slot[p][d] = "insert"
      /\ slot' = [slot EXCEPT ![p][d] = IF Len(pts[p][d]) = 1 THEN "done" ELSE "insert"]
      /\ pts' = [pts EXCEPT ![p][d] = Tail(pts[p][d])]
      /\ \/ table' = [table EXCEPT ![d] = table[d] \cup {row}] /\ lost' = lost
         \/ lost' = [lost EXCEPT ![d] = lost[d] \cup {row}] /\ table' = table
      /\ UNCHANGED <<seen, iterator_>>
  BY DEF Insert, SlotStep
<1>3. /\ slot'[p][d] \in {"done", "insert"} /\ pts'[p][d] = Tail(pts[p][d])
      /\ pts[p][d] \in Seq(Nat) /\ pts[p][d] # <<>>
      /\ \A q \in Pings \ {p} : slot'[q][d] = slot[q][d] /\ pts'[q][d] = pts[q][d]
  BY <1>2 DEF RunInv, TypeInv, SlotInv
<1>4. \/ table'[d] = table[d] \cup {row} /\ lost'[d] = lost[d]
      \/ table'[d] = table[d] /\ lost'[d] = lost[d] \cup {row}
  BY <1>2 DEF RunInv, TypeInv
<1>5. ASSUME Placed(d)
      PROVE  Placed(d)' /\ (Accounted(d) => Accounted(d)')
  <2>1. Placed(d)'
    BY <1>2, <1>3, <1>5 DEF Placed
  <2>2. Stepping(d)' <=> Stepping(d)
    BY <1>2, <1>3 DEF Stepping
  <2>3. ASSUME Accounted(d)
        PROVE  Accounted(d)'
    <3>1. Distinct(pts[p][d])
      BY <2>3 DEF Accounted
    <3>2. /\ Distinct(Tail(pts[p][d])) /\ row \in {pts[p][d][i] : i \in 1..Len(pts[p][d])}
          /\ {Tail(pts[p][d])[i] : i \in 1..Len(Tail(pts[p][d]))} =
               {pts[p][d][i] : i \in 1..Len(pts[p][d])} \ {row}
      BY <1>3, <3>1, TailDistinct
    <3>3. /\ Distinct(pts'[p][d]) /\ {row} \subseteq Pending(p, d)
          /\ Pending(p, d)' = Pending(p, d) \ {row}
      <4>1. /\ Pending(p, d) = {pts[p][d][i] : i \in 1..Len(pts[p][d])}
            /\ Pending(p, d)' = {pts'[p][d][i] : i \in 1..Len(pts'[p][d])}
        BY DEF Pending
      <4>2. pts'[p][d] = Tail(pts[p][d])
        BY <1>3
      <4>3. Pending(p, d)' = {Tail(pts[p][d])[i] : i \in 1..Len(Tail(pts[p][d]))}
        BY ONLY <4>1, <4>2
      <4>4. Distinct(pts'[p][d])
        BY ONLY <3>2, <4>2
      <4>5. Pending(p, d)' = Pending(p, d) \ {row}
        BY ONLY <3>2, <4>1, <4>3
      <4>6. {row} \subseteq Pending(p, d)
        BY ONLY <3>2, <4>1
      <4>7. QED
        BY <4>4, <4>5, <4>6
    <3>4. QED
      BY <1>2, <1>3, <1>4, <2>2, <2>3, <3>3, RowsMove
  <2>4. QED
    BY <2>1, <2>3
<1>6. QED
  BY <1>1, <1>5, RowCompose

-----------------------------------------------------------------------------
(* The other steps                                                         *)

(* What concerns no row keeps the invariant.                               *)
LEMMA RowFrame ==
  ASSUME RowInv, UNCHANGED <<table, iterator_, lost, wiped, slot, pts, seen>>,
         (Tidy /\ ~New /\ op \notin Placing)' => Tidy /\ ~New /\ op \notin Placing
  PROVE  RowInv'
<1>1. Turn => Turn'
  BY DEF Turn, Collecting
<1>2. ASSUME NEW d \in Sources
      PROVE  Placed(d) => Placed(d)'
  BY DEF Placed
<1>3. ASSUME NEW d \in Sources
      PROVE  Accounted(d) => Accounted(d)'
  BY PlacesFrame DEF Stepping
<1>4. QED
  BY <1>1, <1>2, <1>3 DEF RowInv

(* A command meets no ping that collects, or places the iterators anew.    *)
LEMMA OperatorRow ==
  ASSUME RunInv, RowInv, FreshInv, Operator
  PROVE  RowInv'
<1>1. UNCHANGED <<last, slot, pts, seen>>
  BY OperatorFrame DEF clockVars, slotVars
<1>2. CASE StartCommand \/ Rewind \/ SeekOn \/ SeekEnds \/ SeekThrows \/ ResetKpi
  <2>1. \/ op' \in Placing \/ op' \in {"reset_kpi", "stop"}
        \/ op = "seek" /\ AtEnd /\ UNCHANGED <<stale, overlap>>
    BY <1>2 DEF StartCommand, Rewind, SeekOn, SeekEnds, SeekThrows, ResetKpi, CommandStep,
                Placing, history
  <2>2. CASE op' \in Placing \/ op' \in {"reset_kpi", "stop"}
    BY <2>2 DEF RowInv, New
  <2>3. CASE op = "seek" /\ AtEnd /\ UNCHANGED <<stale, overlap>>
    <3>1. ~Calm
      BY <2>3, SeekFinds
    <3>2. stale'
      BY <2>3, <3>1 DEF Calm, FreshInv, Placing
    <3>3. QED
      BY <3>2 DEF RowInv, Tidy
  <2>4. QED
    BY <2>1, <2>2, <2>3
<1>3. CASE CleanDatabase \/ Delete \/ DeleteFails \/ NewCalculation \/ StartClock
  <2>1. op' \in Halted \/ armed'
    BY <1>3 DEF CleanDatabase, Delete, DeleteFails, NewCalculation, StartClock, CommandStep,
                Halted
  <2>2. QED
    BY <2>1 DEF RowInv, New
<1>4. CASE StopCommand \/ StopReturns
  <2>1. /\ UNCHANGED <<armed, stale, raced, table, iterator_, lost, wiped>>
        /\ op' \in Halted \/ (op \in {"idle", "halt"} /\ op' \in {"idle", "halt"})
    BY <1>4 DEF StopCommand, StopReturns, CommandStep, Halted, daqVars, history
  <2>2. CASE op' \in Halted
    BY <2>2 DEF RowInv, New
  <2>3. CASE op \in {"idle", "halt"} /\ op' \in {"idle", "halt"}
    BY <1>1, <2>1, <2>3, RowFrame DEF Tidy, New, Halted, Placing
  <2>4. QED
    BY <2>1, <2>2, <2>3
<1>5. QED
  BY <1>2, <1>3, <1>4 DEF Operator

(* Before its first ping a run has collected none of its rows.             *)
LEMMA FreshRows ==
  ASSUME RunInv, Calm, New, op \notin Placing
  PROVE  Turn /\ \A d \in Sources : Placed(d) /\ (d \in wiped => Accounted(d))
<1>1. /\ InFlight = {} /\ \A d \in Sources : Positioned(d)
      /\ \A d \in wiped : table[d] = {}
  BY DEF RunInv, NewInv
<1>2. \A q \in Pings, d \in Sources : slot[q][d] = "done" /\ pts[q][d] = <<>>
  BY <1>1 DEF InFlight, RunInv, SlotInv
<1>3. Turn
  BY <1>2 DEF Turn, Collecting
<1>4. ASSUME NEW d \in Sources
      PROVE  iterator_[d] = FirstRow(d) /\ FirstRow(d) \in 1..Len(Data[d]) /\ lost[d] = {}
  <2>1. /\ iterator_[d] <= Len(Data[d]) /\ Data[d][iterator_[d]] >= StartTime
        /\ \A j \in 1..iterator_[d] - 1 : Data[d][j] < StartTime
        /\ lost[d] = {}
    BY <1>1 DEF Positioned
  <2>2. /\ FirstRow(d) \in 1..Len(Data[d]) /\ Data[d][FirstRow(d)] >= StartTime
        /\ \A j \in 1..FirstRow(d) - 1 : Data[d][j] < StartTime
    BY FirstRowExists
  <2>3. iterator_[d] \in Nat \ {0} /\ Len(Data[d]) \in Nat
    BY RowTimes DEF RunInv, TypeInv
  <2>4. ASSUME iterator_[d] < FirstRow(d)
        PROVE  FALSE
    <3>1. iterator_[d] \in 1..FirstRow(d) - 1 /\ iterator_[d] \in 1..Len(Data[d])
      BY ONLY <2>2, <2>3, <2>4
    <3>2. Data[d][iterator_[d]] < StartTime /\ Data[d][iterator_[d]] \in Nat
      BY <2>2, <3>1, RowTimes
    <3>3. QED
      BY <2>1, <3>2, StartTimeAssumption
  <2>5. ASSUME FirstRow(d) < iterator_[d]
        PROVE  FALSE
    <3>1. FirstRow(d) \in 1..iterator_[d] - 1
      BY ONLY <2>2, <2>3, <2>5
    <3>2. Data[d][FirstRow(d)] < StartTime /\ Data[d][FirstRow(d)] \in Nat
      BY <2>1, <2>2, <3>1, RowTimes
    <3>3. QED
      BY <2>2, <3>2, StartTimeAssumption
  <2>6. QED
    BY <2>1, <2>2, <2>3, <2>4, <2>5
<1>5. ASSUME NEW d \in Sources
      PROVE  Placed(d) /\ (d \in wiped => Accounted(d))
  <2>1. Placed(d)
    <3>1. iterator_[d] \in FirstRow(d)..Len(Data[d]) + 1
      BY <1>4, RowTimes
    <3>2. QED
      BY <1>2, <3>1 DEF Placed
  <2>2. Taken(d) = {}
    <3>1. ~Stepping(d)
      BY <1>2 DEF Stepping
    <3>2. FirstRow(d)..iterator_[d] - 1 = {}
      BY <1>4, RowTimes
    <3>3. QED
      BY <3>1, <3>2 DEF Taken
  <2>3. \A q \in Pings : Len(pts[q][d]) = 0
    BY <1>2
  <2>4. \A q \in Pings : Pending(q, d) = {} /\ Distinct(pts[q][d])
    BY <2>3 DEF Pending, Distinct
  <2>5. d \in wiped => Accounted(d)
    BY <1>1, <1>4, <2>2, <2>4 DEF Accounted
  <2>6. QED
    BY <2>1, <2>5
<1>6. QED
  BY <1>3, <1>5

(* The first ping of a run finds all of its rows yet to be collected.      *)
LEMMA ClockRow ==
  ASSUME IInv, RunInv, RowInv, FreshInv, SimulatedClock
  PROVE  RowInv'
<1>1. CASE ClockBegins
  BY <1>1 DEF ClockBegins, Begin, RowInv, New
<1>2. CASE ClockTicks \/ ClockEnds
  <2>1. UNCHANGED <<last, op, armed, stale, raced, table, iterator_, lost, wiped, slot, pts, seen>>
    BY <1>2 DEF ClockTicks, ClockEnds, Advance, Pause, End, commandVars, slotVars, daqVars, history
  <2>2. QED
    BY <2>1, RowFrame DEF Tidy, New
<1>3. ASSUME NEW p \in Pings, OnTimePing(p)
      PROVE  RowInv'
  <2>1. /\ UNCHANGED <<op, armed, raced, table, iterator_, lost, wiped, slot, pts, seen>>
        /\ stale' = (stale \/ op \in ResetSteps) /\ alive
    BY <1>3 DEF OnTimePing, Ping, commandVars, slotVars, daqVars
  <2>2. CASE ~New /\ op \notin Placing
    BY <2>1, <2>2, RowFrame DEF Tidy
  <2>3. CASE stale'
    BY <2>3 DEF RowInv, Tidy
  <2>4. CASE ~stale' /\ (New \/ op \in Placing)
    <3>1. Calm /\ New /\ op \notin Placing
      BY <2>1, <2>4 DEF Calm, FreshInv, Placing, ResetSteps
    <3>2. Turn /\ \A d \in Sources : Placed(d) /\ (d \in wiped => Accounted(d))
      BY <3>1, FreshRows
    <3>3. Turn' /\ \A d \in Sources : Placed(d)'
      BY <2>1, <3>2 DEF Turn, Collecting, Placed
    <3>4. \A d \in Sources : d \in wiped => Accounted(d)'
      BY <2>1, <3>2, PlacesFrame DEF Stepping
    <3>5. QED
      BY <2>1, <3>3, <3>4 DEF RowInv
  <2>5. QED
    BY <2>2, <2>3, <2>4
<1>4. QED
  BY <1>1, <1>2, <1>3 DEF SimulatedClock

(* A ping that starts to collect finds none collecting.                    *)
LEMMA AnnounceRow ==
  ASSUME IInv, RunInv, RowInv, NEW p \in Pings, Announce(p)
  PROVE  RowInv'
<1>1. /\ pc[p] = "announce" /\ slot' = [slot EXCEPT ![p] = [d \in Sources |-> "test"]]
      /\ UNCHANGED <<pts, seen, iterator_, table, lost>>
      /\ raced' = (raced \/ \E q \in Pings, d \in Sources : Collecting(q, d))
  BY DEF Announce, PingStep
<1>2. UNCHANGED <<op, stale, wiped>> /\ (New' <=> New)
  BY ThreadFrame DEF PingThread
<1>3. /\ \A d \in Sources : slot'[p][d] = "test" /\ slot[p][d] = "done"
      /\ \A q \in Pings \ {p} : slot'[q] = slot[q]
  BY <1>1 DEF RunInv, TypeInv, SlotInv
<1>4. SUFFICES ASSUME Tidy', ~New, op \notin Placing
               PROVE  Turn' /\ \A d \in Sources : Placed(d)' /\ (d \in wiped => Accounted(d)')
  BY <1>2 DEF RowInv
<1>5. Tidy /\ \A q \in Pings, d \in Sources : ~Collecting(q, d)
  BY <1>1, <1>2, <1>4 DEF Tidy
<1>6. Turn /\ \A d \in Sources : Placed(d) /\ (d \in wiped => Accounted(d))
  BY <1>4, <1>5 DEF RowInv
<1>7. Turn'
  BY <1>3, <1>5 DEF Turn, Collecting
<1>8. ASSUME NEW d \in Sources
      PROVE  Placed(d)' /\ (d \in wiped => Accounted(d)')
  <2>1. Placed(d)'
    BY <1>1, <1>3, <1>6 DEF Placed
  <2>2. Stepping(d)' <=> Stepping(d)
    BY <1>3 DEF Stepping
  <2>3. QED
    BY <1>1, <1>6, <2>1, <2>2, PlacesFrame
<1>9. QED
  BY <1>7, <1>8

(* The steps of a ping outside of the data sources leave the rows alone.   *)
LEMMA ThreadRow ==
  ASSUME IInv, RunInv, RowInv, NEW p \in Pings, PingThread(p)
  PROVE  RowInv'
<1>1. ASSUME NEW d \in Sources, PingSlot(p, d)
      PROVE  RowInv'
  BY <1>1, TestRow, PushRow, PushGarbageRow, IncrementRow, AcquireRow, AcquireFailsRow, InsertRow
     DEF PingSlot
<1>2. CASE \/ Join(p) \/ MakeDbSession(p) \/ MakeDbSessionFails(p) \/ Daily(p) \/ Weekly(p)
           \/ NextKpi(p)
  <2>1. UNCHANGED <<op, stale, wiped>> /\ (New' <=> New)
    BY <1>2, ThreadFrame DEF PingThread
  <2>2. UNCHANGED <<raced, table, iterator_, lost, slot, pts, seen>>
    BY <1>2 DEF Join, MakeDbSession, MakeDbSessionFails, Daily, Weekly, NextKpi, PingStep,
                slotVars, history
  <2>3. QED
    BY <2>1, <2>2, RowFrame DEF Tidy
<1>3. QED
  BY <1>1, <1>2, AnnounceRow DEF PingThread

(* No row is collected before the first start.                             *)
LEMMA RowInit == Init => RowInv
BY DEF Init, ClockInit, RowInv, New

(* Every step keeps each row in one place.                                 *)
LEMMA RowStep == IInv /\ RunInv /\ FreshInv /\ RowInv /\ [Next]_vars => RowInv'
<1> SUFFICES ASSUME IInv, RunInv, FreshInv, RowInv, [Next]_vars
             PROVE  RowInv'
  OBVIOUS
<1>1. CASE UNCHANGED vars
  <2>1. UNCHANGED <<last, op, armed, stale, raced, table, iterator_, lost, wiped, slot, pts, seen>>
    BY <1>1 DEF vars, clockVars, commandVars, slotVars, daqVars, history
  <2>2. QED
    BY <2>1, RowFrame DEF Tidy, New
<1>2. QED
  BY <1>1, OperatorRow, ClockRow, ThreadRow DEF Next

(* For all data and any number of pings in flight: as long as no two of    *)
(* them collect at once, pingSlot loses no row and takes none twice, even  *)
(* when pings overlap.                                                     *)
THEOREM OnceTheorem == Spec => []EveryRowOnce
<1>1. RunInv /\ FreshInv /\ RowInv => EveryRowOnce
  <2> DEFINE pending(p, d) == {pts[p][d][i] : i \in DOMAIN pts[p][d]}
  <2> SUFFICES ASSUME RunInv, FreshInv, RowInv, ~stale, ~raced, Settled, NEW d \in wiped
               PROVE  /\ ~(\E p \in Pings : slot[p][d] = "step") =>
                           table[d] \cup lost[d] \cup UNION {pending(p, d) : p \in Pings} =
                             {Data[d][i] : i \in FirstRow(d)..iterator_[d] - 1}
                      /\ \A p, q \in Pings : p # q => pending(p, d) \cap pending(q, d) = {}
                      /\ \A p \in Pings : pending(p, d) \cap (table[d] \cup lost[d]) = {}
    BY DEF EveryRowOnce
  <2>1. op \notin Placing /\ d \in Sources
    BY DEF Settled, Placing, RunInv, TypeInv
  <2>2. Accounted(d)
    <3>1. CASE New
      BY <2>1, <3>1, FreshRows DEF FreshInv, Calm
    <3>2. CASE ~New
      BY <2>1, <3>2 DEF RowInv, Tidy
    <3>3. QED
      BY <3>1, <3>2
  <2>3. \A p \in Pings : pending(p, d) = Pending(p, d)
    <3>1. \A p \in Pings : pts[p][d] \in Seq(Nat)
      BY <2>1 DEF RunInv, TypeInv
    <3>2. \A p \in Pings : DOMAIN pts[p][d] = 1..Len(pts[p][d])
      BY ONLY <3>1
    <3>3. QED
      BY <3>2 DEF Pending
  <2>4. ASSUME ~Stepping(d)
        PROVE  table[d] \cup lost[d] \cup UNION {pending(p, d) : p \in Pings} =
                 {Data[d][i] : i \in FirstRow(d)..iterator_[d] - 1}
    <3>1. \A t : t \in Taken(d) <=>
                   t \in table[d] \/ t \in lost[d] \/ \E p \in Pings : t \in pending(p, d)
      BY <2>2, <2>3 DEF Accounted
    <3>2. Taken(d) = {Data[d][i] : i \in FirstRow(d)..iterator_[d] - 1}
      BY <2>4 DEF Taken
    <3>3. Taken(d) = table[d] \cup lost[d] \cup UNION {pending(p, d) : p \in Pings}
      <4> HIDE DEF pending
      <4>1. QED
        BY ONLY <3>1
    <3>4. QED
      BY ONLY <3>2, <3>3
  <2>5. /\ \A p, q \in Pings : p # q => pending(p, d) \cap pending(q, d) = {}
        /\ \A p \in Pings : pending(p, d) \cap (table[d] \cup lost[d]) = {}
    <3> HIDE DEF pending
    <3>1. QED
      BY <2>2, <2>3 DEF Accounted
  <2>6. QED
    BY <2>4, <2>5 DEF Stepping
<1>2. QED
  BY <1>1, InvInit, InvStep, RunInit, RunStep, FreshInit, FreshStep, RowInit, RowStep, PTL DEF Spec

=============================================================================
