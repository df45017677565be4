----------------------------- MODULE Application -----------------------------
(***************************************************************************)
(* Application and Daq: what happens at every ping of the simulated clock, *)
(* and what a "start" command does meanwhile.                              *)
(*                                                                         *)
(* onTimePing detaches a thread per ping and returns, so a slow database   *)
(* lets the threads of several pings overlap, and lets them outlive the    *)
(* run they belong to.  Each of them runs pingSlot of both data sources in *)
(* two more threads, joins them and then computes the KPIs that are due.   *)
(* None of the state they share (the iterators, tp_kpi_next_,              *)
(* calculation_id_) is protected.  `overlap` and `stale` record whether    *)
(* pings overlapped and whether one of them met a restart; the invariants  *)
(* say what holds without.  Commands come one at a time here.  The clock   *)
(* is the one TimeReference implements.                                    *)
(* Statistics, logging and the KPI arithmetic are left out: no step here   *)
(* depends on them.                                                        *)
(***************************************************************************)
EXTENDS SimClock, Sequences

CONSTANTS
  Daqs,          \* the data sources, in the order they are reset: daq_energy_
                 \* and daq_production_
  Data,          \* per data source, the times of its rows in data_
  Day,           \* 24h
  KpiStart,      \* 06:00 on the day of tp_initial_
  FirstWeekday,  \* tm_wday of KpiStart
  Pings,         \* bound: identities of the ping threads in flight
  MaxTime,       \* bound on the simulated time
  MaxRuns,       \* bound on the start commands
  MaxFailures    \* bound on the failures of the database

Sources == {Daqs[i] : i \in 1..Len(Daqs)}

ASSUME DaqsAssumption ==
  /\ Daqs \in Seq({"energy", "production"}) /\ Daqs # <<>>
  /\ \A i, j \in 1..Len(Daqs) : Daqs[i] = Daqs[j] => i = j
ASSUME DataAssumption ==
  \A d \in Sources :
    /\ Data[d] \in Seq(Nat)
    /\ \A i, j \in 1..Len(Data[d]) : i < j => Data[d][i] < Data[d][j]
    /\ \E i \in 1..Len(Data[d]) : Data[d][i] >= StartTime
ASSUME DayAssumption == Day \in Nat \ {0} /\ FirstWeekday \in 0..6
ASSUME KpiAssumption ==
  KpiStart \in Nat /\ KpiStart < StartTime + Day /\ StartTime < KpiStart + Day
ASSUME BoundAssumption ==
  MaxTime \in Nat /\ MaxRuns \in Nat /\ MaxFailures \in Nat

VARIABLES
  op,               \* the next step of the command in progress
  target,           \* which of Daqs that step is about
  armed,            \* start() has launched a worker that has yet to begin
  calc_id,          \* the static counter in acceptMessage
  calculation_id_,
  iterator_,        \* per data source, an index into Data
  tp_kpi_next_,
  table,            \* per data source, the times of the rows in the database
  pc,               \* per ping thread, its next step
  tp,               \* per ping thread, the time it was pinged with
  slot,             \* per ping thread and source, the next step of pingSlot
  pts,              \* per ping thread and source, the rows collected
  seen,             \* the iterator_ whose row was collected last
  crashed,          \* std::terminate was called, or garbage was copied
  \* History variables, read by no action:
  mine,             \* per ping thread, the run it belongs to
  overlap,          \* two pings of this run were in flight at once
  raced,            \* two pings were collecting rows at once
  stale,            \* a ping was in flight when this run was being started
  skipped,          \* a pause made this run leave out pings
  wiped,            \* the sources whose table this run has deleted
  lost,             \* per source, rows the database failed to store
  kpis, weeklies,   \* the days this run computed daily and weekly KPIs for
  starts, failures  \* counted for the bounds

commandVars == <<op, target, armed, calc_id, calculation_id_, starts>>
pingVars    == <<pc, tp, mine>>
slotVars    == <<slot, pts, seen>>
daqVars     == <<iterator_, tp_kpi_next_, table, crashed>>
history     == <<overlap, raced, stale, skipped, wiped, lost, kpis, weeklies>>
vars == <<clockVars, commandVars, pingVars, slotVars, daqVars, history, failures>>

InFlight == {p \in Pings : pc[p] # "free"}

(* The position resetIterator(tp_initial_) looks for.                      *)
FirstRow(d) ==
  CHOOSE i \in 1..Len(Data[d]) :
    /\ Data[d][i] >= StartTime
    /\ \A j \in 1..i - 1 : Data[d][j] < StartTime

(* tm_wday == 0 of a KPI day                                               *)
Sunday(day) == (FirstWeekday + (day - KpiStart) \div Day) % 7 = 0

(* After init()                                                            *)
Init ==
  /\ ClockInit
  /\ op = "idle"
  /\ target = 1
  /\ armed = FALSE
  /\ calc_id = 0
  /\ calculation_id_ = 0
  /\ iterator_ = [d \in Sources |-> FirstRow(d)]
  /\ tp_kpi_next_ = KpiStart
  /\ table = [d \in Sources |-> {}]
  /\ pc = [p \in Pings |-> "free"]
  /\ tp = [p \in Pings |-> NoTime]
  /\ mine = [p \in Pings |-> NoTime]
  /\ slot = [p \in Pings |-> [d \in Sources |-> "done"]]
  /\ pts = [p \in Pings |-> [d \in Sources |-> <<>>]]
  /\ seen = [p \in Pings |-> [d \in Sources |-> 0]]
  /\ crashed = FALSE
  /\ overlap = FALSE
  /\ raced = FALSE
  /\ stale = FALSE
  /\ skipped = FALSE
  /\ wiped = Sources
  /\ lost = [d \in Sources |-> {}]
  /\ kpis = <<>>
  /\ weeklies = <<>>
  /\ starts = 0
  /\ failures = 0

(* The database refuses an operation.                                      *)
DatabaseFails ==
  /\ failures < MaxFailures
  /\ failures' = failures + 1

-----------------------------------------------------------------------------
(* acceptMessage: "start" and "stop"                                       *)

(* The steps of "start" that meet the clock of the run before.             *)
ResetSteps == {"rewind", "seek", "reset_kpi", "stop"}

CommandStep(from, to) ==
  /\ op = from
  /\ op' = to
  /\ UNCHANGED <<clockVars, pingVars, slotVars, starts>>

StartCommand ==
  /\ starts < MaxRuns
  /\ starts' = starts + 1
  /\ op = "idle"
  /\ op' = "rewind"
  /\ target' = 1
  /\ stale' = (InFlight # {})
  /\ overlap' = FALSE
  /\ raced' = FALSE
  /\ skipped' = FALSE
  /\ wiped' = {}
  /\ UNCHANGED <<clockVars, pingVars, slotVars, armed, calc_id,
                 calculation_id_, daqVars, lost, kpis, weeklies, failures>>

(* resetIterator: iterator_ = data_.begin()                                *)
Rewind ==
  /\ CommandStep("rewind", "seek")
  /\ iterator_' = [iterator_ EXCEPT ![Daqs[target]] = 1]
  /\ lost' = [lost EXCEPT ![Daqs[target]] = {}]
  /\ UNCHANGED <<target, armed, calc_id, calculation_id_, tp_kpi_next_, table,
                 crashed, overlap, raced, stale, skipped, wiped, kpis, weeklies, failures>>

BeforeStart(d, i) == i <= Len(Data[d]) /\ Data[d][i] < StartTime

(* resetIterator: ++iterator_ while the row is before tp_initial_          *)
SeekOn ==
  /\ BeforeStart(Daqs[target], iterator_[Daqs[target]])
  /\ CommandStep("seek", "seek")
  /\ iterator_' = [iterator_ EXCEPT ![Daqs[target]] = @ + 1]
  /\ UNCHANGED <<target, armed, calc_id, calculation_id_, tp_kpi_next_, table,
                 crashed, history, failures>>

AtEnd == iterator_[Daqs[target]] = Len(Data[Daqs[target]]) + 1

SeekEnds ==
  /\ ~BeforeStart(Daqs[target], iterator_[Daqs[target]])
  /\ ~AtEnd
  /\ CommandStep("seek", IF target < Len(Daqs) THEN "rewind" ELSE "reset_kpi")
  /\ target' = IF target < Len(Daqs) THEN target + 1 ELSE target
  /\ UNCHANGED <<armed, calc_id, calculation_id_, daqVars, history, failures>>

(* "iterator initialize failed": the rest of the command is abandoned.     *)
SeekThrows ==
  /\ AtEnd
  /\ CommandStep("seek", "idle")
  /\ UNCHANGED <<target, armed, calc_id, calculation_id_, daqVars, history,
                 failures>>

(* The rest of resetIterators                                              *)
ResetKpi ==
  /\ CommandStep("reset_kpi", "stop")
  /\ tp_kpi_next_' = KpiStart
  /\ kpis' = <<>>
  /\ weeklies' = <<>>
  /\ UNCHANGED <<target, armed, calc_id, calculation_id_, iterator_, table,
                 crashed, overlap, raced, stale, skipped, wiped, lost, failures>>

StopCommand ==
  /\ CommandStep("idle", "halt")
  /\ UNCHANGED <<target, armed, calc_id, calculation_id_, daqVars, history,
                 failures>>

(* Fault: stop() does not wait for the worker.                             *)
StopReturnsAtOnce ==
  /\ CommandStep("stop", "clean") \/ CommandStep("halt", "idle")
  /\ UNCHANGED <<target, armed, calc_id, calculation_id_, daqVars, history,
                 failures>>

(* timeref.stop() returns when the worker has ended.                       *)
StopReturns ==
  /\ ~armed /\ ~alive
  /\ CommandStep("stop", "clean") \/ CommandStep("halt", "idle")
  /\ UNCHANGED <<target, armed, calc_id, calculation_id_, daqVars, history,
                 failures>>

(* cleanDatabase: pool_.acquire()                                          *)
CleanDatabase ==
  /\ \/ CommandStep("clean", "delete") /\ UNCHANGED failures
     \/ CommandStep("clean", "calc_id") /\ DatabaseFails
  /\ target' = 1
  /\ UNCHANGED <<armed, calc_id, calculation_id_, daqVars, history>>

(* cleanDatabase: DELETE FROM energy_data, then production_data            *)
Delete ==
  /\ CommandStep("delete", IF target < Len(Daqs) THEN "delete" ELSE "calc_id")
  /\ target' = IF target < Len(Daqs) THEN target + 1 ELSE target
  /\ table' = [table EXCEPT ![Daqs[target]] = {}]
  /\ wiped' = wiped \cup {Daqs[target]}
  /\ UNCHANGED <<armed, calc_id, calculation_id_, iterator_, tp_kpi_next_,
                 crashed, overlap, raced, stale, skipped, lost, kpis, weeklies, failures>>

(* "Clean database failed": the start goes on.                             *)
DeleteFails ==
  /\ CommandStep("delete", "calc_id")
  /\ DatabaseFails
  /\ UNCHANGED <<target, armed, calc_id, calculation_id_, daqVars, history>>

(* calculation_id_ = calc_id++                                             *)
NewCalculation ==
  /\ CommandStep("calc_id", "start")
  /\ calculation_id_' = calc_id
  /\ calc_id' = calc_id + 1
  /\ UNCHANGED <<target, armed, daqVars, history, failures>>

(* timeref.start(tp_initial_)                                              *)
StartClock ==
  /\ CommandStep("start", "idle")
  /\ armed' = TRUE
  /\ UNCHANGED <<target, calc_id, calculation_id_, daqVars, history, failures>>

Operator ==
  \/ StartCommand \/ Rewind \/ SeekOn \/ SeekEnds \/ SeekThrows \/ ResetKpi
  \/ StopCommand \/ StopReturns
  \/ CleanDatabase \/ Delete \/ DeleteFails \/ NewCalculation \/ StartClock

-----------------------------------------------------------------------------
(* The clock                                                               *)

ClockBegins ==
  /\ armed
  /\ Begin
  /\ armed' = FALSE
  /\ UNCHANGED <<op, target, calc_id, calculation_id_, starts, pingVars, slotVars,
                 daqVars, history, failures>>

ClockTicks ==
  /\ Advance \/ (alive /\ Pause)
  /\ now' <= MaxTime
  /\ UNCHANGED <<commandVars, pingVars, slotVars, daqVars, history, failures>>

(* The worker ends only when it is told to stop.                           *)
ClockEnds ==
  /\ op \in {"stop", "halt"}
  /\ End
  /\ UNCHANGED <<commandVars, pingVars, slotVars, daqVars, history, failures>>

(* onTimePing: std::thread([this, tp] {...}).detach()                      *)
OnTimePing(p) ==
  /\ pc[p] = "free"
  /\ Ping
  /\ pc' = [pc EXCEPT ![p] = "announce"]
  /\ tp' = [tp EXCEPT ![p] = now]
  /\ mine' = [mine EXCEPT ![p] = calculation_id_]
  /\ overlap' = (overlap \/ InFlight # {})
  /\ stale' = (stale \/ op \in ResetSteps)
  /\ skipped' = (skipped \/ ahead > IF last = NoTime THEN 0 ELSE 1)
  /\ UNCHANGED <<commandVars, slotVars, daqVars, raced, wiped, lost, kpis,
                 weeklies, failures>>

SimulatedClock ==
  ClockBegins \/ ClockTicks \/ ClockEnds \/ \E p \in Pings : OnTimePing(p)

-----------------------------------------------------------------------------
(* pingSlot(tp): one thread per ping and data source                       *)

SlotStep(p, d, from, to) ==
  /\ slot[p][d] = from
  /\ slot' = [slot EXCEPT ![p][d] = to]
  /\ UNCHANGED <<clockVars, commandVars, pingVars, tp_kpi_next_, overlap, raced,
                 stale, skipped, wiped, kpis, weeklies>>

(* Fault: a row is collected only when the ping is past it.                *)
DueLate(p, d) ==
  IF iterator_[d] <= Len(Data[d]) THEN {tp[p] > Data[d][iterator_[d]]}
  ELSE IF iterator_[d] = Len(Data[d]) + 1 THEN {FALSE} ELSE BOOLEAN

(* Fault: iterator_ is not compared with the end.                          *)
DueUnchecked(p, d) ==
  IF iterator_[d] <= Len(Data[d]) THEN {tp[p] >= Data[d][iterator_[d]]} ELSE BOOLEAN

(* tp >= iterator_->tp && iterator_ != data_.end().  At the end the row is *)
(* read before the comparison with the end, without effect; beyond the end *)
(* that comparison is of no use and the outcome that of reading garbage.   *)
Due(p, d) ==
  IF iterator_[d] <= Len(Data[d]) THEN {tp[p] >= Data[d][iterator_[d]]}
  ELSE IF iterator_[d] = Len(Data[d]) + 1 THEN {FALSE} ELSE BOOLEAN

Test(p, d) ==
  /\ slot[p][d] = "test"
  /\ \E due \in Due(p, d) :
       SlotStep(p, d, "test", IF due THEN "push"
                              ELSE IF pts[p][d] = <<>> THEN "done" ELSE "acquire")
  /\ UNCHANGED <<iterator_, table, crashed, pts, seen, lost, failures>>

(* Fault: pts.push_back( *(iterator_ + 1) )                                *)
PushNext(p, d) ==
  /\ iterator_[d] < Len(Data[d])
  /\ SlotStep(p, d, "push", "step")
  /\ seen' = [seen EXCEPT ![p][d] = iterator_[d]]
  /\ pts' = [pts EXCEPT ![p][d] = Append(@, Data[d][iterator_[d] + 1])]
  /\ UNCHANGED <<iterator_, table, crashed, lost, failures>>

(* pts.push_back( *iterator_ )                                             *)
Push(p, d) ==
  /\ iterator_[d] <= Len(Data[d])
  /\ SlotStep(p, d, "push", "step")
  /\ seen' = [seen EXCEPT ![p][d] = iterator_[d]]
  /\ pts' = [pts EXCEPT ![p][d] = Append(@, Data[d][iterator_[d]])]
  /\ UNCHANGED <<iterator_, table, crashed, lost, failures>>

(* What lies behind the rows is no string: to copy it faults, or throws,   *)
(* which pingSlot catches and forgets what it has collected.               *)
PushGarbage(p, d) ==
  /\ iterator_[d] > Len(Data[d])
  /\ SlotStep(p, d, "push", "done")
  /\ pts' = [pts EXCEPT ![p][d] = <<>>]
  /\ crashed' \in BOOLEAN
  /\ UNCHANGED <<iterator_, table, seen, lost, failures>>

(* ++iterator_, not atomic                                                 *)
Increment(p, d) ==
  /\ SlotStep(p, d, "step", "test")
  /\ \E i \in {iterator_[d], seen[p][d]} : iterator_' = [iterator_ EXCEPT ![d] = i + 1]
  /\ seen' = [seen EXCEPT ![p][d] = 0]
  /\ UNCHANGED <<table, crashed, pts, lost, failures>>

(* insertData: without a connection none of the rows is stored.            *)
AcquireFails(p, d) ==
  /\ SlotStep(p, d, "acquire", "done")
  /\ DatabaseFails
  /\ lost' = [lost EXCEPT ![d] = @ \cup {pts[p][d][i] : i \in DOMAIN pts[p][d]}]
  /\ pts' = [pts EXCEPT ![p][d] = <<>>]
  /\ UNCHANGED <<iterator_, table, crashed, seen>>

Acquire(p, d) ==
  /\ SlotStep(p, d, "acquire", "insert")
  /\ UNCHANGED <<iterator_, table, crashed, pts, seen, lost, failures>>

(* insertData: one upsert per row; a failed one is logged and left out.    *)
Insert(p, d) ==
  /\ SlotStep(p, d, "insert", IF Len(pts[p][d]) = 1 THEN "done" ELSE "insert")
  /\ pts' = [pts EXCEPT ![p][d] = Tail(@)]
  /\ LET row == Head(pts[p][d]) IN
     \/ /\ table' = [table EXCEPT ![d] = @ \cup {row}]
        /\ UNCHANGED <<lost, failures>>
     \/ /\ DatabaseFails
        /\ lost' = [lost EXCEPT ![d] = @ \cup {row}]
        /\ UNCHANGED table
  /\ UNCHANGED <<iterator_, crashed, seen>>

PingSlot(p, d) ==
  \/ Test(p, d) \/ Push(p, d) \/ PushGarbage(p, d) \/ Increment(p, d)
  \/ Acquire(p, d) \/ AcquireFails(p, d) \/ Insert(p, d)

-----------------------------------------------------------------------------
(* The thread of a ping                                                    *)

Collecting(p, d) == slot[p][d] \in {"test", "push", "step"}

PingStep(p, from, to) ==
  /\ pc[p] = from
  /\ pc' = [pc EXCEPT ![p] = to]
  /\ UNCHANGED <<clockVars, commandVars, pts, seen, iterator_, table, overlap,
                 stale, skipped, wiped, lost, failures>>

(* Broadcast {sim_time, calc_id}, then launch thr1 and thr2.               *)
Announce(p) ==
  /\ PingStep(p, "announce", "join")
  /\ slot' = [slot EXCEPT ![p] = [d \in Sources |-> "test"]]
  /\ raced' = (raced \/ \E q \in Pings, d \in Sources : Collecting(q, d))
  /\ UNCHANGED <<tp, mine, tp_kpi_next_, crashed, kpis, weeklies>>

(* The thread is at its end.                                               *)
Leave(p) ==
  /\ tp' = [tp EXCEPT ![p] = NoTime]
  /\ mine' = [mine EXCEPT ![p] = NoTime]

(* Fault: a KPI is due only after its time.                                *)
JoinDueLate(p) ==
  /\ pc[p] = "join"
  /\ \A d \in Sources : slot[p][d] = "done"
  /\ \/ PingStep(p, "join", "session") /\ tp[p] > tp_kpi_next_ /\ UNCHANGED <<tp, mine>>
     \/ PingStep(p, "join", "free") /\ tp[p] <= tp_kpi_next_ /\ Leave(p)
  /\ UNCHANGED <<slot, raced, tp_kpi_next_, crashed, kpis, weeklies>>

(* thr1.join(), thr2.join(), and the test whether a KPI is due             *)
Join(p) ==
  /\ pc[p] = "join"
  /\ \A d \in Sources : slot[p][d] = "done"
  /\ \/ PingStep(p, "join", "session") /\ tp[p] >= tp_kpi_next_ /\ UNCHANGED <<tp, mine>>
     \/ PingStep(p, "join", "free") /\ tp[p] < tp_kpi_next_ /\ Leave(p)
  /\ UNCHANGED <<slot, raced, tp_kpi_next_, crashed, kpis, weeklies>>

(* makeDbSession() is outside of every try: its failure terminates.        *)
MakeDbSession(p) ==
  /\ PingStep(p, "session", "daily")
  /\ UNCHANGED <<tp, mine, slot, raced, tp_kpi_next_, crashed, kpis, weeklies>>

MakeDbSessionFails(p) ==
  /\ pc[p] = "session"
  /\ DatabaseFails
  /\ crashed' = TRUE
  /\ UNCHANGED <<clockVars, commandVars, pingVars, slotVars, history, iterator_,
                 tp_kpi_next_, table>>

(* calculateDaily(tp_kpi_next_), broadcast or failed                       *)
Daily(p) ==
  /\ PingStep(p, "daily", "weekly")
  /\ kpis' = Append(kpis, tp_kpi_next_)
  /\ UNCHANGED <<tp, mine, slot, raced, tp_kpi_next_, crashed, weeklies>>

(* calculateWeekly(tp_kpi_next_) on Sundays                                *)
Weekly(p) ==
  /\ PingStep(p, "weekly", "next")
  /\ weeklies' = IF Sunday(tp_kpi_next_) THEN Append(weeklies, tp_kpi_next_) ELSE weeklies
  /\ UNCHANGED <<tp, mine, slot, raced, tp_kpi_next_, crashed, kpis>>

(* Fault: the weekly KPI moves on to the next day as well.                 *)
NextKpiTwice(p) ==
  /\ PingStep(p, "next", "free")
  /\ tp_kpi_next_' = tp_kpi_next_ + (IF Sunday(tp_kpi_next_) THEN 2 ELSE 1) * Day
  /\ Leave(p)
  /\ UNCHANGED <<slot, raced, crashed, kpis, weeklies>>

(* tp_kpi_next_ += 24h                                                     *)
NextKpi(p) ==
  /\ PingStep(p, "next", "free")
  /\ tp_kpi_next_' = tp_kpi_next_ + Day
  /\ Leave(p)
  /\ UNCHANGED <<slot, raced, crashed, kpis, weeklies>>

PingThread(p) ==
  \/ Announce(p) \/ Join(p) \/ MakeDbSession(p) \/ MakeDbSessionFails(p)
  \/ Daily(p) \/ Weekly(p) \/ NextKpi(p)
  \/ \E d \in Sources : PingSlot(p, d)

-----------------------------------------------------------------------------

Next ==
  \/ ~crashed /\ (Operator \/ SimulatedClock \/ \E p \in Pings : PingThread(p))
  \/ crashed /\ UNCHANGED vars

Spec == Init /\ [][Next]_vars

(* The operating system schedules every thread.                            *)
Fairness == \A p \in Pings : WF_vars(~crashed /\ PingThread(p))

FairSpec == Spec /\ Fairness

-----------------------------------------------------------------------------
(* Properties                                                              *)

Rows(d) == {Data[d][i] : i \in 1..Len(Data[d])}

(* No start command is in progress.                                        *)
Settled == op \in {"idle", "halt"} /\ ~armed

(* No data source is being collected or stored.                            *)
Stored == \A p \in Pings : pc[p] \notin {"announce", "join"}

(* At the KPI computation of a ping, and between pings, a table this run   *)
(* has deleted holds the rows of this run up to the last ping and nothing  *)
(* else, but for those the database refused: pingSlot has neither skipped  *)
(* nor repeated nor anticipated a row.                                     *)
DatabaseMirrorsPast ==
  ~stale /\ ~overlap /\ Settled /\ last # NoTime /\ Stored =>
    \A d \in wiped :
      table[d] = {t \in Rows(d) : StartTime <= t /\ t <= last} \ lost[d]

(* Even when a slow database makes pings overlap: as long as no two of     *)
(* them collect at once, every row before iterator_ has been collected     *)
(* once, and is in the table, refused by the database, or still to be      *)
(* inserted by one ping.                                                   *)
EveryRowOnce ==
  ~stale /\ ~raced /\ Settled =>
    \A d \in wiped :
      LET pending(p) == {pts[p][d][i] : i \in DOMAIN pts[p][d]}
          stepping   == \E p \in Pings : slot[p][d] = "step"
      IN  /\ ~stepping => table[d] \cup lost[d] \cup UNION {pending(p) : p \in Pings} =
                            {Data[d][i] : i \in FirstRow(d)..iterator_[d] - 1}
          /\ \A p, q \in Pings : p # q => pending(p) \cap pending(q) = {}
          /\ \A p \in Pings : pending(p) \cap (table[d] \cup lost[d]) = {}

(* The KPIs of a run are those of consecutive days from the first, each    *)
(* computed once, and the weekly ones those of the Sundays among them, in  *)
(* order.                                                                  *)
KpisInOrder ==
  ~stale /\ ~overlap /\ Settled =>
    /\ \A i \in 1..Len(kpis) : kpis[i] = KpiStart + (i - 1) * Day
    /\ InFlight = {} =>
         /\ tp_kpi_next_ = KpiStart + Len(kpis) * Day
         /\ {weeklies[i] : i \in 1..Len(weeklies)} =
              {day \in {kpis[i] : i \in 1..Len(kpis)} : Sunday(day)}
         /\ \A i, j \in 1..Len(weeklies) : i < j => weeklies[i] < weeklies[j]

(* At no more than a day per tick, and no ping left out by a pause, the    *)
(* KPI of every day that has passed is computed by the time the threads of *)
(* the last ping end.                                                      *)
KpiKeepsUp ==
  ~stale /\ ~overlap /\ ~skipped /\ Settled /\ last # NoTime /\ InFlight = {} =>
    last < tp_kpi_next_

(* Unless a ping was in flight while its run was being started, what a     *)
(* ping thread reads of calculation_id_ is the id of the run that pinged   *)
(* it, even if pings of that run overlap: stop() waits for the worker      *)
(* before the id changes.                                                  *)
CalcIdIsMine == ~stale => \A p \in InFlight : mine[p] = calculation_id_

(* Nothing but a failing makeDbSession terminates the process, unless      *)
(* pings overlap or meet a restart: iterator_ is not used past the end.    *)
CrashNeedsOverlap ==
  crashed => stale \/ overlap \/ \E p \in Pings : pc[p] = "session"

(* At no more than a day per tick, and no ping left out by a pause: a KPI  *)
(* that has become due is computed, unless pings overlap, the run is       *)
(* stopped or restarted, or the process terminates.                        *)
DueKpiIsComputed ==
  \A n \in 0..1 :
    (alive /\ last # NoTime /\ ~skipped /\ ~overlap /\ ~stale /\ last >= KpiStart + n * Day)
      ~> (Len(kpis) > n \/ crashed \/ overlap \/ stale \/ skipped \/ op # "idle")

=============================================================================
