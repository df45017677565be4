# Verification of zelezarna

`src/` is a C++ server that replays recorded energy and production data of an ironworks against a simulated clock.
Operators send commands over websockets (`start`, `stop`, `pause`, `resume`, `speed`, ...).
At every tick of the clock the rows that have become due are written to a MySQL database, and every simulated morning
the energy used per kilogram produced (the KPI) is computed and sent to the browsers.
The program has no tests and almost no documentation, but many threads: ten io threads, the clock's worker, three
threads per tick and one per new websocket session.
This directory models it in TLA+, checks the models with TLC and proves theorems about every component with TLAPS: each
invariant and each action property that a run checks, for all values of the constants, under the assumptions of section 5.

## 1. Inventory

| Component | State | Operations | Talks to |
|---|---|---|---|
| Simulated clock: `TimeReference.cpp/.h` | `do_run_`, `pause_` (atomic); `thr_`, `speed_`, `sim_time_` (unprotected); the callbacks | `start`, `stop`, `pause`, `setSpeed`, `status`, (un)register, `workerTask` | calls the ping callbacks; calls `Application::onSimulationChanged` |
| Application: `Application.cpp/.h` | `tp_initial_`, `tp_kpi_next_`, `calculation_id_`, the statistics map, the connection pool | `init`, `acceptMessage`, `onTimePing`, `resetIterators`, `cleanDatabase`, `makeDbSession`, statistics | called by websocket sessions and the clock; calls everything |
| Data acquisition: `Daq.cpp/.h`, two instances | `data_`, `iterator_` | `getData`, `resetIterator`, `pingSlot`, `insertData` | called by ping threads; pool, database, statistics |
| KPI: `KpiCalc.cpp`, `create_schema.sql` | none; the two tables | `calculateDaily`, `calculateWeekly`, `get_energy`, `get_production`, upserts | called by ping threads |
| Websocket data bus: `WebsocketDataBus.cpp` | `sessions_` (raw pointers) under a shared mutex | register, unregister, `messageToWebclients` | sessions register; anybody broadcasts |
| Websocket session: `WebsocketSession.cpp/.h` | `queue_`, `buffer_`, the stream; a strand | `run`, `on_accept`, `on_read`, `send`, `on_send`, `on_write` | `acceptMessage`, the bus |
| HTTP session: `HttpSession.h` | the pipelining queue `items_`, parser, stream, timer | `do_read`, `on_read`, `on_write`, `do_close` | the request handler; makes websocket sessions |
| HTTP request handler: `HttpHandleRequest.cpp/.h` | the parsed request | `processRequest`, `handle_request` | the file system |
| Listener and webserver: `Webserver.cpp` | the acceptor, the `io_context`, the signal set | `do_accept`, `on_accept`, `run` | makes HTTP sessions |
| Process: `main.cpp` and the static objects | options; which objects exist | options, `init`, `run`, destructors | everything |
| Statistics: `common.h`, `Application::operationStatistics` | counters in a map | count, reset, copy | ping threads write, io threads read |
| Logging: `Log.cpp`, `Object.h` | the global level and the levels per channel | `isSuppressed`, set levels | everybody |
| Front end: `main.js` | chart, `calculationId`, the socket | messages, buttons, reconnection | websocket |
| Vendored JSON library, data file, build, `drop_schema.sql` | | | |

What is hard, and where the properties come from:

* **Concurrency without locks.** Commands of different sessions run on different io threads, and neither `thr_` nor
  the iterators, `tp_kpi_next_`, `calculation_id_` or the statistics are protected. Ping threads are detached, may
  overlap when the database is slow, and outlive `stop()`.
* **Ordering.** `start` resets the iterators before it stops the clock. A KPI must follow the rows of its ping.
  Broadcasts of different threads may overtake each other.
* **Boundaries.** The end of the data, a row at the very time of a ping, a tick of a whole day, the limit of the
  pipelining queue.
* **Failure.** The database refuses a connection or a row; a client disconnects in the middle of a broadcast; a
  request's connection closes before its handler runs.
* **Life cycle.** Static objects die in the reverse order of their construction while threads still use them: the
  clock's worker, the pings, the welcome threads of new sessions.

What makes each part correct: *the clock* is one clock, whatever the operators do one after the other, and says what
it does; *a run* leaves in the database exactly its past and computes the KPI of each day once, in order; *a broadcast*
reaches every connected session, in order, and never touches a dead one; *an HTTP connection* answers every request
once and in order; *the process* starts with its options and ends on a signal.

`PROJECT.json` lists the components with what is modelled of each, and the hazards, each at its line with the
properties that watch it.

## 2. Modules

```
SimClock  <------- implemented by -------  TimeReference   MCTimeReference, TimeReferenceProofs
   ^
   | extends: takes its pings from
Application                                                MCApplication, ApplicationProofs
   insertData in detail:  Statistics                       MCStatistics, StatisticsProofs
   seen from a browser:   FrontEnd                         FrontEndProofs

MessageChannel <-- implemented by -------  Websocket       WebsocketProofs
               <-- implemented by -------  HttpSession     MCHttpSession, HttpSessionProofs
                                           HttpHandleRequest (checked and proved along with HttpSession)
KpiCalc                                                    KpiCalcProofs
Lifecycle (main, the Listener)                             MCLifecycle, LifecycleProofs
Log (composed with Lifecycle in MCLifecycle)
```

**SimClock** is the abstract clock: at most one run at a time, from the start time, a ping at each time it shows, and a
ping left out or repeated only on account of a pause (`ahead <= pauses`). It is what code that registers a callback may
rely on.

**TimeReference** has one action for each step between two accesses to shared state: the command handlers on the io
threads (`pc`), the thread objects, the worker (`wpc`) with its two tests of `pause_`. `std::thread` is modelled with
its rules: assigning to a joinable handle terminates the process, a join of a thread already being joined or already
joined throws, and `join()` resets the handle at its end, whatever the handle holds by then. `contention` records how
much the commands overlapped: 0 not at all, 1 any two, 2 two of start/stop, 3 two starts. The code guarantees nothing
when operators collide, so each invariant names the greatest contention it survives.

**Application** composes `Application.cpp` and `Daq.cpp` on top of SimClock. The start command, which in the code runs
in one thread, is a sequence of actions (`op`), and commands come one after the other (section 7); every ping has a thread (`pc`) with two more for the data sources
(`slot`). `iterator_` is an index into the rows, `Len + 1` is `end()`, and further values are possible because two
threads may increment it: `Due` then is a choice between both outcomes, `PushGarbage` a crash or an exception.
`++iterator_` stores its own stale value plus one or the current one plus one, as a lost update does. The database is
a set of row times per table; any of its operations may fail. `overlap`, `raced`, `stale` and `skipped` say what went
on: two pings in flight, two pings collecting at once, a ping in flight during a restart, a ping left out by a pause. The invariants that hold
only without one of them say so. Time is counted in ticks: `Day` is 2 of them, `KpiStart` stands for 06:00.

**MessageChannel** is the abstract channel: first in, first out, nothing lost while the connection lasts.

**Websocket** is the bus and the sessions. Who holds a `shared_ptr` is derived (`Held`): an operation under way, a
posted handler, the welcome thread, a broadcasting thread. The destructor needs the exclusive lock and runs in the
thread that drops the last pointer. A message is the version of the status it tells; a broadcast is compose,
snapshot under the shared lock, then lock, send and release for each `weak_ptr`. Handlers of a session run on its
strand (`StrandFree`), and a session that executes a command broadcasts from there. A command composes its message from
the status it finds by then; a ping captures the time when its thread is made, and may post it long after (`HasStatus`).
`mixed` records the sessions whose messages could overtake each other.

**Statistics** is `insertData` with everything `Application` leaves out of it: the counters, which overlapping threads
load and store without a lock; the `std::map` they are in, into which the first call of each source inserts while others
may traverse it (`undefined`: any outcome is possible from then on); the pool of connections; and the statement a
connection has prepared. Every call goes through `Acquire`, `Query` for each row, `Release`; each may fail. An io
thread resets or copies the counters at any moment.

**FrontEnd** is the page of `main.js`: the socket, the timer that opens it again, the chart and `calculationId`. The
server around it is a chain of runs with ping threads that broadcast a tick and perhaps a KPI, late or after the next
start; it may crash and start anew. Other pages may start runs too.

**HttpSession** is one connection: the read, the queue of responses, the write, and everything the client, the network
and the 30 s timer may do meanwhile. Only two things matter of a request: whether its response closes the connection,
and whether it is an upgrade or malformed.

**HttpHandleRequest** answers a target, a sequence of separators, dots and pieces of names, with a file or a status, on
a small disk that has files in the root, in a directory, and a directory whose name has a dot. The handler splits and
tests the path as a string; `Opened` is what the file system makes of it, for which empty and `.` parts are nothing. What HttpSession does
depends on no answer, so `MCHttpSession` explores the session behind one target and only answers the others.

**KpiCalc** is the two tables, the stored procedures and `calculate`, on integers chosen so that interpolation divides
evenly. The procedures and the calculation are operators; the state is the tables, so that the runs compare them on
every table. `EnergyUsed` is the reference: between neighbouring readings the counter's difference, or all of the
second reading after a reset, spread evenly over the time. `Scans` is the order of the readings within a period, which
the query leaves to MySQL: the primary key or the index on `energy`, which covers the query. A row's place in a scan
is the number of readings that precede it (`Scanned`).

**Lifecycle** is `main()` with its options, the listener that accepts one connection after another, the signal and the
static destructors. The commands of several io threads, the worker, the pings and the welcome threads, which `on_accept`
of a websocket session detaches, are reduced to what they use: `misused` collects who used an object that did not exist.
`busy` says that one of the latter was active when `main()` returned, `contended` that two commands overlapped.

**Log** is the global level and the map of channel levels. Its keys are views: those `main()` sets are literals, those a
command sets are freed with the command, so that a later look-up may or may not find them. A look-up during an
insertion leaves everything open (`undefined`): the model ends there, and promises nothing of what follows. `MCLifecycle` lets commands set levels while the process serves.

The operators whose comment begins with "Fault:" are not part of any specification. Each is the neighbouring definition
with a plausible bug; substituted for it, it violates the property `PROJECT.json` pairs it with, so that no property
holds for want of anything to go wrong.

## 3. Runs

| Run | Configuration | Bounds | States | Shows |
|---|---|---|---|---|
| clock_contended | `TimeReferenceContended.cfg` | 3 operators, 2 workers, 1 tick | 1.9 M | std::terminate needs two concurrent starts; one worker and a true status without overlapping start/stop |
| clock_refines | `TimeReferenceClock.cfg` | 1 operator, 1 bystander, speeds 1 and 2, time 1 to 3, 2 pauses | 0.6 M | a pause takes hold after at most one step; the display is current; SimClock is implemented; every command returns |
| app_restart | `ApplicationRestart.cfg` | 1 source with 3 rows, 2 starts, 1 pause, speeds 1 and 2, time to 4, 1 failure, 1 ping thread | 607 k | database and KPIs belong to the run; KPIs keep up at a day per tick at most; a due KPI is computed |
| app_overlap | `ApplicationOverlap.cfg` | 2 sources, 2 ping threads, 2 starts, time to 4, 1 failure; runs that no older ping meets | 2.97 M | rows are neither lost nor repeated if no two pings collect at once; a ping carries the id of its run |
| stats | `Statistics.cfg` | 3 threads, 2 of one source, 2 calls, 1 connection, 1 reset or report, 1 failure | 221 k | without a race every record is counted once and statements are used again; everybody gets the connection |
| front | `FrontEnd.cfg` | 3 runs, 3 pings, 2 ping threads, 2 clicks, reloads, breaks or crashes | 3.05 M | what the chart shows of which run; the page connects again |
| websocket | `Websocket.cfg` | 2 sessions, 1 ping thread, 2 changes, 3 events | 307 k | no dangling session, one write at a time; a session is a MessageChannel; what its client shows last is current; it is freed after a failure |
| http | `HttpSession.cfg` | queue of 2, 5 requests; all targets of up to 6 tokens | 211 k | the queue's limit, one read and one write, no response lost, the end of a session; which file a target names |
| kpi | `KpiCalc.cfg` | times 1 to 4, values 0, 6, 12 or NULL; 3 productions | 40 k | the energy of a period is exact, a production counts once, later readings change nothing |
| life | `Lifecycle.cfg` | 2 io threads, 2 ping threads, 1 client, 2 accept errors, 2 log commands; plain, help and malformed command lines | 151 k | commands finish before anything is destroyed; a stopped clock is safe; channels obey the level last set; a signal ends the process; clients are served |
| life_shutdown | `LifecycleShutdown.cfg` | | violation | see findings |
| life_loglevel | `LifecycleLogLevel.cfg` | | violation | see findings |

Why these bounds suffice for the cases that matter:

* Three operators are the fewest that let a third command meet two that have already collided. Two workers are the most
  that can exist before a third start terminates the process or is one of three concurrent starts; thread identities
  are reused after a join, so an identity may also be stale.
* Time 1 to 3 with speeds 1 and 2 has a pause before, between and after pings, and advances of different size; at
  `MaxTime` the worker sleeps until it is stopped, as it might at any time.
* The three rows of `MCShortData` are before, at and after the start time. Two starts let a run follow one that ended
  or was abandoned; one pause and speeds of 1 and 2 ticks skip a ping, and a time up to 4 passes the last row, where
  `iterator_` is at the end, and two KPI days, the second of them a Sunday (`FirstWeekday = 6`).
* `app_overlap` follows a behaviour until a ping of the first run meets the second start (`FreshSpec`): of what comes then
  its invariants say nothing. Two runs are the fewest that have different ids.
* `MCData` has rows at, between and after the ticks, and less rows of one source than of the other, so that two
  overlapping pings find work for both, for one or for none.
* In Statistics two threads share the counters of one source and a third inserts the key of the other. One connection is
  the limit of the pool, at which a second thread waits; two calls use a statement again, after a failure or not.
* In FrontEnd three runs are the fewest with two whose ids differ and are not 0, three pings let one be late and two
  follow; two events are a crash and a click, or a break during a reload.
* Two websocket sessions are needed for a broadcast that goes on to another session after dropping the last pointer to
  the first; the ping thread and a session's own command are two broadcasts that overtake each other.
* In six tokens a target has both separators, a directory, a file and two slashes or a `/.` to spare.
* Two io threads are the fewest whose commands overlap: a start may arm the clock while the stop of the other joins. After
  two accept errors the listener is where it was after one; that they never end is left out, no client is served then.
* Two channels, one of them a literal of `main()`, and two commands let a key be set, freed and looked up again.
* Four times have a reading before, at the ends of, within and after a period, values of 0, 6 and 12 have rises, resets
  and equal readings, and 6 is a multiple of every distance (1 to 3). Every precondition of `EnergyIsExact` is needed
  within these bounds.
* A queue of 2 has an empty, a partly filled and a full state; 5 requests fill it twice. The code's limit is 8; the
  theorems of section 5 hold for every limit.

Symmetry is used only in runs without temporal properties. Deadlock is checked in all runs: where the program really
stops (the process has ended, all sessions are gone) the specification has an explicit stuttering step that says so.

## 4. Fairness

Liveness is checked with weak fairness of threads, and strong fairness in one place:

* *TimeReference*: the handler of each session in progress and the worker are scheduled by the operating system. Nobody
  has to send a command. Sleeping is finite, so a sleeping worker continues.
* *Application*: the thread of a ping continues; the clock need not tick, commands need not come. The database answers,
  with success or failure, the latter at most `MaxFailures` times.
* *Websocket* and *HttpSession*: io threads run ready handlers, and an asynchronous operation completes or fails: a
  client either reads what is written or its connection breaks (the websocket stream has a timeout, `tcp_stream` a
  timer). A client is never obliged to send, to close or to disconnect. In HttpSession the timer is fair only after
  `do_close`.
* *Statistics*: the threads are scheduled. `Acquire` alone is strongly fair: the pool hands a connection that comes back
  to one of those who wait, so that nobody waits for ever while connections keep coming back; in the code a waiting
  thread would give up after the pool's timeout, which is an end of the wait too. No call has to come.
* *FrontEnd*: the browser's timers and events are handled, the network delivers, and a server that is up accepts. No
  click and no run has to come. Nobody need start a server that is
  down again: `Reconnects` is about those that stay up.
* *Lifecycle*: the main thread, each io thread in a command, the worker, and each ping and welcome thread is scheduled, and
  an accept under way returns a client who waits. No signal, no command and no client has to come. Upgrades need not
  either.

## 5. Proofs

**TimeReferenceProofs** proves, for all numbers of sessions and workers, all speeds and bounds, every property of
TimeReference that the runs check except `CommandsReturn`. The assumptions are those of the module (named `...Assumption`)
and, for the refinement, that there is a single operator. None of the invariants is inductive. The strengthening is

    IInv == TypeOK /\ HandlerInv /\ StartInv /\ HandleInv /\ SpentInv

* `HandlerInv`: a session's `pc`, `cmd`, `call` and `obj` belong together, and the recorded `contention` bounds how many
  commands of which kind are in progress.
* `StartInv`: with less than two concurrent starts, whoever is between the join and the assignment in `start()` finds
  `thr_` empty. From it follows that the assignment never terminates the process, `TerminateNeedsTwoStarts`.
* `HandleInv`: without overlapping start and stop, every worker that exists is the one `thr_` refers to or the one just
  constructed, and `do_run_` is true only when there is one that has not seen it false. From it follow `OneWorker` and
  `StatusTellsTheTruth`.
* `SpentInv`: what the worker has already decided, by its `wpc`, bounds the steps taken since the pause. From it follows
  `PauseTakesHold`.

`DisplayIsCurrent` needs an invariant of its own about the one command in progress (`DisplayStep`). The theorem
`Refinement` shows that with a single operator there is never contention among start and stop, and maps each
action to a step of SimClock or to a stutter: `SetClock` begins a run, `CallBack` pings, `AdvanceTime` advances, pausing
pauses, and the worker's exit ends the run; a separate invariant bounds `ahead` by `pauses` according to `wpc`.

**ApplicationProofs** proves the five invariants of Application, for any rows in the order of time, any number of sources
and ping threads, all speeds and bounds, and a database that fails at will.

`CalcIdIsMine`: without a ping in flight across a restart, `calculation_id_` changes only while no ping is in flight
(`PingInv`), because the clock is stopped (`ClockInv`). With `CalcIdIsMine` they make up `IInv`, on which the rest builds.

`DatabaseMirrorsPast` and `CrashNeedsOverlap` need besides it

    RunInv == TypeInv /\ SlotInv /\ PlacingInv /\ NewInv /\ PastInv

whose last three parts speak of a calm run, one in which no pings overlap and none met the start.

* `PlacingInv`: while `resetIterators` is at work no ping is in flight, the sources before `target` are at the first row of
  the run, and the rows passed so far of `target` lie before it. That there is a first row at all (`FirstRowExists`)
  rests on `DataAssumption`, and on the natural numbers being well-founded.
* `NewInv`: until the first ping, every iterator stays there, and a table this run has deleted is empty.
* `PastInv`: from then on there is, for each source, a `k` up to `iterator_`. The rows before `k` have been stored or refused,
  those of the run from `k` to `iterator_` are what the one ping in flight holds (`Holds`), and when it holds none it has
  collected all that is due (`Progress`). Collecting a row moves `iterator_`, storing one moves `k`.

Since a calm ping tests every row before it collects it, `iterator_` never passes the end, and `PushGarbage` is not reached.

`EveryRowOnce` allows pings to overlap, as long as no two collect at once (`Tidy`). There is no `k` then: a ping that
collects later may store its rows earlier. `RowInv` says instead that every row passed by `iterator_` is in one
place, the table, the refused rows or what one ping holds (`Accounted`), that the collecting is one ping's turn (`Turn`),
and where `iterator_` is meanwhile (`Placed`). `FreshInv`, that no pings have overlapped when the first ping of a run comes,
ties it to the calm start of the run, where the `RunInv` of above says what the tables are.

`KpisInOrder` is the invariant `KpiInv` of a calm run, outside of `resetIterators`:

* `DayInv`: the daily KPIs are those of the days before `tp_kpi_next_`, up to the thread that has computed one and not yet
  gone on to the next day (`Computed`).
* `WeekInv`: the weekly ones are those of the Sundays among them, up to the thread that is about to test its day (`AtWeekly`).

`KpiKeepsUp` has a hypothesis of its own, that no speed exceeds a day per tick, which the property needs: a ping
computes at most one KPI. `NowInv` says that between two pings without a pause the clock advances once, `KeepInv` that the
last ping was less than a day after `tp_kpi_next_`, and before it when no thread is left.

**StatisticsProofs** proves `CountersAddUp` for any number of threads, sources, rows and connections, any failures and
resets. While a call is under way the counters of its source are ahead of each other, and `StatisticsInv` is the ledger:
`AddsUp` with what the thread's step still owes to each counter (`Asked`, `Thrown`, `Rows`, `Bad`, `Again`). It holds for
a source none of whose calls overlapped and whose counters no reset cut through (`Clean`); then the value a thread has
loaded is the one it will replace. TLC agreed to `StatisticsInv` on the configuration of the run before it was proved.

**FrontEndProofs** proves `ChartIsOneRun` and `ChartIsComplete` for any number of runs, ping threads, reloads and crashes.

* `OneRunInv`: all of a page that is not older than the server is of runs of this server (`OrderInv`); KPIs that were
  broadcast in time come in the order of their runs, and since a page has seen the tick of a run its chart has no such
  KPI of an earlier one (`ChartInv`).
* `WatchInv`: for a page that watched the run from its beginning there is a number of messages after which it settles
  (`Settles`): it then shows the run's `calc_id`, nothing that still comes empties its chart, and every KPI of the run
  is in the chart or to come.

**HttpSessionProofs** proves `TypeOK`, which includes that the queue keeps its limit, and `OneOfEach` for every limit and
number of requests. The strengthening is `RoomInv`: while a read is under way there is room in the queue. It is why
`on_write`, which reads again only if the queue *was* full, never starts a second read.

The theorem `ChannelSafety` is the safety part of `ImplementsChannel`: the invariant `OrderInv` says that what the client
asked is what was answered, then what is in the queue, then what is on its way, as long as the connection is open both
ways. Reading moves a request from the third part to the second, a response received one from the second to the first.

It also proves `QueryIsIgnored` and `RootIsIndex` of HttpHandleRequest, for targets of any length and any disk. The
invariant (`HandlerInv`) is no more than that the answer is the target's; the rest is about the handler's operators on sequences.
Each of its cuts takes a beginning of the target (`CutIsFirst`), and cutting at the one `?` and the one `#`, in whichever
order, leaves the path (`CutsToPath`). `Opened` keeps each token of `Kept` exactly once (`KeptOnce`), and the last slash
of a file's path is one of them: behind it is the part with the dot, which is not `.` alone, and before it a part that is
a name, since the path begins with neither a slash nor `./` (`FileHasSlash`).

**WebsocketProofs** proves `NoDanglingSession`, `OneWriteAtATime`, `ClientIsCurrent` and the safety part of
`ImplementsChannel`, for all numbers of sessions and threads. The strengthening is

    IInv == TypeOK /\ LifeInv /\ OneWriteAtATime /\ OrderInv

* `LifeInv`: the bus has only live objects, whoever holds a `shared_ptr` keeps its object alive, and a thread that holds
  one took it of a session. It is inductive because the destructor waits for the exclusive lock, and because a session
  whose last pointer is gone is never locked again. The hard cases are the last release by a broadcasting thread, and
  the destructor that runs in it.
* `OrderInv`: what was given to `send` is what the client has, what is queued, and what is posted to the strand.

For `ClientIsCurrent` the invariant `CurrentInv` says that a session on the bus is held by its read or broken, that a status
fixed and not posted (`HasStatus`, a welcome) is current for every session that is not `mixed`, and that whoever was last posted an older status
still has a welcome or a broadcast before him (`WillPost`). TLC agreed to it on the configuration of the run.

**LifecycleProofs** proves `CommandsFinish` and `StoppedClockIsSafe` for any number of io threads, ping threads and clients.
`MainInv` says which objects exist at each step of `main()`; `ThreadInv` that commands run only while the process serves, that
a worker runs only while `thr_` refers to it, and that whatever is active later was so when `main()` returned (`busy`);
`AloneInv` that a command which overlaps no other finds `thr_` empty when it launches the worker.

It also proves `ChannelsObey` of Log, for all channels, literals and settings, up to the first look-up that races an
insertion. `KeyInv`: a key of `main()` has exactly one entry, which
holds the level last set, since a look-up of that channel finds the literal; every other entry was left by a command,
whose channel is not one of `main()`'s, and only such a command inserts.

**KpiCalcProofs** proves all four properties of KpiCalc, for tables of any number of rows, any times and values. The invariant,
`TablesInv`, only says that the tables are finite and hold what was put in; the work is in the operators.

* Sums. `MapThenSumSet` takes the elements of a set in the order of `CHOOSE`, by a recursive function. That there is such
  a function is shown by the size of the sets (`FoldExists`), and from then on induction over the subsets of a finite set
  (`SetInduction`, stated for a set of good subsets, so that no operator is a parameter; it rests on `WFMin`) gives that any
  element can be taken out of a sum, sums over disjoint sets add up, and a sum over other indices is the same
  (`SumRemove`, `SumUnion`, `SumMatches`). `ProductionCountsOnce` is `SumUnion`.
* The scan. Both orders are linear, hence ranks are all different, and a scan returns each reading once and in order
  (`RankIs`, `ScannedIs`). `AreRows` is then what `get_energy` returns.
* The energy. Every interval's energy is a natural number, although division and clipping are involved (`IntervalIsNat`):
  this is `TypeOK`. Without a reset within the period the readings rise (`Rising`, by the shortest interval that does
  not), so that either scan is in the order of time; rows that follow one another are neighbours, and neighbours
  that share a part of the period are such rows (`RowsAreNeighbours`, `NeighboursAreRows`). An interval counts its
  share (`EnergyIsShare`), and `SumMatches` gives `EnergyIsExact`.
* `KpiIsFinal` compares the rows and their energy as functions of the table (`GetEnergyOf`, `EsumOf`) before and after the step.

The assumption that readings are multiples of every distance in time (`ValuesAssumption`) makes division exact. For any finite
set of times it is a choice of the unit of energy, and stands for the code's floating point.

Only model-checked: `CommandsReturn`, `DueKpiIsComputed`, `AcquireReturns`, `Reconnects`, `SessionsAreFreed`, `SessionEnds`,
`SignalEnds`, `ClientsAreServed` and the fairness part of `MessageChannel`. They are liveness under fairness, which, with
`ENABLED`, is out of the proof system's reach. Induction over data is too, in the form of the library's theorems, whose parameters
are operators; where it was needed (sums, the least row after a time) it is done for sets, from well-foundedness. No module
declares a `RECURSIVE` operator.

## 6. Findings

* `life_shutdown`: `Webserver.cpp:125` announces "a clean shutdown" on SIGINT and SIGTERM. With a simulation running the
  process ends in `std::terminate`, because `~TimeReference` destroys the joinable `thr_` (`TimeReference.h:65`).
* `life_loglevel`: the option `log-level`, documented at `main.cpp:26`, is declared as `std::string` and read as
  `std::string_view` at `main.cpp:39`; every use of it ends the program before `Application::init`.

The conditional invariants are findings of a milder kind: what they exclude does happen. Two concurrent starts can
terminate the process; a start that overlaps a stop can set `do_run_` again while the stop joins the worker, so that the
stop, and after a signal `Webserver::run` with it, waits for ever; a ping or a welcome thread that outlives `main()` uses
static objects and an `io_context` that are gone; a ping in flight during a restart can leave rows of the old run in the new run's table or move
its iterator; overlapping pings can lose or repeat rows and KPIs; a client can be left with an older status, as when a ping thread that comes late
tells its time after a newer one was told; pipelined
responses before an upgrade or a half-close are lost. The counters of the statistics are right only between calls that
do not overlap, and the first insertion into their map by one thread while another uses it is undefined. The page takes
the first run's `calc_id` of 0 for none and does not look into KPI messages for theirs, so that its chart can mix the
points of two runs in the cases `ChartIsOneRun` names. A target with more than one `?` or `#` is cut at the last, and may
name another file. The test by which `HttpHandleRequest.cpp:94` means to "deny root access" counts an empty or `.` part as
a directory: `//x.js` and `/./x.js` are served from the root. That the "path must be absolute" (line 59) is not tested. A channel level set by a command is keyed by a view that dangles as soon as the command returns.
`EnergyIsExact` names three more: with two readings the end of the
period is not clipped; a counter reset across an end of the period counts in full, on both sides of it; and readings
that MySQL returns by energy make a reset within the period a wrong difference. No comment or test of the repository denies any of these, so
they are stated as the limits of the guarantees and not as divergences.

## 7. Not modelled, and the plan

Not modelled:

* The parsing of commands (JSON) and of the data file (`Daq::getData`): both happen before any state the properties speak
  of, and a command that does not parse changes nothing.
* The buttons of the page that only send a command, and the displays that only show the last message.
* `mime_type`, and functions without a caller: `checkPath`, `getCookie`, `countSessions`, `disconnect`.
* Starts that interleave with other commands, in Application: `acceptMessage` runs on ten io threads, so that two starts may
  reset the iterators, delete the tables and take an id at the same time. What they do to the clock is in
  TimeReference, and to the end of the process in Lifecycle; nothing is promised of their data.
* Registering and unregistering callbacks of the clock at other moments than `init` and destruction, since nobody does.

Every safety property of the runs has its theorem. What further proofs could add: that a page or a client is not only
right but told at all is liveness and stays with TLC.

Left out for good: the formatting of messages, logs and time stamps; the JSON library; the inside of Boost.Asio, Beast,
the dbm library and MySQL, which are modelled from how the code uses them and marked external in the map; the build.
