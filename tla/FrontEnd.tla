------------------------------ MODULE FrontEnd ------------------------------
(***************************************************************************)
(* The web page: its websocket, which it opens anew 2 s after a close, and *)
(* the chart, which it empties when a message names another calculation.   *)
(*                                                                         *)
(* Each start of the simulation is a run.  A run's calc_id counts from 0   *)
(* in every server process, and 0 is what the page takes an absent calc_id *)
(* for; the ids in the KPI messages are nested, where it does not look.    *)
(* Each ping of the server is a thread that broadcasts its tick, and then  *)
(* perhaps a KPI.  Other pages may start runs, too.                        *)
(***************************************************************************)
EXTENDS Naturals, Sequences

CONSTANTS
  Pings,       \* threads of onTimePing
  MaxRuns, MaxPings,
  MaxEvents    \* bound on the clicks, reloads, breaks and crashes, together

ASSUME BoundAssumption == {MaxRuns, MaxPings, MaxEvents} \subseteq Nat

VARIABLES
  ws,             \* wsocket.readyState
  timer,          \* the timer that onclose sets is running
  chart,          \* the points of the chart
  calculationId,  \* 0: undefined
  link,           \* the connection: "none", "up" (the server has accepted) or "broken"
  inbox,          \* the messages on their way to the page
  outbox,         \* the start commands on their way to the server
  up,             \* the server runs
  base,           \* the runs of earlier servers
  run,            \* the runs so far
  ping,           \* per thread: its step, the run of its ping, its message's run
  \* History variables, read by no action:
  sent,           \* the KPIs of the current run that were broadcast
  seen,           \* the runs of which the page has had a tick
  watched,        \* connected since the current run began, without a click
  stale,          \* a tick was broadcast in a later run than it names
  old,            \* the page is older than the server
  pings, events   \* counted for the bounds

pageVars    == <<ws, timer, chart, calculationId, seen>>
channelVars == <<link, inbox, outbox>>
serverVars  == <<up, base, run, sent, stale>>
boundVars   == <<pings, events>>
vars == <<pageVars, channelVars, serverVars, ping, watched, old, boundVars>>

Idle == [step |-> "idle", run |-> 0, told |-> 0]

(* The document has loaded, and websocketConnect() been called.            *)
Init ==
  /\ ws = "CONNECTING" /\ timer = FALSE /\ chart = {} /\ calculationId = 0
  /\ link = "none" /\ inbox = <<>> /\ outbox = 0
  /\ up = TRUE /\ base = 0 /\ run = 0
  /\ ping = [t \in Pings |-> Idle]
  /\ sent = 0 /\ seen = {} /\ watched = FALSE /\ stale = FALSE /\ old = FALSE
  /\ pings = 0 /\ events = 0

Event == events < MaxEvents /\ events' = events + 1 /\ UNCHANGED pings

-----------------------------------------------------------------------------
(* The page                                                                *)

(* The timer calls websocketConnect(), which does nothing if there is a    *)
(* socket already.                                                         *)
WebsocketConnect ==
  /\ timer
  /\ timer' = FALSE
  /\ ws' = IF ws \in {"CONNECTING", "OPEN"} THEN ws ELSE "CONNECTING"
  /\ UNCHANGED <<chart, calculationId, seen, channelVars, serverVars, ping, watched, old,
                 boundVars>>

OnOpen ==
  /\ ws = "CONNECTING" /\ link = "up"
  /\ ws' = "OPEN"
  /\ UNCHANGED <<timer, chart, calculationId, seen, channelVars, serverVars, ping, watched,
                 old, boundVars>>

(* The connection is lost, or could not be made.                           *)
Closes == link = "broken" \/ (ws = "CONNECTING" /\ link = "none" /\ ~up)

(* Fault: only a socket that was open is followed by another.              *)
OnCloseGivesUp ==
  /\ ws # "CLOSED" /\ Closes
  /\ ws' = "CLOSED" /\ timer' = (ws = "OPEN")
  /\ link' = "none" /\ inbox' = <<>> /\ outbox' = 0
  /\ UNCHANGED <<chart, calculationId, seen, serverVars, ping, watched, old, boundVars>>

OnClose ==
  /\ ws # "CLOSED" /\ Closes
  /\ ws' = "CLOSED" /\ timer' = TRUE
  /\ link' = "none" /\ inbox' = <<>> /\ outbox' = 0
  /\ UNCHANGED <<chart, calculationId, seen, serverVars, ping, watched, old, boundVars>>

(* Fault: the first calc_id does not empty the chart.                      *)
IsAnotherOnce(id) == id # 0 /\ calculationId # 0 /\ id # calculationId

(* Fault: every calc_id empties the chart.                                 *)
IsAnotherAlways(id) == id # 0

IsAnother(id) == id # 0 /\ id # calculationId

(* A point has the run it is of, its number among the points of the run, 0 *)
(* if a later run had started, and whether the page knew of the run.       *)
OnMessage ==
  /\ ws = "OPEN" /\ inbox # <<>>
  /\ inbox' = Tail(inbox)
  /\ LET m    == Head(inbox)
         kept == IF IsAnother(m.id) THEN {} ELSE chart
     IN  /\ calculationId' = IF m.id # 0 THEN m.id ELSE calculationId
         /\ IF m.kpi
            THEN /\ chart' = kept \cup {[run |-> m.run, nr |-> m.nr, known |-> m.run \in seen]}
                 /\ UNCHANGED seen
            ELSE chart' = kept /\ seen' = seen \cup {m.run}
  /\ UNCHANGED <<ws, timer, link, outbox, serverVars, ping, watched, old, boundVars>>

(* The chart is emptied first; then send() throws while CONNECTING, and    *)
(* drops the command when CLOSED.                                          *)
ClickStart ==
  /\ Event
  /\ chart' = {}
  /\ outbox' = IF ws = "OPEN" THEN outbox + 1 ELSE outbox
  /\ watched' = FALSE
  /\ UNCHANGED <<ws, timer, calculationId, seen, link, inbox, serverVars, ping, old>>

(* The user loads the page again: its timer and its socket are gone.       *)
Reload ==
  /\ Event
  /\ ws' = "CONNECTING" /\ timer' = FALSE /\ chart' = {} /\ calculationId' = 0
  /\ link' = "none" /\ inbox' = <<>> /\ outbox' = 0
  /\ seen' = {} /\ watched' = FALSE /\ old' = FALSE
  /\ UNCHANGED <<serverVars, ping>>

-----------------------------------------------------------------------------
(* The connection and the server                                           *)

Accept ==
  /\ up /\ ws = "CONNECTING" /\ link = "none"
  /\ link' = "up"
  /\ UNCHANGED <<pageVars, inbox, outbox, serverVars, ping, watched, old, boundVars>>

Break ==
  /\ link = "up" /\ Event
  /\ link' = "broken"
  /\ watched' = FALSE
  /\ UNCHANGED <<pageVars, inbox, outbox, serverVars, ping, old>>

(* acceptMessage: the command start, of this page or of another client     *)
Start ==
  /\ up /\ run < MaxRuns
  /\ \/ link = "up" /\ outbox > 0 /\ outbox' = outbox - 1
     \/ UNCHANGED outbox
  /\ run' = run + 1
  /\ sent' = 0 /\ stale' = FALSE /\ watched' = (link = "up")
  /\ UNCHANGED <<pageVars, link, inbox, up, base, ping, old, boundVars>>

(* onTimePing: the clock of the current run detaches a thread.             *)
OnTimePing(t) ==
  /\ up /\ run > base /\ ping[t] = Idle /\ pings < MaxPings
  /\ ping' = [ping EXCEPT ![t] = [step |-> "compose", run |-> run, told |-> 0]]
  /\ pings' = pings + 1
  /\ UNCHANGED <<pageVars, channelVars, serverVars, watched, old, events>>

(* It reads calculation_id_ ...                                            *)
Compose(t) ==
  /\ ping[t].step = "compose"
  /\ ping' = [ping EXCEPT ![t].step = "tick", ![t].told = run]
  /\ UNCHANGED <<pageVars, channelVars, serverVars, watched, old, boundVars>>

Post(m) == inbox' = IF link = "up" THEN Append(inbox, m) ELSE inbox

CalcId(r) == r - base - 1

(* ... and broadcasts its tick.  A KPI may be due.                         *)
PostTick(t) ==
  /\ ping[t].step = "tick"
  /\ Post([id |-> CalcId(ping[t].told), kpi |-> FALSE, run |-> ping[t].told, nr |-> 0])
  /\ stale' = (stale \/ ping[t].told # run)
  /\ \/ ping' = [ping EXCEPT ![t].step = "kpi"]
     \/ ping' = [ping EXCEPT ![t] = Idle]
  /\ UNCHANGED <<pageVars, link, outbox, up, base, run, sent, watched, old, boundVars>>

PostKpi(t) ==
  /\ ping[t].step = "kpi"
  /\ sent' = IF ping[t].run = run THEN sent + 1 ELSE sent
  /\ Post([id |-> 0, kpi |-> TRUE, run |-> ping[t].run,
           nr |-> IF ping[t].run = run THEN sent + 1 ELSE 0])
  /\ ping' = [ping EXCEPT ![t] = Idle]
  /\ UNCHANGED <<pageVars, link, outbox, up, base, run, stale, watched, old, boundVars>>

Crash ==
  /\ up /\ Event
  /\ up' = FALSE
  /\ ping' = [t \in Pings |-> Idle]
  /\ link' = IF link = "up" THEN "broken" ELSE link
  /\ watched' = FALSE /\ old' = TRUE
  /\ UNCHANGED <<pageVars, inbox, outbox, base, run, sent, stale>>

(* calc_id counts from 0 again.                                            *)
Restart ==
  /\ ~up
  /\ up' = TRUE /\ base' = run
  /\ old' = TRUE
  /\ UNCHANGED <<pageVars, channelVars, run, sent, stale, ping, watched, boundVars>>

-----------------------------------------------------------------------------

Page   == WebsocketConnect \/ OnOpen \/ OnClose \/ OnMessage
Server == Accept \/ Start \/ Restart \/ \E t \in Pings : Compose(t) \/ PostTick(t) \/ PostKpi(t)

(* No ping is under way, and the user does nothing.                        *)
Quiet ==
  /\ \A t \in Pings : ping[t] = Idle
  /\ UNCHANGED vars

Next ==
  \/ Page \/ ClickStart \/ Reload
  \/ Server \/ (\E t \in Pings : OnTimePing(t))
  \/ Break \/ Crash \/ Quiet

Spec == Init /\ [][Next]_vars

(* The browser fires timers and events, and the server's listener and its  *)
(* threads run.  Nobody need start the server again.                       *)
FairSpec ==
  /\ Spec
  /\ WF_vars(WebsocketConnect \/ OnOpen \/ OnClose) /\ WF_vars(OnMessage) /\ WF_vars(Accept)

-----------------------------------------------------------------------------
(* Properties                                                              *)

(* A page that was loaded from the server that runs does not show points   *)
(* of two runs in one chart, although the first run's calc_id is 0: unless *)
(* a KPI comes when a later run has started, or the page has connected     *)
(* between the tick of a run and its KPI.                                  *)
ChartIsOneRun ==
  ~old => \A a, b \in chart : {a.known, b.known} = {TRUE} /\ 0 \notin {a.nr, b.nr} => a.run = b.run

(* A page that has stayed connected since the run began, and whose start   *)
(* button was not clicked, shows every KPI of the run, whatever server and *)
(* runs came before: unless a tick composed in an earlier run comes late.  *)
ChartIsComplete ==
  watched /\ ~stale /\ inbox = <<>> =>
    \A n \in 1..sent : \E a \in chart : a.run = run /\ a.nr = n

(* When the server stays up, the page connects to it, and receives all     *)
(* that is sent.                                                           *)
Reconnects == <>[]up => <>[](ws = "OPEN" /\ inbox = <<>>)

=============================================================================
