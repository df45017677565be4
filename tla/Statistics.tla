----------------------------- MODULE Statistics -----------------------------
(***************************************************************************)
(* insertData in detail: the counters it keeps, and the connection it      *)
(* takes from the pool.                                                    *)
(*                                                                         *)
(* Each ping has a thread per data source in insertData.  All of them      *)
(* look up their source's counters in one std::map, and increment plain    *)
(* variables there, while an io thread may reset or copy the map.  No lock *)
(* protects any of it.  To use the map while somebody inserts a key is     *)
(* undefined; what follows is left open.                                   *)
(***************************************************************************)
EXTENDS Naturals, FiniteSets

CONSTANTS
  Daqs,          \* the data sources: keys of operation_statistics_
  Threads,       \* threads in insertData
  Source,        \* per thread, the source it inserts for
  Connections,   \* of the pool: ten in the code
  Nothing,       \* no connection, or no value loaded
  MaxInserts,    \* bound on the calls of insertData
  MaxRows,       \* per source, bound on the rows of a call
  MaxCommands,   \* bound on the commands that reset or report
  MaxFailures    \* bound on the failures of the database

ASSUME SourceAssumption  == Source \in [Threads -> Daqs]
ASSUME NothingAssumption == Nothing \notin Connections \cup Nat
ASSUME BoundAssumption   ==
  MaxInserts \in Nat /\ MaxRows \in [Daqs -> Nat] /\ MaxCommands \in Nat /\ MaxFailures \in Nat

VARIABLES
  keys,         \* the keys of operation_statistics_
  stats,        \* operation_statistics_
  prepared,     \* per connection, the sources whose statement it has prepared
  pc,           \* per thread, the next step of insertData
  loaded,       \* per thread, the counter value it is incrementing
  conn,         \* per thread, the connection it has acquired
  size, left,   \* per thread, the rows of the call and those not tried yet
  failed,       \* per thread, count_failed
  handle,       \* per thread, the statement has a native handle
  command,      \* "none", "reset" or "report", on an io thread
  visit,        \* the keys that command has yet to visit
  undefined,    \* the map was used while a key was being inserted
  \* History variables, read by no action:
  overlap,      \* the sources of which two calls overlapped since a reset
  cut,          \* the sources whose counters were reset during a call
  inserts, commands, failures  \* counted for the bounds

callVars   == <<pc, loaded, conn, size, left, failed, handle>>
mapVars    == <<keys, stats, undefined>>
ioVars     == <<command, visit, commands>>
boundVars  == <<inserts, failures>>
vars == <<callVars, mapVars, ioVars, boundVars, prepared, overlap, cut>>

Counters == {"operations", "to_write", "acquired", "acquire_failed", "reused",
             "exceptions", "written", "write_failed"}

Zero == [c \in Counters |-> 0]

Init ==
  /\ keys = {} /\ stats = [d \in Daqs |-> Zero] /\ undefined = FALSE
  /\ prepared = [c \in Connections |-> {}]
  /\ pc = [t \in Threads |-> "idle"]
  /\ loaded = [t \in Threads |-> Nothing]
  /\ conn = [t \in Threads |-> Nothing]
  /\ size = [t \in Threads |-> 0] /\ left = size /\ failed = size
  /\ handle = [t \in Threads |-> FALSE]
  /\ command = "none" /\ visit = {} /\ commands = 0
  /\ overlap = {} /\ cut = {}
  /\ inserts = 0 /\ failures = 0

Busy(d) == \E t \in Threads : Source[t] = d /\ pc[t] \notin {"idle", "lookup"}

(* Any use of the map's nodes                                              *)
Traverse == undefined' = \E t \in Threads : pc[t] = "inserting"

-----------------------------------------------------------------------------
(* insertData                                                              *)

Call(t) ==
  /\ pc[t] = "idle" /\ inserts < MaxInserts
  /\ inserts' = inserts + 1
  /\ \E n \in 1..MaxRows[Source[t]] : size' = [size EXCEPT ![t] = n] /\ left' = [left EXCEPT ![t] = n]
  /\ pc' = [pc EXCEPT ![t] = "lookup"]
  /\ UNCHANGED <<mapVars, ioVars, failures, prepared, loaded, conn, failed, handle, overlap, cut>>

(* The call's variables end with it.                                       *)
Locals(t, n) ==
  IF n # "idle" THEN UNCHANGED <<size, left, failed, handle>>
  ELSE /\ size' = [size EXCEPT ![t] = 0]
       /\ left' = [left EXCEPT ![t] = 0]
       /\ failed' = [failed EXCEPT ![t] = 0]
       /\ handle' = [handle EXCEPT ![t] = FALSE]

(* operation_statistics_[name()] finds the key, or begins to insert it.    *)
Lookup(t) ==
  /\ pc[t] = "lookup"
  /\ pc' = [pc EXCEPT ![t] = IF Source[t] \in keys THEN "operations" ELSE "inserting"]
  /\ Traverse
  /\ overlap' = IF Busy(Source[t]) THEN overlap \cup {Source[t]} ELSE overlap
  /\ UNCHANGED <<keys, stats, ioVars, boundVars, prepared, loaded, conn, size, left,
                 failed, handle, cut>>

InsertKey(t) ==
  /\ pc[t] = "inserting"
  /\ pc' = [pc EXCEPT ![t] = "operations"]
  /\ keys' = keys \cup {Source[t]}
  /\ UNCHANGED <<stats, undefined, ioVars, boundVars, prepared, loaded, conn, size,
                 left, failed, handle, overlap, cut>>

(* The steps that increment a counter, by how much, and what follows.      *)
Increments ==
  [operations |-> "operations", to_write |-> "to_write", acquired |-> "acquired",
   acquire_failed |-> "acquire_failed", caught |-> "exceptions", reused |-> "reused",
   row_failed |-> "exceptions", written |-> "written", write_failed |-> "write_failed"]

Amount(t) ==
  CASE pc[t] = "to_write"     -> size[t]
    [] pc[t] = "written"      -> size[t] - failed[t]
    [] pc[t] = "write_failed" -> failed[t]
    [] OTHER                  -> 1

Row(t) == IF left[t] > 0 THEN "row" ELSE "written"

(* Fault: an exception of acquire() is not counted by the handler.         *)
AfterSwallowed(t) ==
  [operations |-> "to_write", to_write |-> "acquire", acquired |-> Row(t),
   acquire_failed |-> "idle", caught |-> "idle", reused |-> Row(t),
   row_failed |-> Row(t), written |-> "write_failed", write_failed |-> "release"][pc[t]]

After(t) ==
  [operations |-> "to_write", to_write |-> "acquire", acquired |-> Row(t),
   acquire_failed |-> "caught", caught |-> "idle", reused |-> Row(t),
   row_failed |-> Row(t), written |-> "write_failed", write_failed |-> "release"][pc[t]]

(* An increment loads and stores.                                          *)
Load(t) ==
  /\ pc[t] \in DOMAIN Increments /\ loaded[t] = Nothing
  /\ loaded' = [loaded EXCEPT ![t] = stats[Source[t]][Increments[pc[t]]]]
  /\ UNCHANGED <<mapVars, ioVars, boundVars, prepared, pc, conn, size, left, failed, handle,
                 overlap, cut>>

Store(t) ==
  LET d == Source[t]
      c == Increments[pc[t]]
  IN  /\ pc[t] \in DOMAIN Increments /\ loaded[t] # Nothing
      /\ stats' = [stats EXCEPT ![d][c] = loaded[t] + Amount(t)]
      /\ loaded' = [loaded EXCEPT ![t] = Nothing]
      /\ pc' = [pc EXCEPT ![t] = After(t)]
      /\ Locals(t, After(t))
      /\ UNCHANGED <<keys, undefined, ioVars, boundVars, prepared, conn, overlap, cut>>

DatabaseFails == failures < MaxFailures /\ failures' = failures + 1

IdleConnections == {c \in Connections : \A t \in Threads : conn[t] # c}

(* pool().acquire() waits for an idle connection ...                       *)
Acquire(t) ==
  /\ pc[t] = "acquire"
  /\ \E c \in IdleConnections : conn' = [conn EXCEPT ![t] = c]
  /\ pc' = [pc EXCEPT ![t] = "acquired"]
  /\ UNCHANGED <<mapVars, ioVars, boundVars, prepared, loaded, size, left, failed, handle,
                 overlap, cut>>

(* ... until its timeout, and throws, as it does when the connection       *)
(* cannot be made.                                                         *)
AcquireThrows(t) ==
  /\ pc[t] = "acquire"
  /\ (IdleConnections = {} /\ UNCHANGED failures) \/ DatabaseFails
  /\ pc' = [pc EXCEPT ![t] = "acquire_failed"]
  /\ UNCHANGED <<mapVars, ioVars, inserts, prepared, loaded, conn, size, left, failed, handle,
                 overlap, cut>>

(* query_helper: the first query of the call prepares its statement,       *)
(* unless the connection has it already.                                   *)
Query(t) ==
  LET reuse == ~handle[t] /\ Source[t] \in prepared[conn[t]]
  IN  /\ pc[t] = "row"
      /\ left' = [left EXCEPT ![t] = @ - 1]
      /\ handle' = [handle EXCEPT ![t] = TRUE]
      /\ prepared' = [prepared EXCEPT ![conn[t]] = @ \cup {Source[t]}]
      /\ pc' = [pc EXCEPT ![t] = IF reuse THEN "reused" ELSE IF left[t] > 1 THEN "row" ELSE "written"]
      /\ UNCHANGED <<mapVars, ioVars, boundVars, loaded, conn, size, failed, overlap, cut>>

(* The query throws, before or after it has prepared the statement.        *)
QueryThrows(t) ==
  /\ pc[t] = "row" /\ DatabaseFails
  /\ left' = [left EXCEPT ![t] = @ - 1]
  /\ failed' = [failed EXCEPT ![t] = @ + 1]
  /\ \/ UNCHANGED <<handle, prepared>>
     \/ /\ handle' = [handle EXCEPT ![t] = TRUE]
        /\ prepared' = [prepared EXCEPT ![conn[t]] = @ \cup {Source[t]}]
  /\ pc' = [pc EXCEPT ![t] = "row_failed"]
  /\ UNCHANGED <<mapVars, ioVars, inserts, loaded, conn, size, overlap, cut>>

(* Fault: a connection on which a row has failed is not given back.        *)
ReleaseGood(t) ==
  /\ pc[t] = "release"
  /\ conn' = IF failed[t] = 0 THEN [conn EXCEPT ![t] = Nothing] ELSE conn
  /\ pc' = [pc EXCEPT ![t] = "idle"]
  /\ Locals(t, "idle")
  /\ UNCHANGED <<mapVars, ioVars, boundVars, prepared, loaded, overlap, cut>>

(* ~conn gives the connection back.                                        *)
Release(t) ==
  /\ pc[t] = "release"
  /\ conn' = [conn EXCEPT ![t] = Nothing]
  /\ pc' = [pc EXCEPT ![t] = "idle"]
  /\ Locals(t, "idle")
  /\ UNCHANGED <<mapVars, ioVars, boundVars, prepared, loaded, overlap, cut>>

InsertData(t) ==
  \/ Lookup(t) \/ InsertKey(t) \/ Load(t) \/ Store(t) \/ Acquire(t) \/ AcquireThrows(t)
  \/ Query(t) \/ QueryThrows(t) \/ Release(t)

-----------------------------------------------------------------------------
(* The commands reset_statistics (and start) and get_statistics            *)

Command ==
  /\ command = "none" /\ commands < MaxCommands
  /\ command' \in {"reset", "report"}
  /\ visit' = keys
  /\ commands' = commands + 1
  /\ Traverse
  /\ UNCHANGED <<callVars, keys, stats, boundVars, prepared, overlap, cut>>

(* resetStatistics: reset() of the next counters                           *)
Reset ==
  /\ command = "reset"
  /\ \E d \in visit :
       /\ visit' = visit \ {d}
       /\ stats' = [stats EXCEPT ![d] = Zero]
       /\ overlap' = IF Busy(d) THEN overlap ELSE overlap \ {d}
       /\ cut' = IF Busy(d) THEN cut \cup {d} ELSE cut \ {d}
  /\ Traverse
  /\ UNCHANGED <<callVars, keys, command, commands, boundVars, prepared>>

(* sendStatisticsMessage: the copy of the next counters                    *)
Report ==
  /\ command = "report"
  /\ \E d \in visit : visit' = visit \ {d}
  /\ Traverse
  /\ UNCHANGED <<callVars, keys, stats, command, commands, boundVars, prepared,
                 overlap, cut>>

Return ==
  /\ command # "none" /\ visit = {}
  /\ command' = "none"
  /\ UNCHANGED <<callVars, mapVars, visit, commands, boundVars, prepared, overlap, cut>>

-----------------------------------------------------------------------------

(* All calls have returned, or the map is broken.                          *)
Over ==
  /\ undefined \/ \A t \in Threads : pc[t] = "idle"
  /\ UNCHANGED vars

Next ==
  \/ /\ ~undefined
     /\ \/ \E t \in Threads : Call(t) \/ InsertData(t)
        \/ Command \/ Reset \/ Report \/ Return
  \/ Over

Spec == Init /\ [][Next]_vars

(* The threads are scheduled, and a thread that waits for a connection     *)
(* gets one if there is one ever and again; nobody waits for a timeout.    *)
Fairness ==
  \A t \in Threads :
    /\ WF_vars(~undefined /\ pc[t] # "acquire" /\ InsertData(t))
    /\ SF_vars(~undefined /\ Acquire(t))

FairSpec == Spec /\ Fairness

-----------------------------------------------------------------------------
(* Properties                                                              *)

(* Between the calls for a source, its counters add up: each call acquired *)
(* a connection or failed to, each row to write was written, failed or had *)
(* no connection, each failure was counted as one exception, and of the    *)
(* calls on a connection all but the first used its statement again.  Only *)
(* calls that overlap, or a reset in the middle of one, spoil this, until  *)
(* the next reset.                                                         *)
CountersAddUp ==
  \A d \in Daqs \ (overlap \cup cut) :
    ~undefined /\ ~Busy(d) =>
      LET s == stats[d] IN
      /\ s["operations"] = s["acquired"] + s["acquire_failed"]
      /\ s["exceptions"] = s["acquire_failed"] + s["write_failed"]
      /\ s["written"] + s["write_failed"] <= s["to_write"]
      /\ s["acquire_failed"] = 0 => s["written"] + s["write_failed"] = s["to_write"]
      /\ failures = 0 /\ commands = 0 =>
           s["acquired"] = s["reused"] + Cardinality({c \in Connections : d \in prepared[c]})

(* Whoever waits for a connection gets one, without any timeout.           *)
AcquireReturns == \A t \in Threads : pc[t] = "acquire" ~> pc[t] # "acquire" \/ undefined

=============================================================================
