----------------------------- MODULE HttpSession -----------------------------
(***************************************************************************)
(* HttpSession: one connection of the webserver, with its queue of         *)
(* responses for HTTP pipelining.  All handlers run on the strand of the   *)
(* connection.  A request is answered by one response whatever             *)
(* handle_request finds; only whether the response closes the connection   *)
(* matters here.                                                           *)
(***************************************************************************)
EXTENDS Naturals, Sequences

CONSTANTS
  Limit,       \* of the queue: 8 in the code
  MaxRequests  \* bound on the requests of the client

ASSUME LimitAssumption == Limit \in Nat \ {0}
ASSUME RequestsAssumption == MaxRequests \in Nat

VARIABLES
  wire,         \* the requests sent and not read: on their way or in buffer_
  requests,     \* the number of requests sent
  eof, reset,   \* the client has shut down its side, or reset the connection
  reads,        \* the number of async_reads under way
  items_,       \* the queue of responses
  writes,       \* the number of async_writes under way
  transmitted,  \* the front response is with the client, on_write is to come
  shut,         \* do_close has shut down the sending side
  released,     \* a WebsocketSession owns the socket
  expired,      \* the timer of stream_ has closed the socket
  terminated,   \* an exception has left a handler and ended the process
  \* History variables, read by no action:
  asked,        \* the requests sent that a response has to answer
  answered      \* the requests whose responses the client has received

clientVars == <<requests, eof, reset, asked>>
streamVars == <<shut, released, expired, terminated>>
vars == <<clientVars, streamVars, wire, reads, items_, writes, transmitted, answered>>

(* keep and close: a request whose response keeps the connection or not.   *)
Kinds == {"keep", "close", "upgrade", "malformed"}
Request == [id : 1..MaxRequests, kind : Kinds]

Init ==
  /\ wire = <<>> /\ requests = 0 /\ asked = <<>> /\ answered = <<>>
  /\ eof = FALSE /\ reset = FALSE
  /\ reads = 1
  /\ items_ = <<>> /\ writes = 0 /\ transmitted = FALSE
  /\ shut = FALSE /\ released = FALSE /\ expired = FALSE /\ terminated = FALSE

Gone == reset \/ expired
Writable == ~(shut \/ released \/ Gone \/ terminated)

(* Fault: the queue is full one response too late.                         *)
IsFullLate(q) == Len(q) > Limit

(* queue::is_full()                                                        *)
IsFull(q) == Len(q) >= Limit

-----------------------------------------------------------------------------
(* The client and the network                                              *)

(* After an upgrade come frames, and after a malformed request nothing is  *)
(* read any more.                                                          *)
Ask(k) ==
  /\ ~eof /\ ~reset
  /\ requests < MaxRequests
  /\ wire # <<>> => wire[Len(wire)].kind \in {"keep", "close"}
  /\ ~released
  /\ requests' = requests + 1
  /\ wire' = Append(wire, [id |-> requests + 1, kind |-> k])
  /\ asked' = IF k \in {"keep", "close"} THEN Append(asked, requests + 1) ELSE asked
  /\ UNCHANGED <<streamVars, eof, reset, reads, items_, writes, transmitted, answered>>

HalfClose ==
  /\ ~eof /\ ~reset
  /\ eof' = TRUE
  /\ UNCHANGED <<streamVars, wire, requests, asked, reset, reads, items_, writes,
                 transmitted, answered>>

Reset ==
  /\ ~reset
  /\ reset' = TRUE
  /\ UNCHANGED <<streamVars, wire, requests, asked, eof, reads, items_, writes,
                 transmitted, answered>>

(* Fault: the timer runs for the writes only.                              *)
TimeoutOfWrites ==
  /\ ~terminated /\ ~Gone
  /\ writes > 0
  /\ expired' = TRUE
  /\ UNCHANGED <<clientVars, shut, released, terminated, wire, reads, items_, writes,
                 transmitted, answered>>

(* expires_after: 30 s after the last do_read, whatever is under way.      *)
Timeout ==
  /\ ~terminated /\ ~Gone
  /\ reads > 0 \/ writes > 0
  /\ expired' = TRUE
  /\ UNCHANGED <<clientVars, shut, released, terminated, wire, reads, items_, writes,
                 transmitted, answered>>

(* The client receives the response at the front.                          *)
Transmit ==
  /\ Writable
  /\ writes > 0 /\ ~transmitted
  /\ transmitted' = TRUE
  /\ answered' = Append(answered, Head(items_).id)
  /\ UNCHANGED <<clientVars, streamVars, wire, reads, items_, writes>>

-----------------------------------------------------------------------------
(* on_read                                                                 *)

(* handle_request sends its response through the queue; then read on,      *)
(* unless the queue is full.                                               *)
OnRead ==
  /\ ~terminated /\ ~Gone
  /\ reads > 0 /\ wire # <<>> /\ Head(wire).kind \in {"keep", "close"}
  /\ wire' = Tail(wire)
  /\ items_' = Append(items_, Head(wire))
  /\ writes' = IF items_ = <<>> THEN writes + 1 ELSE writes
  /\ reads' = IF IsFull(items_') THEN reads - 1 ELSE reads
  /\ UNCHANGED <<clientVars, streamVars, transmitted, answered>>

(* A websocket upgrade: release_socket cancels the write under way.        *)
OnReadUpgrade ==
  /\ ~terminated /\ ~Gone
  /\ reads > 0 /\ wire # <<>> /\ Head(wire).kind = "upgrade"
  /\ wire' = Tail(wire)
  /\ reads' = reads - 1
  /\ released' = TRUE
  /\ UNCHANGED <<clientVars, shut, expired, terminated, items_, writes, transmitted,
                 answered>>

(* end_of_stream: do_close.                                                *)
OnReadEnd ==
  /\ ~terminated /\ ~Gone
  /\ reads > 0 /\ wire = <<>> /\ eof
  /\ reads' = reads - 1
  /\ shut' = TRUE
  /\ UNCHANGED <<clientVars, released, expired, terminated, wire, items_, writes,
                 transmitted, answered>>

OnReadError ==
  /\ ~terminated
  /\ reads > 0
  /\ Gone \/ (wire # <<>> /\ Head(wire).kind = "malformed")
  /\ reads' = reads - 1
  /\ UNCHANGED <<clientVars, streamVars, wire, items_, writes, transmitted, answered>>

(* remote_endpoint() throws: the request was in buffer_ and the socket is  *)
(* no longer connected.  Nothing catches the exception in ioc.run().       *)
RemoteEndpointThrows ==
  /\ ~terminated
  /\ Gone
  /\ reads > 0 /\ wire # <<>> /\ Head(wire).kind # "malformed"
  /\ terminated' = TRUE
  /\ UNCHANGED <<clientVars, shut, released, expired, wire, reads, items_, writes,
                 transmitted, answered>>

-----------------------------------------------------------------------------
(* on_write                                                                *)

(* Fault: a read follows every write.                                      *)
OnWriteReads ==
  /\ ~terminated
  /\ writes > 0 /\ transmitted /\ Head(items_).kind = "keep"
  /\ items_' = Tail(items_)
  /\ writes' = IF items_' = <<>> THEN writes - 1 ELSE writes
  /\ reads' = reads + 1
  /\ transmitted' = FALSE
  /\ UNCHANGED <<clientVars, streamVars, wire, answered>>

(* Fault: the queue is asked whether it is full after the removal.         *)
OnWriteNotFull ==
  /\ ~terminated
  /\ writes > 0 /\ transmitted /\ Head(items_).kind = "keep"
  /\ items_' = Tail(items_)
  /\ writes' = IF items_' = <<>> THEN writes - 1 ELSE writes
  /\ reads' = IF IsFull(items_') THEN reads + 1 ELSE reads
  /\ transmitted' = FALSE
  /\ UNCHANGED <<clientVars, streamVars, wire, answered>>

(* queue::on_write removes the front and starts the next; read again if    *)
(* the queue was full.                                                     *)
OnWrite ==
  /\ ~terminated
  /\ writes > 0 /\ transmitted /\ Head(items_).kind = "keep"
  /\ items_' = Tail(items_)
  /\ writes' = IF items_' = <<>> THEN writes - 1 ELSE writes
  /\ reads' = IF IsFull(items_) THEN reads + 1 ELSE reads
  /\ transmitted' = FALSE
  /\ UNCHANGED <<clientVars, streamVars, wire, answered>>

(* The response asks to close: do_close, even after an error.              *)
OnWriteClose ==
  /\ ~terminated
  /\ writes > 0 /\ Head(items_).kind = "close"
  /\ transmitted \/ ~Writable
  /\ writes' = writes - 1
  /\ shut' = TRUE
  /\ transmitted' = FALSE
  /\ UNCHANGED <<clientVars, released, expired, terminated, wire, reads, items_,
                 answered>>

OnWriteError ==
  /\ ~terminated
  /\ writes > 0 /\ Head(items_).kind = "keep"
  /\ ~transmitted /\ ~Writable
  /\ writes' = writes - 1
  /\ UNCHANGED <<clientVars, streamVars, wire, reads, items_, transmitted, answered>>

-----------------------------------------------------------------------------

(* No operation refers to the session any more, or the process has ended.  *)
Ended == terminated \/ (reads = 0 /\ writes = 0)

Over == Ended /\ UNCHANGED vars

Reading == OnRead \/ OnReadUpgrade \/ OnReadEnd \/ OnReadError \/ RemoteEndpointThrows
Writing == Transmit \/ OnWrite \/ OnWriteClose \/ OnWriteError

Next ==
  \/ \E k \in Kinds : Ask(k)
  \/ HalfClose \/ Reset \/ Timeout
  \/ Reading \/ Writing
  \/ Over

Spec == Init /\ [][Next]_vars

(* The io threads run what is ready, the client reads its responses, and   *)
(* the timer of a connection that is shut down fires.                      *)
Fairness == WF_vars(Reading) /\ WF_vars(Writing) /\ WF_vars(shut /\ Timeout)

FairSpec == Spec /\ Fairness

-----------------------------------------------------------------------------
(* Properties                                                              *)

(* Types; the queue of responses never exceeds its limit.                  *)
TypeOK ==
  /\ wire \in Seq(Request)
  /\ requests \in 0..MaxRequests
  /\ reads \in Nat /\ writes \in Nat
  /\ items_ \in Seq(Request) /\ Len(items_) <= Limit
  /\ eof \in BOOLEAN /\ reset \in BOOLEAN /\ transmitted \in BOOLEAN
  /\ shut \in BOOLEAN /\ released \in BOOLEAN
  /\ expired \in BOOLEAN /\ terminated \in BOOLEAN
  /\ asked \in Seq(1..MaxRequests) /\ answered \in Seq(1..MaxRequests)

(* The parser, the buffer and the stream serve one read and one write at a *)
(* time, and a write that ends finds its response in the queue: what the   *)
(* assertion in queue::on_write says.                                      *)
OneOfEach == reads <= 1 /\ writes <= 1 /\ (writes = 1 => items_ # <<>>)

(* The client receives the responses in the order of its requests, each    *)
(* once, and all of them as long as the connection is open both ways: a    *)
(* full queue delays requests and loses none.                              *)
Channel == INSTANCE MessageChannel WITH
             Clients  <- {"client"},
             Messages <- 1..MaxRequests,
             sent     <- [c \in {"client"} |-> asked],
             received <- [c \in {"client"} |-> answered],
             down     <- IF Writable THEN {} ELSE {"client"}

ImplementsChannel == Channel!ChannelSpec

(* A session that was shut down ends, whatever its client goes on to send. *)
SessionEnds == shut ~> Ended

=============================================================================
