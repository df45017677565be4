------------------------------ MODULE Websocket ------------------------------
(***************************************************************************)
(* WebsocketDataBus and WebsocketSession.                                  *)
(*                                                                         *)
(* A session lives as long as one of its operations, one of its posted     *)
(* handlers, its welcome thread or a sender holds a shared_ptr to it; the  *)
(* bus has raw pointers, which the destructor of a session takes out       *)
(* again.  The handlers of a session run one at a time, on its strand.     *)
(* A message is the version of the simulation status it tells.  A command  *)
(* changes the status and then composes from what it finds; a ping tells   *)
(* the time it was started with, however late.  An advance of the clock    *)
(* that no ping tells is no change here.                                   *)
(***************************************************************************)
EXTENDS Naturals, Sequences, FiniteSets

CONSTANTS
  Sessions,    \* websocket sessions; a strand also runs acceptMessage
  Pingers,     \* the other threads that broadcast
  NoSession,   \* a null pointer
  MaxVersion,  \* bound on the changes of the status
  MaxEvents    \* bound on the changes and the sessions that come, together

ASSUME ThreadsAssumption == Sessions \cap Pingers = {} /\ NoSession \notin Sessions \cup Pingers
ASSUME VersionAssumption == MaxVersion \in Nat /\ MaxEvents \in Nat

Threads == Sessions \cup Pingers

VARIABLES
  sessions_,  \* the raw pointers in the bus
  shared,     \* the threads that hold mtx shared
  life,       \* per session: the memory of the object
  pending,    \* per session: the async_accept or async_read under way
  welcome,    \* per session: the step of the thread that on_accept detaches
  wmsg,       \* per session: the status that thread has composed
  posted,     \* per session: the on_send handlers posted to the strand
  queue_,
  writes,     \* per session: the number of async_writes under way
  broken,     \* the sessions whose connection is broken
  delivered,  \* per session: what the client has received
  version,    \* of the simulation status
  bpc,        \* per thread: the step of its broadcast
  msg, list,  \* per thread: what it broadcasts, and the weak_ptrs left
  hold,       \* per thread: the session its shared_ptr refers to
  \* History variables, read by no action:
  posts,      \* per session: everything given to send()
  mixed       \* the sessions whose status messages may overtake each other

sessionVars == <<life, pending, welcome, wmsg, posted, queue_, writes, delivered, posts>>
threadVars  == <<bpc, msg, list, hold>>
busVars     == <<sessions_, shared>>
vars == <<sessionVars, threadVars, busVars, broken, version, mixed>>

Init ==
  /\ sessions_ = {}
  /\ shared = {}
  /\ life = [s \in Sessions |-> "none"]
  /\ pending = [s \in Sessions |-> "none"]
  /\ welcome = [s \in Sessions |-> "none"]
  /\ wmsg = [s \in Sessions |-> 0]
  /\ posted = [s \in Sessions |-> <<>>]
  /\ queue_ = [s \in Sessions |-> <<>>]
  /\ writes = [s \in Sessions |-> 0]
  /\ broken = {}
  /\ delivered = [s \in Sessions |-> <<>>]
  /\ version = 0
  /\ bpc = [t \in Threads |-> "idle"]
  /\ msg = [t \in Threads |-> 0]
  /\ list = [t \in Threads |-> {}]
  /\ hold = [t \in Threads |-> NoSession]
  /\ posts = [s \in Sessions |-> <<>>]
  /\ mixed = {}

(* A shared_ptr to the session exists besides that of thread u.            *)
HeldBesides(s, u) ==
  \/ pending[s] # "none" \/ writes[s] > 0 \/ posted[s] # <<>>
  \/ welcome[s] \in {"compose", "post"}
  \/ \E t \in Threads \ {u} : hold[t] = s /\ bpc[t] \in {"post", "release"}

Held(s) == HeldBesides(s, NoSession)

(* The bound allows for another session or change.                         *)
MayHappen == Cardinality({s \in Sessions : life[s] # "none"}) + version < MaxEvents

StrandFree(s) == bpc[s] = "idle"

Put(s, m) ==
  /\ posted' = [posted EXCEPT ![s] = Append(@, m)]
  /\ posts' = [posts EXCEPT ![s] = Append(@, m)]

-----------------------------------------------------------------------------
(* The life of a session                                                   *)

(* HttpSession makes the session and run() starts the handshake.           *)
Upgrade(s) ==
  /\ life[s] = "none" /\ MayHappen
  /\ life' = [life EXCEPT ![s] = "alive"]
  /\ pending' = [pending EXCEPT ![s] = "accept"]
  /\ UNCHANGED <<threadVars, busVars, welcome, wmsg, posted, queue_, writes, broken,
                 delivered, version, posts, mixed>>

(* Fault: the status is composed while the session waits for mtx.          *)
OnAcceptComposesFirst(s) ==
  /\ pending[s] = "accept" /\ s \notin broken
  /\ shared = {}
  /\ sessions_' = sessions_ \cup {s}
  /\ welcome' = [welcome EXCEPT ![s] = "post"]
  /\ \E v \in 0..version : wmsg' = [wmsg EXCEPT ![s] = v]
  /\ pending' = [pending EXCEPT ![s] = "read"]
  /\ UNCHANGED <<threadVars, shared, life, posted, queue_, writes, broken,
                 delivered, version, posts, mixed>>

(* on_accept: register (mtx is free of readers), detach the welcome        *)
(* thread, start reading.                                                  *)
OnAccept(s) ==
  /\ pending[s] = "accept" /\ s \notin broken
  /\ shared = {}
  /\ sessions_' = sessions_ \cup {s}
  /\ welcome' = [welcome EXCEPT ![s] = "compose"]
  /\ pending' = [pending EXCEPT ![s] = "read"]
  /\ UNCHANGED <<threadVars, shared, life, wmsg, posted, queue_, writes, broken,
                 delivered, version, posts, mixed>>

(* Fault: after an error the session reads again.                          *)
OnReadErrorGoesOn(s) ==
  /\ StrandFree(s)
  /\ pending[s] # "none" /\ s \in broken
  /\ pending' = [pending EXCEPT ![s] = "read"]
  /\ UNCHANGED <<threadVars, busVars, life, welcome, wmsg, posted, queue_, writes,
                 broken, delivered, version, posts, mixed>>

(* on_accept and on_read, after an error: nothing is started anew.         *)
OnReadError(s) ==
  /\ StrandFree(s)
  /\ pending[s] # "none" /\ s \in broken
  /\ pending' = [pending EXCEPT ![s] = "none"]
  /\ UNCHANGED <<threadVars, busVars, life, welcome, wmsg, posted, queue_, writes,
                 broken, delivered, version, posts, mixed>>

WelcomeCompose(s) ==
  /\ welcome[s] = "compose"
  /\ welcome' = [welcome EXCEPT ![s] = "post"]
  /\ wmsg' = [wmsg EXCEPT ![s] = version]
  /\ UNCHANGED <<threadVars, busVars, life, pending, posted, queue_, writes, broken,
                 delivered, version, posts, mixed>>

WelcomeSend(s) ==
  /\ welcome[s] = "post"
  /\ welcome' = [welcome EXCEPT ![s] = "done"]
  /\ Put(s, wmsg[s])
  /\ UNCHANGED <<threadVars, busVars, life, pending, wmsg, queue_, writes, broken,
                 delivered, version, mixed>>

(* The client goes away, the network fails, or a timeout closes the socket.*)
Disconnect(s) ==
  /\ life[s] = "alive" /\ s \notin broken
  /\ broken' = broken \cup {s}
  /\ UNCHANGED <<sessionVars, threadVars, busVars, version, mixed>>

(* The last shared_ptr is gone: the destructor waits until mtx is free of  *)
(* readers, unregisters the session, and the object ends.                  *)
Destroy(s) ==
  /\ life[s] = "alive" /\ ~Held(s)
  /\ shared = {}
  /\ sessions_' = sessions_ \ {s}
  /\ life' = [life EXCEPT ![s] = "freed"]
  /\ UNCHANGED <<threadVars, shared, pending, welcome, wmsg, posted, queue_, writes,
                 broken, delivered, version, posts, mixed>>

-----------------------------------------------------------------------------
(* The strand of a session: writing                                        *)

(* Fault: every message is written at once.                                *)
OnSendAlwaysWrites(s) ==
  /\ StrandFree(s)
  /\ posted[s] # <<>>
  /\ posted' = [posted EXCEPT ![s] = Tail(@)]
  /\ queue_' = [queue_ EXCEPT ![s] = Append(@, Head(posted[s]))]
  /\ writes' = [writes EXCEPT ![s] = @ + 1]
  /\ UNCHANGED <<threadVars, busVars, life, pending, welcome, wmsg, broken, delivered,
                 version, posts, mixed>>

(* on_send: append to the queue, start to write if it was empty.           *)
OnSend(s) ==
  /\ StrandFree(s)
  /\ posted[s] # <<>>
  /\ posted' = [posted EXCEPT ![s] = Tail(@)]
  /\ queue_' = [queue_ EXCEPT ![s] = Append(@, Head(posted[s]))]
  /\ writes' = [writes EXCEPT ![s] = IF queue_[s] = <<>> THEN @ + 1 ELSE @]
  /\ UNCHANGED <<threadVars, busVars, life, pending, welcome, wmsg, broken, delivered,
                 version, posts, mixed>>

(* Fault: the next message waits for another call of send().               *)
OnWriteStops(s) ==
  /\ StrandFree(s)
  /\ writes[s] > 0 /\ s \notin broken
  /\ delivered' = [delivered EXCEPT ![s] = Append(@, Head(queue_[s]))]
  /\ queue_' = [queue_ EXCEPT ![s] = Tail(@)]
  /\ writes' = [writes EXCEPT ![s] = @ - 1]
  /\ UNCHANGED <<threadVars, busVars, life, pending, welcome, wmsg, posted, broken,
                 version, posts, mixed>>

(* on_write: the front has been written; write the next one if any.        *)
OnWrite(s) ==
  /\ StrandFree(s)
  /\ writes[s] > 0 /\ s \notin broken
  /\ delivered' = [delivered EXCEPT ![s] = Append(@, Head(queue_[s]))]
  /\ queue_' = [queue_ EXCEPT ![s] = Tail(@)]
  /\ writes' = [writes EXCEPT ![s] = IF Len(queue_[s]) > 1 THEN @ ELSE @ - 1]
  /\ UNCHANGED <<threadVars, busVars, life, pending, welcome, wmsg, posted, broken,
                 version, posts, mixed>>

(* on_write with an error: the front stays, so nothing is written again.   *)
OnWriteError(s) ==
  /\ StrandFree(s)
  /\ writes[s] > 0 /\ s \in broken
  /\ writes' = [writes EXCEPT ![s] = @ - 1]
  /\ UNCHANGED <<threadVars, busVars, life, pending, welcome, wmsg, posted, queue_,
                 broken, delivered, version, posts, mixed>>

-----------------------------------------------------------------------------
(* messageToWebclients                                                     *)

(* The thread has the status it will post.  That of a ping has it from the *)
(* start: it captures the time by value.                                   *)
HasStatus(t) == bpc[t] # "idle" /\ (bpc[t] = "compose" => t \in Pingers)

(* The status changes.  Messages may overtake each other when an older one *)
(* is fixed by now, but not yet posted to all.                             *)
Change(t) ==
  /\ bpc[t] = "idle"
  /\ version < MaxVersion /\ MayHappen
  /\ version' = version + 1
  /\ bpc' = [bpc EXCEPT ![t] = "compose"]
  /\ mixed' = {s \in Sessions : welcome[s] = "post" \/ \E u \in Threads : HasStatus(u)}
  /\ UNCHANGED <<sessionVars, busVars, broken, list, hold>>

(* The clock advances, and onTimePing detaches a thread with the time.     *)
ChangeByPing(t) == Change(t) /\ msg' = [msg EXCEPT ![t] = version + 1]

(* on_read: acceptMessage runs on the strand; async_read follows it.       *)
OnRead(s) == pending[s] = "read" /\ s \notin broken /\ Change(s) /\ UNCHANGED msg

(* The message is composed, that of a command from the status by then, and *)
(* the shared lock is taken.                                               *)
Compose(t) ==
  /\ bpc[t] = "compose"
  /\ msg' = [msg EXCEPT ![t] = IF t \in Pingers THEN @ ELSE version]
  /\ bpc' = [bpc EXCEPT ![t] = "snapshot"]
  /\ shared' = shared \cup {t}
  /\ UNCHANGED <<sessionVars, sessions_, broken, version, list, hold, mixed>>

(* A weak_ptr from each raw pointer, then unlock.                          *)
Snapshot(t) ==
  /\ bpc[t] = "snapshot"
  /\ list' = [list EXCEPT ![t] = sessions_]
  /\ shared' = shared \ {t}
  /\ bpc' = [bpc EXCEPT ![t] = "next"]
  /\ UNCHANGED <<sessionVars, sessions_, broken, version, msg, hold, mixed>>

(* Fault: the raw pointers are used after the unlock.                      *)
LockWeakUnchecked(t) ==
  /\ bpc[t] = "next"
  /\ \E s \in list[t] :
       /\ list' = [list EXCEPT ![t] = @ \ {s}]
       /\ hold' = [hold EXCEPT ![t] = s]
       /\ bpc' = [bpc EXCEPT ![t] = "post"]
  /\ UNCHANGED <<sessionVars, busVars, broken, version, msg, mixed>>

(* if (auto sp = cli.lock())                                               *)
LockWeak(t) ==
  /\ bpc[t] = "next"
  /\ \E s \in list[t] :
       /\ list' = [list EXCEPT ![t] = @ \ {s}]
       /\ IF Held(s)
          THEN /\ hold' = [hold EXCEPT ![t] = s]
               /\ bpc' = [bpc EXCEPT ![t] = "post"]
          ELSE UNCHANGED <<hold, bpc>>
  /\ UNCHANGED <<sessionVars, busVars, broken, version, msg, mixed>>

(* sp->send(sm)                                                            *)
Send(t) ==
  /\ bpc[t] = "post"
  /\ Put(hold[t], msg[t])
  /\ bpc' = [bpc EXCEPT ![t] = "release"]
  /\ UNCHANGED <<busVars, life, pending, welcome, wmsg, queue_, writes, broken,
                 delivered, version, msg, list, hold, mixed>>

(* ~sp: with the last shared_ptr the destructor runs here.                 *)
Release(t) ==
  /\ bpc[t] = "release"
  /\ IF HeldBesides(hold[t], t)
     THEN /\ hold' = [hold EXCEPT ![t] = NoSession]
          /\ bpc' = [bpc EXCEPT ![t] = "next"]
     ELSE /\ bpc' = [bpc EXCEPT ![t] = "destroy"]
          /\ UNCHANGED hold
  /\ UNCHANGED <<sessionVars, busVars, broken, version, msg, list, mixed>>

Destroyed(t) ==
  /\ bpc[t] = "destroy"
  /\ life[hold[t]] = "freed"
  /\ hold' = [hold EXCEPT ![t] = NoSession]
  /\ bpc' = [bpc EXCEPT ![t] = "next"]
  /\ UNCHANGED <<sessionVars, busVars, broken, version, msg, list, mixed>>

Finish(t) ==
  /\ bpc[t] = "next" /\ list[t] = {}
  /\ bpc' = [bpc EXCEPT ![t] = "idle"]
  /\ UNCHANGED <<sessionVars, busVars, broken, version, msg, list, hold, mixed>>

-----------------------------------------------------------------------------

Reading(s) == OnAccept(s) \/ OnReadError(s)

Welcoming(s) == WelcomeCompose(s) \/ WelcomeSend(s)

Writing(s) == OnSend(s) \/ OnWrite(s) \/ OnWriteError(s)

Broadcasting(t) ==
  \/ Compose(t) \/ Snapshot(t) \/ LockWeak(t) \/ Send(t) \/ Release(t)
  \/ Destroyed(t) \/ Finish(t)

(* Every client is gone: the threads that broadcast have nobody to reach.   *)
Over ==
  /\ \A t \in Threads : bpc[t] = "idle"
  /\ \A s \in Sessions : life[s] # "alive"
  /\ UNCHANGED vars

Next ==
  \/ \E s \in Sessions :
       \/ Upgrade(s) \/ Disconnect(s) \/ OnRead(s)
       \/ Reading(s) \/ Welcoming(s) \/ Writing(s) \/ Destroy(s)
  \/ \E t \in Pingers : ChangeByPing(t)
  \/ \E t \in Threads : Broadcasting(t)
  \/ Over

Spec == Init /\ [][Next]_vars

(* The threads are scheduled, and the asynchronous operations complete:    *)
(* the client reads what is written, or its connection breaks, and a       *)
(* broken connection ends the read under way.                              *)
Fairness ==
  /\ \A s \in Sessions : /\ WF_vars(Reading(s)) /\ WF_vars(Welcoming(s))
                         /\ WF_vars(Writing(s)) /\ WF_vars(Destroy(s))
  /\ \A t \in Threads : WF_vars(Broadcasting(t))

FairSpec == Spec /\ Fairness

-----------------------------------------------------------------------------
(* Properties                                                              *)

Versions == 0..MaxVersion

TypeOK ==
  /\ sessions_ \subseteq Sessions
  /\ shared \subseteq Threads
  /\ life \in [Sessions -> {"none", "alive", "freed"}]
  /\ pending \in [Sessions -> {"none", "accept", "read"}]
  /\ welcome \in [Sessions -> {"none", "compose", "post", "done"}]
  /\ wmsg \in [Sessions -> Versions]
  /\ posted \in [Sessions -> Seq(Versions)]
  /\ queue_ \in [Sessions -> Seq(Versions)]
  /\ writes \in [Sessions -> Nat]
  /\ broken \subseteq Sessions
  /\ delivered \in [Sessions -> Seq(Versions)]
  /\ version \in Versions
  /\ bpc \in [Threads -> {"idle", "compose", "snapshot", "next", "post", "release",
                          "destroy"}]
  /\ msg \in [Threads -> Versions]
  /\ list \in [Threads -> SUBSET Sessions]
  /\ hold \in [Threads -> Sessions \cup {NoSession}]
  /\ posts \in [Sessions -> Seq(Versions)]
  /\ mixed \subseteq Sessions

(* Whoever walks through the raw pointers under the shared lock meets      *)
(* objects in being only, and a shared_ptr taken from one keeps it so.     *)
NoDanglingSession ==
  /\ shared # {} => \A s \in sessions_ : life[s] = "alive"
  /\ \A t \in Threads : bpc[t] \in {"post", "release"} => life[hold[t]] = "alive"

(* A websocket stream allows one async_write at a time: there is one       *)
(* exactly when the queue has messages, until one of them fails.           *)
OneWriteAtATime ==
  \A s \in Sessions :
    /\ writes[s] <= 1
    /\ writes[s] = 1 => queue_[s] # <<>>
    /\ s \notin broken /\ queue_[s] # <<>> => writes[s] = 1

(* When all is delivered, a connected client shows the current status,     *)
(* unless the messages of two changes, of a change and the welcome thread, *)
(* or of a change and a ping that tells its time late, overtook each       *)
(* other: registering precedes composing.                                  *)
ClientIsCurrent ==
  \A s \in sessions_ :
    /\ s \notin broken /\ s \notin mixed
    /\ welcome[s] = "done" /\ posted[s] = <<>> /\ queue_[s] = <<>>
    /\ \A t \in Threads : bpc[t] = "idle"
    => delivered[s] # <<>> /\ delivered[s][Len(delivered[s])] = version

(* Every session is a channel that neither loses, repeats nor reorders     *)
(* what is sent, and delivers all of it while its connection lasts.        *)
Channel == INSTANCE MessageChannel WITH
             Clients <- Sessions, Messages <- Versions,
             sent <- posts, received <- delivered, down <- broken

ImplementsChannel == Channel!ChannelSpec

(* A session whose connection is broken is destroyed, even if its last     *)
(* shared_ptr is that of a thread that is broadcasting.                    *)
SessionsAreFreed == \A s \in Sessions : s \in broken ~> life[s] = "freed"

=============================================================================
