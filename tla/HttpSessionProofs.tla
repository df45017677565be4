-------------------------- MODULE HttpSessionProofs --------------------------
(* Proofs about HttpSession, for every limit of the queue.                 *)
EXTENDS MCHttpSession, FiniteSetTheorems, SequenceTheorems, TLAPS

(* A read is under way only while the queue has room for its response; it  *)
(* is this that keeps the queue within its limit and lets on_write start a *)
(* read exactly when there is none.                                        *)
RoomInv == reads = 1 => Len(items_) < Limit

IInv == TypeOK /\ OneOfEach /\ RoomInv

(* The initial state satisfies the invariant.                              *)
LEMMA InvInit == Init => IInv
<1> SUFFICES ASSUME Init
             PROVE  IInv
  OBVIOUS
<1>1. /\ wire \in Seq(Request) /\ items_ \in Seq(Request) /\ Len(items_) = 0
      /\ asked \in Seq(1..MaxRequests) /\ answered \in Seq(1..MaxRequests)
  BY DEF Init
<1>2. requests \in 0..MaxRequests /\ Limit > 0
  BY LimitAssumption, RequestsAssumption DEF Init
<1>3. /\ reads = 1 /\ writes = 0
      /\ eof \in BOOLEAN /\ reset \in BOOLEAN /\ transmitted \in BOOLEAN
      /\ shut \in BOOLEAN /\ released \in BOOLEAN
      /\ expired \in BOOLEAN /\ terminated \in BOOLEAN
  BY DEF Init
<1>4. QED
  BY <1>1, <1>2, <1>3, LimitAssumption DEF IInv, TypeOK, OneOfEach, RoomInv

(* What Head and Tail do to the length and the type of a queue.            *)
LEMMA HeadTail ==
  ASSUME NEW q \in Seq(Request), q # <<>>
  PROVE  Head(q) \in Request /\ Tail(q) \in Seq(Request) /\ Len(Tail(q)) = Len(q) - 1
  OBVIOUS

(* What Append does to them.                                               *)
LEMMA Appended ==
  ASSUME NEW q \in Seq(Request), NEW r \in Request
  PROVE  /\ Append(q, r) \in Seq(Request) /\ Append(q, r) # <<>>
         /\ Len(Append(q, r)) = Len(q) + 1
<1>1. /\ Append(q, r) \in Seq(Request)
      /\ Len(Append(q, r)) = Len(q) + 1
  OBVIOUS
<1>2. Append(q, r) # <<>>
  BY <1>1, Len(q) \in Nat
<1>3. QED
  BY <1>1, <1>2

(* The client, the network and the timer leave the session's operations    *)
(* and its queue alone.                                                    *)
LEMMA ClientStep ==
  ASSUME IInv, (\E k \in Kinds : Ask(k)) \/ HalfClose \/ Reset \/ Timeout \/ Transmit
  PROVE  IInv'
<1> USE RequestsAssumption DEF IInv, TypeOK, OneOfEach, RoomInv
<1>1. ASSUME NEW k \in Kinds, Ask(k)
      PROVE  IInv'
  <2>1. requests + 1 \in 1..MaxRequests /\ [id |-> requests + 1, kind |-> k] \in Request
    <3>1. requests \in 0..MaxRequests /\ requests < MaxRequests
      BY <1>1 DEF Ask
    <3>2. requests + 1 \in 1..MaxRequests
      BY <3>1
    <3>3. QED
      BY <3>2 DEF Request
  <2>2. wire' \in Seq(Request)
    BY <1>1, <2>1, Appended DEF Ask
  <2>3. asked' \in Seq(1..MaxRequests)
    <3>1. Append(asked, requests + 1) \in Seq(1..MaxRequests)
      BY <2>1
    <3>2. QED
      BY <1>1, <3>1 DEF Ask
  <2>4. requests' \in 0..MaxRequests
    BY <1>1, <2>1 DEF Ask
  <2>5. QED
    BY <1>1, <2>2, <2>3, <2>4 DEF Ask, streamVars
<1>2. CASE HalfClose
  BY <1>2 DEF HalfClose, streamVars
<1>3. CASE Reset
  BY <1>3 DEF Reset, streamVars
<1>4. CASE Timeout
  BY <1>4 DEF Timeout, clientVars
<1>5. CASE Transmit
  <2>1. Head(items_) \in Request
    BY <1>5, HeadTail DEF Transmit
  <2>2. answered' \in Seq(1..MaxRequests)
    BY <1>5, <2>1 DEF Transmit, Request
  <2>3. QED
    BY <1>5, <2>2 DEF Transmit, clientVars, streamVars
<1>6. QED
  BY <1>1, <1>2, <1>3, <1>4, <1>5

(* Reading, and handling what was read, keeps the invariant.               *)
LEMMA ReadStep ==
  ASSUME IInv, Reading
  PROVE  IInv'
<1> USE LimitAssumption DEF IInv, TypeOK, OneOfEach, RoomInv
<1>1. CASE OnRead
  <2>1. /\ Head(wire) \in Request /\ wire' \in Seq(Request)
        /\ reads = 1 /\ Len(items_) < Limit
    BY <1>1, HeadTail DEF OnRead
  <2>2. /\ items_' \in Seq(Request) /\ items_' # <<>>
        /\ Len(items_') = Len(items_) + 1
    BY <1>1, <2>1, Appended DEF OnRead
  <2>3. /\ reads' = IF IsFull(items_') THEN 0 ELSE 1
        /\ IsFull(items_') <=> Len(items_') >= Limit
    BY <1>1, <2>1 DEF OnRead, IsFull
  <2>4. writes' \in {0, 1}
    BY <1>1 DEF OnRead
  <2>5. QED
    BY <1>1, <2>1, <2>2, <2>3, <2>4 DEF OnRead, clientVars, streamVars
<1>2. CASE OnReadUpgrade
  BY <1>2, HeadTail DEF OnReadUpgrade, clientVars
<1>3. CASE OnReadEnd
  BY <1>3 DEF OnReadEnd, clientVars
<1>4. CASE OnReadError
  BY <1>4 DEF OnReadError, clientVars, streamVars
<1>5. CASE RemoteEndpointThrows
  BY <1>5 DEF RemoteEndpointThrows, clientVars
<1>6. QED
  BY <1>1, <1>2, <1>3, <1>4, <1>5 DEF Reading

(* The end of a write keeps it.                                            *)
LEMMA WriteStep ==
  ASSUME IInv, OnWrite \/ OnWriteClose \/ OnWriteError
  PROVE  IInv'
<1> USE LimitAssumption DEF IInv, TypeOK, OneOfEach, RoomInv
<1>1. CASE OnWrite
  <2>1. /\ writes = 1 /\ items_' \in Seq(Request)
        /\ Len(items_') = Len(items_) - 1
    BY <1>1, HeadTail DEF OnWrite
  <2>2. Len(items_') < Limit
    BY <2>1
  <2>3. reads' \in {0, 1}
    BY <1>1 DEF OnWrite, IsFull
  <2>4. writes' = IF items_' = <<>> THEN 0 ELSE 1
    BY <1>1, <2>1 DEF OnWrite
  <2>5. /\ transmitted' \in BOOLEAN
        /\ UNCHANGED <<clientVars, streamVars, wire, answered>>
    BY <1>1 DEF OnWrite
  <2>6. QED
    BY <2>1, <2>2, <2>3, <2>4, <2>5 DEF clientVars, streamVars
<1>2. CASE OnWriteClose
  <2>1. writes = 1 /\ writes' = 0
    BY <1>2 DEF OnWriteClose
  <2>2. /\ transmitted' \in BOOLEAN /\ shut' \in BOOLEAN
        /\ UNCHANGED <<clientVars, released, expired, terminated, wire, reads, items_,
                       answered>>
    BY <1>2 DEF OnWriteClose
  <2>3. QED
    BY <2>1, <2>2 DEF clientVars
<1>3. CASE OnWriteError
  BY <1>3 DEF OnWriteError, clientVars, streamVars
<1>4. QED
  BY <1>1, <1>2, <1>3

(* The invariant holds in every reachable state.                           *)
LEMMA Inductive == Spec => []IInv
<1>1. IInv /\ [Next]_vars => IInv'
  <2>1. ASSUME IInv, UNCHANGED vars
        PROVE  IInv'
    BY <2>1 DEF IInv, TypeOK, OneOfEach, RoomInv, vars, clientVars, streamVars
  <2>2. QED
    BY <2>1, ClientStep, ReadStep, WriteStep DEF Next, Writing, Over
<1>2. QED
  BY InvInit, <1>1, PTL DEF Spec

(* The queue of responses never exceeds its limit, whatever the limit.     *)
THEOREM QueueTheorem == Spec => []TypeOK
<1>1. IInv => TypeOK
  BY DEF IInv
<1>2. QED
  BY <1>1, Inductive, PTL

(* At most one read and one write are under way, and a write that ends     *)
(* finds the queue not empty: the assertion in queue::on_write holds.      *)
THEOREM OneOfEachTheorem == Spec => []OneOfEach
<1>1. IInv => OneOfEach
  BY DEF IInv
<1>2. QED
  BY <1>1, Inductive, PTL

-----------------------------------------------------------------------------
(* The order of the responses                                              *)

Answered == {"keep", "close"}

(* Whether the response at the front is with the client already, and the   *)
(* number of requests on their way that a response will answer: all but an *)
(* upgrade or a malformed one at the end.                                  *)
Front == IF transmitted THEN 1 ELSE 0

OnTheirWay ==
  IF wire # <<>> /\ wire[Len(wire)].kind \notin Answered THEN Len(wire) - 1 ELSE Len(wire)

(* While the connection is open both ways, the requests asked are those    *)
(* answered, followed by those in the queue, followed by those on their    *)
(* way.                                                                    *)
OrderInv ==
  Writable =>
    /\ transmitted => writes = 1
    /\ \A i \in 1..Len(wire) : i < Len(wire) => wire[i].kind \in Answered
    /\ Len(asked) = Len(answered) + (Len(items_) - Front) + OnTheirWay
    /\ \A i \in 1..Len(items_) : i > Front => asked[Len(answered) + (i - Front)] = items_[i].id
    /\ \A i \in 1..OnTheirWay :
         asked[Len(answered) + (Len(items_) - Front) + i] = wire[i].id

(* No request has been read.                                               *)
LEMMA OrderInit == Init => OrderInv
<1> SUFFICES ASSUME Init
             PROVE  OrderInv
  OBVIOUS
<1>1. /\ Len(wire) = 0 /\ Len(asked) = 0 /\ Len(answered) = 0 /\ Len(items_) = 0
      /\ wire = <<>> /\ ~transmitted
  BY DEF Init
<1>2. OnTheirWay = 0 /\ Front = 0
  BY <1>1 DEF OnTheirWay, Front
<1>3. QED
  BY <1>1, <1>2 DEF OrderInv

(* What the client asks joins the end of both.                             *)
LEMMA AskOrder ==
  ASSUME IInv, OrderInv, NEW k \in Kinds, Ask(k)
  PROVE  OrderInv'
<1> SUFFICES ASSUME Writable'
             PROVE  OrderInv'
  BY DEF OrderInv
<1> DEFINE r == [id |-> requests + 1, kind |-> k]
<1>1. /\ wire \in Seq(Request) /\ asked \in Seq(1..MaxRequests)
      /\ answered \in Seq(1..MaxRequests) /\ items_ \in Seq(Request)
      /\ requests + 1 \in 1..MaxRequests /\ r \in Request
  <2>1. requests \in 0..MaxRequests /\ requests < MaxRequests
    BY DEF IInv, TypeOK, Ask
  <2>2. requests + 1 \in 1..MaxRequests
    BY <2>1, RequestsAssumption
  <2>3. QED
    BY <2>2 DEF IInv, TypeOK, Request
<1>2. /\ wire' = Append(wire, r)
      /\ asked' = IF k \in Answered THEN Append(asked, requests + 1) ELSE asked
      /\ wire # <<>> => wire[Len(wire)].kind \in Answered
      /\ UNCHANGED <<streamVars, eof, reset, reads, items_, writes, transmitted, answered>>
  BY DEF Ask, Answered
<1>3. Writable /\ Front' = Front
  BY <1>2 DEF Writable, Gone, streamVars, Front
<1>4. OnTheirWay = Len(wire)
  BY <1>2 DEF OnTheirWay
<1>5. /\ Len(wire') = Len(wire) + 1 /\ wire'[Len(wire) + 1] = r /\ wire' # <<>>
      /\ \A i \in 1..Len(wire) : wire'[i] = wire[i]
  BY <1>1, <1>2, Appended, SMTT(60)
<1>6. OnTheirWay' = IF k \in Answered THEN Len(wire) + 1 ELSE Len(wire)
  BY <1>1, <1>5 DEF OnTheirWay
<1>7. /\ Len(asked') = IF k \in Answered THEN Len(asked) + 1 ELSE Len(asked)
      /\ \A i \in 1..Len(asked) : asked'[i] = asked[i]
      /\ k \in Answered => asked'[Len(asked) + 1] = requests + 1
  BY <1>1, <1>2
<1>8. /\ Len(wire) \in Nat /\ Len(items_) \in Nat /\ Len(answered) \in Nat /\ Len(asked) \in Nat
      /\ Front \in {0, 1} /\ Front <= Len(items_)
      /\ Len(asked) = Len(answered) + (Len(items_) - Front) + Len(wire)
  BY <1>1, <1>3, <1>4 DEF OrderInv, Front, IInv, OneOfEach
<1>9. \A i \in 1..Len(wire') : i < Len(wire') => wire'[i].kind \in Answered
  <2>1. \A i \in 1..Len(wire) : wire[i].kind \in Answered
    BY <1>1, <1>2, <1>3, <1>8, SMTT(60) DEF OrderInv
  <2>2. QED
    BY <1>5, <1>8, <2>1
<1>10. \A i \in 1..Len(items_) :
         i > Front => asked'[Len(answered) + (i - Front)] = items_[i].id
  <2>1. ASSUME NEW i \in 1..Len(items_), i > Front
        PROVE  Len(answered) + (i - Front) \in 1..Len(asked)
    BY <1>8, <2>1
  <2>2. QED
    BY <1>3, <1>7, <2>1 DEF OrderInv
<1>11. \A i \in 1..OnTheirWay' :
         asked'[Len(answered) + (Len(items_) - Front) + i] = wire'[i].id
  <2>1. ASSUME NEW i \in 1..Len(wire)
        PROVE  asked'[Len(answered) + (Len(items_) - Front) + i] = wire'[i].id
    <3>1. Len(answered) + (Len(items_) - Front) + i \in 1..Len(asked)
      BY <1>8
    <3>2. QED
      BY <1>3, <1>4, <1>5, <1>7, <3>1 DEF OrderInv
  <2>2. CASE k \in Answered
    <3>1. Len(answered) + (Len(items_) - Front) + (Len(wire) + 1) = Len(asked) + 1
      BY <1>8
    <3>2. asked'[Len(answered) + (Len(items_) - Front) + (Len(wire) + 1)] = wire'[Len(wire) + 1].id
      BY <1>5, <1>7, <2>2, <3>1
    <3>3. QED
      BY <1>6, <1>8, <2>1, <2>2, <3>2
  <2>3. CASE k \notin Answered
    BY <1>6, <2>1, <2>3
  <2>4. QED
    BY <2>2, <2>3
<1>12. QED
  <2>1. Len(asked') = Len(answered) + (Len(items_) - Front) + OnTheirWay'
    <3>1. CASE k \in Answered
      BY ONLY <1>6, <1>7, <1>8, <3>1
    <3>2. CASE k \notin Answered
      BY ONLY <1>6, <1>7, <1>8, <3>2
    <3>3. QED
      BY <3>1, <3>2
  <2>2. transmitted => writes = 1
    BY <1>3 DEF OrderInv
  <2>3. QED
    BY <1>2, <1>3, <1>9, <1>10, <1>11, <2>1, <2>2 DEF OrderInv

(* A request that is read moves from the wire to the queue.                *)
LEMMA ReadOrder ==
  ASSUME IInv, OrderInv, OnRead
  PROVE  OrderInv'
<1> SUFFICES ASSUME Writable'
             PROVE  OrderInv'
  BY DEF OrderInv
<1>1. /\ wire \in Seq(Request) /\ items_ \in Seq(Request) /\ wire # <<>>
      /\ Head(wire) = wire[1] /\ Head(wire) \in Request /\ Head(wire).kind \in Answered
      /\ Len(wire) \in Nat \ {0} /\ Len(items_) \in Nat /\ Len(answered) \in Nat
  BY EmptySeq, HeadTail DEF IInv, TypeOK, OnRead, Answered
<1>2. /\ wire' = Tail(wire) /\ items_' = Append(items_, Head(wire))
      /\ writes' = IF items_ = <<>> THEN writes + 1 ELSE writes
      /\ UNCHANGED <<clientVars, streamVars, transmitted, answered>>
  BY DEF OnRead
<1>3. Writable /\ Front' = Front /\ asked' = asked /\ answered' = answered
  BY <1>2 DEF Writable, Gone, clientVars, streamVars, Front
<1>4. /\ wire' \in Seq(Request) /\ Len(wire') = Len(wire) - 1
      /\ \A i \in 1..Len(wire) - 1 : wire'[i] = wire[i + 1]
  BY <1>1, <1>2, HeadTailProperties
<1>5. /\ Len(items_') = Len(items_) + 1 /\ items_'[Len(items_) + 1] = wire[1]
      /\ \A i \in 1..Len(items_) : items_'[i] = items_[i]
  BY <1>1, <1>2
<1>6. /\ Front \in {0, 1} /\ Front <= Len(items_)
      /\ transmitted' => writes' = 1
  BY <1>1, <1>2, <1>3 DEF OrderInv, Front, IInv, TypeOK, OneOfEach
<1>7. OnTheirWay' = OnTheirWay - 1 /\ OnTheirWay \in Nat \ {0}
  <2>1. CASE Len(wire) = 1
    <3>1. wire' = <<>>
      BY <1>4, <2>1, EmptySeq
    <3>2. QED
      BY <1>1, <2>1, <3>1 DEF OnTheirWay
  <2>2. CASE Len(wire) > 1
    <3>1. wire' # <<>> /\ wire'[Len(wire')] = wire[Len(wire)]
      BY <1>1, <1>4, <2>2, EmptySeq
    <3>2. QED
      BY <1>1, <1>4, <2>2, <3>1 DEF OnTheirWay
  <2>3. Len(wire) = 1 \/ Len(wire) > 1
    <3>1. Len(wire) \in Nat \ {0}
      BY <1>1
    <3>2. QED
      BY ONLY <3>1, SMTT(60)
  <2>4. QED
    BY ONLY <2>1, <2>2, <2>3
<1>8. \A i \in 1..Len(wire') : i < Len(wire') => wire'[i].kind \in Answered
  <2>1. ASSUME NEW i \in 1..Len(wire'), i < Len(wire')
        PROVE  i \in 1..Len(wire) - 1 /\ i + 1 \in 1..Len(wire) /\ i + 1 < Len(wire)
    BY <1>1, <1>4, <2>1
  <2>2. \A i \in 1..Len(wire) : i < Len(wire) => wire[i].kind \in Answered
    BY <1>3 DEF OrderInv
  <2>3. QED
    BY <1>4, <2>1, <2>2
<1>9. Len(asked') = Len(answered') + (Len(items_') - Front') + OnTheirWay'
  <2>1. Len(asked) = Len(answered) + (Len(items_) - Front) + OnTheirWay
    BY <1>3 DEF OrderInv
  <2>2. Len(asked') = Len(asked) /\ Len(answered') = Len(answered)
    BY <1>3
  <2>3. QED
    BY <1>1, <1>3, <1>5, <1>6, <1>7, <2>1, <2>2
<1>10. asked[Len(answered) + ((Len(items_) + 1) - Front)] = wire[1].id
  <2>1. asked[Len(answered) + (Len(items_) - Front) + 1] = wire[1].id
    BY <1>3, <1>7 DEF OrderInv
  <2>2. Len(answered) + (Len(items_) - Front) + 1 = Len(answered) + ((Len(items_) + 1) - Front)
    BY <1>1, <1>6
  <2>3. QED
    BY <2>1, <2>2
<1>11. \A i \in 1..Len(items_') :
         i > Front' => asked'[Len(answered') + (i - Front')] = items_'[i].id
  <2>1. ASSUME NEW i \in 1..Len(items_), i > Front
        PROVE  asked[Len(answered) + (i - Front)] = items_'[i].id
    BY <1>3, <1>5, <2>1 DEF OrderInv
  <2>2. QED
    BY <1>1, <1>3, <1>5, <1>10, <2>1
<1>12. \A i \in 1..OnTheirWay' :
         asked'[Len(answered') + (Len(items_') - Front') + i] = wire'[i].id
  <2>1. ASSUME NEW i \in 1..OnTheirWay - 1
        PROVE  asked[Len(answered) + ((Len(items_) + 1) - Front) + i] = wire'[i].id
    <3>1. /\ i + 1 \in 1..OnTheirWay /\ i \in 1..Len(wire) - 1
          /\ Len(answered) + ((Len(items_) + 1) - Front) + i
               = Len(answered) + (Len(items_) - Front) + (i + 1)
      BY <1>1, <1>6, <1>7 DEF OnTheirWay
    <3>2. asked[Len(answered) + (Len(items_) - Front) + (i + 1)] = wire[i + 1].id
      BY <1>3, <3>1 DEF OrderInv
    <3>3. QED
      BY <1>4, <3>1, <3>2
  <2>2. QED
    BY <1>3, <1>5, <1>7, <2>1
<1>13. QED
  BY <1>6, <1>8, <1>9, <1>11, <1>12 DEF OrderInv

(* The front response reaches the client.                                  *)
LEMMA TransmitOrder ==
  ASSUME IInv, OrderInv, Transmit
  PROVE  /\ OrderInv'
         /\ Len(answered) < Len(asked) /\ asked[Len(answered) + 1] = Head(items_).id
<1>1. /\ items_ \in Seq(Request) /\ items_ # <<>> /\ Len(items_) \in Nat \ {0}
      /\ Len(answered) \in Nat /\ Len(wire) \in Nat /\ Head(items_) = items_[1]
      /\ answered \in Seq(1..MaxRequests) /\ Head(items_).id \in 1..MaxRequests
      /\ writes = 1 /\ Writable /\ ~transmitted
  <2>1. writes = 1 /\ Writable /\ ~transmitted /\ items_ # <<>>
    BY DEF IInv, TypeOK, OneOfEach, Transmit
  <2>2. /\ items_ \in Seq(Request) /\ answered \in Seq(1..MaxRequests) /\ wire \in Seq(Request)
    BY DEF IInv, TypeOK
  <2>3. Head(items_) \in Request /\ Head(items_) = items_[1] /\ Len(items_) \in Nat \ {0}
    BY <2>1, <2>2, HeadTail, EmptySeq
  <2>4. Head(items_).id \in 1..MaxRequests
    BY <2>3 DEF Request
  <2>5. QED
    BY <2>1, <2>2, <2>3, <2>4
<1>2. /\ transmitted' = TRUE /\ answered' = Append(answered, Head(items_).id)
      /\ UNCHANGED <<clientVars, streamVars, wire, reads, items_, writes>>
  BY DEF Transmit
<1>3. Front = 0 /\ Front' = 1 /\ OnTheirWay' = OnTheirWay /\ Len(answered') = Len(answered) + 1
  BY <1>1, <1>2 DEF Front, OnTheirWay
<1>4. /\ Len(asked) = Len(answered) + Len(items_) + OnTheirWay /\ OnTheirWay \in Nat
      /\ \A i \in 1..Len(items_) : asked[Len(answered) + i] = items_[i].id
      /\ \A i \in 1..OnTheirWay : asked[Len(answered) + Len(items_) + i] = wire[i].id
      /\ \A i \in 1..Len(wire) : i < Len(wire) => wire[i].kind \in Answered
  <2>1. OnTheirWay \in Nat
    BY <1>1, EmptySeq DEF OnTheirWay, IInv, TypeOK
  <2>2. QED
    BY <1>1, <1>3, <2>1 DEF OrderInv
<1>5. \A i \in 1..Len(items_) : i > 1 => asked[Len(answered) + 1 + (i - 1)] = items_[i].id
  <2>1. ASSUME NEW i \in 1..Len(items_), i > 1
        PROVE  Len(answered) + 1 + (i - 1) = Len(answered) + i
    BY <1>1, <2>1
  <2>2. QED
    BY <1>4, <2>1
<1>6. Len(answered) + 1 + (Len(items_) - 1) = Len(answered) + Len(items_)
  BY <1>1
<1>7. OrderInv'
  BY <1>1, <1>2, <1>3, <1>4, <1>5, <1>6 DEF OrderInv, clientVars
<1>8. QED
  BY <1>1, <1>4, <1>7

(* A response that is written leaves the queue.                            *)
LEMMA WriteOrder ==
  ASSUME IInv, OrderInv, OnWrite
  PROVE  OrderInv'
<1> SUFFICES ASSUME Writable'
             PROVE  OrderInv'
  BY DEF OrderInv
<1>1. /\ items_ \in Seq(Request) /\ items_ # <<>> /\ Len(items_) \in Nat \ {0}
      /\ Len(answered) \in Nat /\ transmitted
  BY EmptySeq DEF IInv, TypeOK, OneOfEach, OnWrite
<1>2. /\ items_' = Tail(items_) /\ transmitted' = FALSE
      /\ UNCHANGED <<clientVars, streamVars, wire, answered>>
  BY DEF OnWrite
<1>3. /\ Writable /\ Front = 1 /\ Front' = 0 /\ OnTheirWay' = OnTheirWay
      /\ UNCHANGED <<asked, answered, wire>>
  BY <1>1, <1>2 DEF Writable, Gone, clientVars, streamVars, Front, OnTheirWay
<1>4. /\ Len(items_') = Len(items_) - 1
      /\ \A i \in 1..Len(items_) - 1 : items_'[i] = items_[i + 1]
  BY <1>1, <1>2, HeadTailProperties
<1>5. \A i \in 1..Len(items_') : asked[Len(answered) + (i - 0)] = items_'[i].id
  <2>1. ASSUME NEW i \in 1..Len(items_')
        PROVE  /\ i + 1 \in 1..Len(items_) /\ i + 1 > 1 /\ i \in 1..Len(items_) - 1
               /\ Len(answered) + (i - 0) = Len(answered) + ((i + 1) - 1)
    BY <1>1, <1>4
  <2>2. \A i \in 1..Len(items_) : i > 1 => asked[Len(answered) + (i - 1)] = items_[i].id
    BY <1>3 DEF OrderInv
  <2>3. QED
    BY <1>4, <2>1, <2>2
<1>6. Len(items_') - 0 = Len(items_) - 1
  BY <1>1, <1>4
<1>7. QED
  BY <1>2, <1>3, <1>5, <1>6, ZenonT(60) DEF OrderInv

(* Every step keeps the answers in the order of the requests.              *)
LEMMA OrderStep == IInv /\ OrderInv /\ [Next]_vars => OrderInv'
<1> SUFFICES ASSUME IInv, OrderInv, [Next]_vars
             PROVE  OrderInv'
  OBVIOUS
<1>1. CASE \/ HalfClose \/ Reset \/ Timeout
           \/ OnReadUpgrade \/ OnReadEnd \/ OnReadError \/ RemoteEndpointThrows
           \/ OnWriteClose \/ OnWriteError \/ UNCHANGED vars
  <2>1. ~Writable' \/ UNCHANGED <<wire, asked, answered, items_, transmitted, writes>>
    BY <1>1 DEF HalfClose, Reset, Timeout, OnReadUpgrade, OnReadEnd, OnReadError,
                RemoteEndpointThrows, OnWriteClose, OnWriteError, vars, Writable, Gone,
                clientVars, streamVars
  <2>2. Writable' => Writable
    BY <1>1 DEF HalfClose, Reset, Timeout, OnReadUpgrade, OnReadEnd, OnReadError,
                RemoteEndpointThrows, OnWriteClose, OnWriteError, vars, Writable, Gone,
                clientVars, streamVars
  <2>3. CASE ~Writable'
    BY <2>3 DEF OrderInv
  <2>4. CASE Writable'
    <3>1. UNCHANGED <<wire, asked, answered, items_, transmitted, writes, Front, OnTheirWay>>
      BY <2>1, <2>4 DEF Front, OnTheirWay
    <3>2. QED
      BY <2>2, <2>4, <3>1 DEF OrderInv
  <2>5. QED
    BY <2>3, <2>4
<1>2. QED
  BY <1>1, AskOrder, ReadOrder, TransmitOrder, WriteOrder DEF Next, Reading, Writing, Over

(* Responses are neither lost, repeated nor reordered while the connection *)
(* is open both ways: every step is one of MessageChannel's, or none.      *)
(* That all are delivered is left to the run.                              *)
THEOREM ChannelSafety == Spec => Channel!ChannelInit /\ [][Channel!ChannelNext]_Channel!channelVars
<1> DEFINE Down == IF Writable THEN {} ELSE {"client"}
<1>1. Init => Channel!ChannelInit
  BY DEF Init, Channel!ChannelInit, Writable, Gone
<1>2. IInv /\ OrderInv /\ [Next]_vars => [Channel!ChannelNext]_Channel!channelVars
  <2> SUFFICES ASSUME IInv, OrderInv, [Next]_vars
               PROVE  Channel!ChannelNext \/ UNCHANGED <<asked, answered, Down>>
    BY DEF Channel!channelVars
  <2>1. ASSUME NEW k \in Kinds, Ask(k)
        PROVE  Channel!ChannelNext \/ UNCHANGED <<asked, answered, Down>>
    <3>1. requests + 1 \in 1..MaxRequests /\ UNCHANGED <<answered, Down>>
      BY <2>1, RequestsAssumption DEF Ask, IInv, TypeOK, Writable, Gone, streamVars
    <3>2. asked' = Append(asked, requests + 1) \/ asked' = asked
      BY <2>1 DEF Ask
    <3>3. ASSUME asked' = Append(asked, requests + 1)
          PROVE  Channel!Send("client")
      BY <3>1, <3>3 DEF Channel!Send
    <3>4. QED
      BY <3>1, <3>2, <3>3 DEF Channel!ChannelNext
  <2>2. ASSUME Transmit
        PROVE  Channel!ChannelNext
    <3>1. /\ Writable /\ answered' = Append(answered, Head(items_).id)
          /\ UNCHANGED <<asked, Down>>
      BY <2>2 DEF Transmit, clientVars, streamVars, Writable, Gone
    <3>2. Len(answered) < Len(asked) /\ asked[Len(answered) + 1] = Head(items_).id
      BY <2>2, TransmitOrder
    <3>3. Channel!Deliver("client")
      BY <3>1, <3>2 DEF Channel!Deliver
    <3>4. QED
      BY <3>3 DEF Channel!ChannelNext
  <2>3. CASE \/ HalfClose \/ Reset \/ Timeout \/ Reading
             \/ OnWrite \/ OnWriteClose \/ OnWriteError \/ UNCHANGED vars
    <3>1. UNCHANGED <<asked, answered>> /\ (Writable' => Writable)
      BY <2>3 DEF HalfClose, Reset, Timeout, Reading, OnRead, OnReadUpgrade, OnReadEnd,
                  OnReadError, RemoteEndpointThrows, OnWrite, OnWriteClose, OnWriteError, vars,
                  Writable, Gone, clientVars, streamVars
    <3>2. CASE Writable /\ ~Writable'
      <4>1. Channel!Break("client")
        BY <3>1, <3>2 DEF Channel!Break
      <4>2. QED
        BY <4>1 DEF Channel!ChannelNext
    <3>3. CASE Writable <=> Writable'
      BY <3>1, <3>3
    <3>4. QED
      BY <3>1, <3>2, <3>3
  <2>4. QED
    BY <2>1, <2>2, <2>3 DEF Next, Writing, Over
<1>3. QED
  BY <1>1, <1>2, OrderInit, OrderStep, Inductive, PTL DEF Spec

-----------------------------------------------------------------------------
(* Which file a request is answered with                                   *)

(* A target is a sequence of tokens.                                       *)
LEMMA TargetType ==
  ASSUME NEW t \in Targets
  PROVE  t \in Seq(Tokens) /\ Len(t) \in Nat /\ DOMAIN t = 1..Len(t)
<1>1. PICK n \in 0..MaxTarget : t \in [1..n -> Tokens]
  BY DEF Targets
<1>2. n \in Nat
  BY ONLY <1>1
<1>3. t \in Seq(Tokens)
  BY <1>1, <1>2
<1>4. QED
  BY <1>3

(* The first k tokens                                                      *)
First(t, k) == SubSeq(t, 1, k)

(* The beginning of a sequence.                                            *)
LEMMA FirstIs ==
  ASSUME NEW t \in Seq(Tokens), NEW k \in 0..Len(t)
  PROVE  /\ First(t, k) \in Seq(Tokens) /\ Len(First(t, k)) = k
         /\ \A i \in 1..k : First(t, k)[i] = t[i]
         /\ DOMAIN First(t, k) = 1..k
<1>1. Len(t) \in Nat /\ k \in Nat /\ \A i \in 1..k : t[i] \in Tokens
  OBVIOUS
<1>2. /\ First(t, k) \in Seq(Tokens)
      /\ Len(First(t, k)) = IF 1 <= k THEN k - 1 + 1 ELSE 0
      /\ \A i \in 1..k - 1 + 1 : First(t, k)[i] = t[1 + i - 1]
  BY ONLY <1>1, SubSeqProperties, k \in Nat DEF First
<1>3. Len(First(t, k)) = k
  BY ONLY <1>1, <1>2
<1>4. \A i \in 1..k : First(t, k)[i] = t[i]
  <2>1. ASSUME NEW i \in 1..k
        PROVE  i \in 1..k - 1 + 1 /\ 1 + i - 1 = i
    BY <1>1
  <2>2. QED
    BY <1>2, <2>1
<1>5. QED
  BY <1>2, <1>3, <1>4

(* The beginning of a beginning is one of the whole.                       *)
LEMMA FirstOfFirst ==
  ASSUME NEW t \in Seq(Tokens), NEW k \in 0..Len(t), NEW l \in 0..k
  PROVE  First(First(t, k), l) = First(t, l)
<1>1. Len(t) \in Nat /\ k \in Nat /\ l \in 0..Len(t)
  OBVIOUS
<1>2. /\ First(t, k) \in Seq(Tokens) /\ Len(First(t, k)) = k
      /\ \A i \in 1..k : First(t, k)[i] = t[i]
  BY FirstIs
<1>3. /\ First(t, l) \in Seq(Tokens) /\ Len(First(t, l)) = l
      /\ \A i \in 1..l : First(t, l)[i] = t[i]
  BY <1>1, FirstIs
<1>4. /\ First(First(t, k), l) \in Seq(Tokens) /\ Len(First(First(t, k), l)) = l
      /\ \A i \in 1..l : First(First(t, k), l)[i] = First(t, k)[i]
  BY <1>2, FirstIs
<1>5. \A i \in 1..l : i \in 1..k
  BY <1>1
<1>6. QED
  BY <1>2, <1>3, <1>4, <1>5, SeqEqual

(* Where c is in the first k tokens                                        *)
LEMMA PlacesOfFirst ==
  ASSUME NEW t \in Seq(Tokens), NEW k \in 0..Len(t), NEW c
  PROVE  Places(First(t, k), c) = Places(t, c) \cap (1..k)
<1>1. DOMAIN First(t, k) = 1..k /\ \A i \in 1..k : First(t, k)[i] = t[i]
  BY FirstIs
<1>2. \A i \in 1..k : i \in DOMAIN t
  OBVIOUS
<1>3. QED
  BY <1>1, <1>2 DEF Places

(* Cut at the only c, or not at all                                        *)
LEMMA CutIs ==
  ASSUME NEW t \in Seq(Tokens), NEW c
  PROVE  /\ Places(t, c) = {} => Cut(t, c) = t
         /\ \A e : Places(t, c) = {e} => Cut(t, c) = First(t, e - 1)
<1>1. Places(t, c) = {} => Cut(t, c) = t
  BY DEF Cut
<1>2. ASSUME NEW e, Places(t, c) = {e}
      PROVE  Cut(t, c) = First(t, e - 1)
  <2>1. e \in 1..Len(t)
    BY <1>2 DEF Places
  <2>2. \A i \in Places(t, c) : i = e
    BY <1>2
  <2>3. \A i \in Places(t, c) : \A j \in Places(t, c) : j <= i
    BY <2>1, <2>2
  <2>4. (CHOOSE i \in Places(t, c) : \A j \in Places(t, c) : j <= i) = e
    BY <1>2, <2>2, <2>3
  <2>5. QED
    BY <1>2, <2>4 DEF Cut, First
<1>3. QED
  BY <1>1, <1>2

(* A set of positions has a last one.                                      *)
LEMMA LastOne ==
  ASSUME NEW n \in Nat, NEW T, T \subseteq 1..n, T # {}
  PROVE  \E i \in T : \A j \in T : j <= i
<1> DEFINE D == {n - i : i \in T}
           less == OpToRel(<, Nat)
<1>1. D \subseteq Nat /\ D # {}
  <2>1. ASSUME NEW i \in T
        PROVE  n - i \in Nat
    OBVIOUS
  <2>2. QED
    BY <2>1
<1>2. \E d \in D : \A e \in D : ~(<<e, d>> \in less)
  <2> HIDE DEF D, less
  <2>1. QED
    BY <1>1, NatLessThanWellFounded, WFMin DEF less
<1>3. PICK d \in D : \A e \in D : ~(<<e, d>> \in less)
  BY <1>2
<1>4. \A e \in D : ~(e < d)
  BY <1>1, <1>3 DEF OpToRel
<1>5. PICK i \in T : d = n - i
  BY <1>3
<1>6. \A j \in T : n - j \in D
  OBVIOUS
<1>7. ASSUME NEW j \in T
      PROVE  j <= i
  <2>1. ~(n - j < n - i)
    BY <1>4, <1>5, <1>6
  <2>2. j \in Int /\ i \in Int
    OBVIOUS
  <2>3. QED
    BY ONLY <2>1, <2>2, n \in Nat
<1>8. QED
  BY <1>7

(* A cut leaves the first of the tokens.                                   *)
LEMMA CutIsFirst ==
  ASSUME NEW t \in Seq(Tokens), NEW c
  PROVE  \E k \in 0..Len(t) : Cut(t, c) = First(t, k)
<1>1. /\ Len(t) \in Nat /\ Len(t) \in 0..Len(t) /\ First(t, Len(t)) = t
      /\ Places(t, c) \subseteq 1..Len(t)
  BY SubSeqFull DEF Places, First
<1>2. CASE Places(t, c) = {}
  BY <1>1, <1>2, CutIs
<1>3. CASE Places(t, c) # {}
  <2>1. \E i \in Places(t, c) : \A j \in Places(t, c) : j <= i
    BY <1>1, <1>3, LastOne
  <2>2. PICK e \in Places(t, c) : e = CHOOSE i \in Places(t, c) : \A j \in Places(t, c) : j <= i
    BY <2>1
  <2>3. Cut(t, c) = First(t, e - 1)
    BY <1>3, <2>2, Zenon DEF Cut, First
  <2>4. e - 1 \in 0..Len(t)
    BY <1>1, <2>2
  <2>5. QED
    BY <2>3, <2>4
<1>4. QED
  BY <1>2, <1>3

(* The path ends before the first "?" or "#".                              *)
LEMMA PathIs ==
  ASSUME NEW t \in Seq(Tokens), NEW k \in 0..Len(t),
         Places(t, "?") \cap (1..k) = {}, Places(t, "#") \cap (1..k) = {},
         k < Len(t) => t[k + 1] \in {"?", "#"}
  PROVE  PathOf(t) = First(t, k) /\ Cut(Cut(First(t, k), "?"), "#") = First(t, k)
<1> DEFINE before == {i \in DOMAIN t : \A j \in 1..i : t[j] \notin {"?", "#"}}
<1>1. DOMAIN t = 1..Len(t) /\ Len(t) \in Nat /\ k \in Nat
  OBVIOUS
<1>2. \A j \in 1..k : t[j] \notin {"?", "#"}
  <2>1. ASSUME NEW j \in 1..k
        PROVE  j \in DOMAIN t
    BY <1>1
  <2>2. QED
    BY <2>1 DEF Places
<1>3. before = 1..k
  <2>1. ASSUME NEW i \in 1..k
        PROVE  i \in before
    <3>1. \A j \in 1..i : j \in 1..k
      BY ONLY <1>1, i \in 1..k
    <3>2. i \in 1..Len(t)
      BY <1>1
    <3>3. QED
      BY <1>1, <1>2, <3>1, <3>2
  <2>2. ASSUME NEW i \in before
        PROVE  i \in 1..k
    <3>1. i \in 1..Len(t) /\ \A j \in 1..i : t[j] \notin {"?", "#"}
      BY <1>1
    <3>2. ~(k < i)
      <4>1. SUFFICES ASSUME k < i
                     PROVE  FALSE
        OBVIOUS
      <4>2. k < Len(t) /\ k + 1 \in 1..i
        BY ONLY <1>1, <3>1, <4>1
      <4>3. QED
        BY <3>1, <4>2
    <3>3. QED
      BY ONLY <1>1, <3>1, <3>2
  <2>3. QED
    BY <2>1, <2>2
<1>4. Cardinality(1..k) = k
  <2>1. Cardinality(1..k) = IF 1 > k THEN 0 ELSE k - 1 + 1
    BY ONLY <1>1, FS_Interval
  <2>2. QED
    BY ONLY <1>1, <2>1
<1>5. PathOf(t) = First(t, k)
  BY <1>3, <1>4, Zenon DEF PathOf, First
<1>6. First(t, k) \in Seq(Tokens)
  BY FirstIs
<1>7. Places(First(t, k), "?") = {} /\ Places(First(t, k), "#") = {}
  BY PlacesOfFirst
<1>8. Cut(First(t, k), "?") = First(t, k) /\ Cut(First(t, k), "#") = First(t, k)
  BY <1>6, <1>7, CutIs
<1>9. QED
  BY <1>5, <1>8

(* A separator that is not there twice is nowhere, or in one place.        *)
LEMMA OneAtMost ==
  ASSUME NEW t \in Seq(Tokens), NEW c, ~(Cardinality(Places(t, c)) > 1)
  PROVE  Places(t, c) = {} \/ \E e \in 1..Len(t) : t[e] = c /\ Places(t, c) = {e}
<1>1. Places(t, c) \subseteq 1..Len(t) /\ Len(t) \in Nat
  BY DEF Places
<1>2. IsFiniteSet(1..Len(t))
  BY <1>1, FS_Interval
<1>3. IsFiniteSet(Places(t, c))
  BY <1>1, <1>2, FS_Subset
<1>4. Cardinality(Places(t, c)) \in Nat
  BY <1>3, FS_CardinalityType
<1>5. Cardinality(Places(t, c)) = 0 \/ Cardinality(Places(t, c)) = 1
  BY <1>4
<1>6. Places(t, c) = {} \/ \E e : Places(t, c) = {e}
  BY <1>3, <1>5, FS_EmptySet, FS_Singleton
<1>7. QED
  BY <1>1, <1>6 DEF Places

(* With one "?" and one "#" at most, the target is cut to its path.        *)
LEMMA CutsToPath ==
  ASSUME NEW t \in Seq(Tokens),
         ~(Cardinality(Places(t, "?")) > 1), ~(Cardinality(Places(t, "#")) > 1)
  PROVE  Cut(Cut(t, "?"), "#") = PathOf(t) /\ Cut(Cut(PathOf(t), "?"), "#") = PathOf(t)
<1>1. Len(t) \in Nat /\ Len(t) \in 0..Len(t) /\ First(t, Len(t)) = t
  BY SubSeqFull DEF First
<1>2. Places(t, "?") = {} \/ \E a \in 1..Len(t) : t[a] = "?" /\ Places(t, "?") = {a}
  BY OneAtMost
<1>3. Places(t, "#") = {} \/ \E b \in 1..Len(t) : t[b] = "#" /\ Places(t, "#") = {b}
  BY OneAtMost
<1>4. SUFFICES \E k \in 0..Len(t) :
                 /\ Cut(Cut(t, "?"), "#") = First(t, k)
                 /\ Places(t, "?") \cap (1..k) = {} /\ Places(t, "#") \cap (1..k) = {}
                 /\ k < Len(t) => t[k + 1] \in {"?", "#"}
  <2>1. PICK k \in 0..Len(t) :
          /\ Cut(Cut(t, "?"), "#") = First(t, k)
          /\ Places(t, "?") \cap (1..k) = {} /\ Places(t, "#") \cap (1..k) = {}
          /\ k < Len(t) => t[k + 1] \in {"?", "#"}
    BY <1>4
  <2>2. QED
    BY <2>1, PathIs
<1>5. CASE Places(t, "?") = {} /\ Places(t, "#") = {}
  <2>1. Cut(Cut(t, "?"), "#") = First(t, Len(t))
    BY <1>1, <1>5, CutIs
  <2>2. QED
    BY <1>1, <1>5, <2>1
<1>6. ASSUME NEW b \in 1..Len(t), t[b] = "#", Places(t, "#") = {b}, Places(t, "?") = {}
      PROVE  \E k \in 0..Len(t) :
               /\ Cut(Cut(t, "?"), "#") = First(t, k)
               /\ Places(t, "?") \cap (1..k) = {} /\ Places(t, "#") \cap (1..k) = {}
               /\ k < Len(t) => t[k + 1] \in {"?", "#"}
  <2>1. Cut(Cut(t, "?"), "#") = First(t, b - 1)
    <3>1. Cut(t, "?") = t
      BY <1>6, CutIs
    <3>2. Cut(t, "#") = First(t, b - 1)
      BY <1>6, CutIs
    <3>3. QED
      BY ONLY <3>1, <3>2
  <2>2. b - 1 \in 0..Len(t) /\ b - 1 + 1 = b /\ b \notin 1..b - 1
    BY <1>1
  <2>3. QED
    BY <1>6, <2>1, <2>2
<1>7. ASSUME NEW a \in 1..Len(t), t[a] = "?", Places(t, "?") = {a}
      PROVE  \E k \in 0..Len(t) :
               /\ Cut(Cut(t, "?"), "#") = First(t, k)
               /\ Places(t, "?") \cap (1..k) = {} /\ Places(t, "#") \cap (1..k) = {}
               /\ k < Len(t) => t[k + 1] \in {"?", "#"}
  <2>1. Cut(t, "?") = First(t, a - 1)
    BY <1>7, CutIs
  <2>2. a - 1 \in 0..Len(t) /\ a - 1 + 1 = a /\ a \notin 1..a - 1
    BY <1>1
  <2>3. First(t, a - 1) \in Seq(Tokens) /\ Places(First(t, a - 1), "#") = Places(t, "#") \cap (1..a - 1)
    BY <2>2, FirstIs, PlacesOfFirst
  <2>4. CASE Places(t, "#") \cap (1..a - 1) = {}
    <3>1. Cut(First(t, a - 1), "#") = First(t, a - 1)
      BY <2>3, <2>4, CutIs
    <3>2. QED
      BY <1>7, <2>1, <2>2, <2>4, <3>1
  <2>5. ASSUME NEW b \in 1..Len(t), t[b] = "#", Places(t, "#") = {b}, b \in 1..a - 1
        PROVE  \E k \in 0..Len(t) :
                 /\ Cut(Cut(t, "?"), "#") = First(t, k)
                 /\ Places(t, "?") \cap (1..k) = {} /\ Places(t, "#") \cap (1..k) = {}
                 /\ k < Len(t) => t[k + 1] \in {"?", "#"}
    <3>1. Places(First(t, a - 1), "#") = {b}
      BY <2>3, <2>5
    <3>2. Cut(First(t, a - 1), "#") = First(First(t, a - 1), b - 1)
      BY <2>3, <3>1, CutIs
    <3>3. /\ b - 1 \in 0..a - 1 /\ b - 1 \in 0..Len(t) /\ b - 1 + 1 = b
          /\ b \notin 1..b - 1 /\ a \notin 1..b - 1
      BY ONLY <1>1, <2>5, a \in 1..Len(t)
    <3>4. First(First(t, a - 1), b - 1) = First(t, b - 1)
      BY <2>2, <3>3, FirstOfFirst
    <3>5. QED
      BY <1>7, <2>1, <2>5, <3>2, <3>3, <3>4
  <2>6. QED
    BY <1>3, <2>4, <2>5
<1>8. QED
  BY <1>2, <1>3, <1>5, <1>6, <1>7

(* A cut keeps tokens in their places.                                     *)
LEMMA CutKeeps ==
  ASSUME NEW t \in Seq(Tokens), NEW c
  PROVE  /\ Cut(t, c) \in Seq(Tokens) /\ DOMAIN Cut(t, c) \subseteq DOMAIN t
         /\ \A i \in DOMAIN Cut(t, c) : Cut(t, c)[i] = t[i]
<1>1. PICK k \in 0..Len(t) : Cut(t, c) = First(t, k)
  BY CutIsFirst
<1>2. /\ First(t, k) \in Seq(Tokens) /\ DOMAIN First(t, k) = 1..k
      /\ \A i \in 1..k : First(t, k)[i] = t[i]
  BY FirstIs
<1>3. Len(t) \in Nat /\ 1..k \subseteq 1..Len(t)
  OBVIOUS
<1>4. QED
  BY <1>1, <1>2, <1>3

(* The target is answered as its path is.                                  *)
LEMMA SameAnswer ==
  ASSUME NEW t \in Seq(Tokens), ~HasDots(t),
         ~(Cardinality(Places(t, "?")) > 1), ~(Cardinality(Places(t, "#")) > 1)
  PROVE  Answer(TRUE, t) = Answer(TRUE, PathOf(t))
<1>1. PICK p \in Seq(Tokens) :
        /\ p = PathOf(t) /\ Cut(Cut(t, "?"), "#") = p /\ Cut(Cut(p, "?"), "#") = p
        /\ DOMAIN p \subseteq DOMAIN t /\ \A i \in DOMAIN p : p[i] = t[i]
  <2>1. PICK u \in Seq(Tokens) : u = Cut(t, "?")
    BY CutKeeps
  <2>2. DOMAIN u \subseteq DOMAIN t /\ \A i \in DOMAIN u : u[i] = t[i]
    BY <2>1, CutKeeps
  <2>3. PICK p \in Seq(Tokens) : p = Cut(u, "#")
    BY CutKeeps
  <2>4. DOMAIN p \subseteq DOMAIN u /\ \A i \in DOMAIN p : p[i] = u[i]
    BY <2>3, CutKeeps
  <2>5. p = PathOf(t) /\ Cut(Cut(p, "?"), "#") = p
    BY <2>1, <2>3, CutsToPath
  <2>6. QED
    BY <2>1, <2>2, <2>3, <2>4, <2>5
<1>2. PathStripped(t) = PathStripped(p)
  BY <1>1 DEF PathStripped
<1>3. FileName(t) = FileName(p)
  BY <1>2 DEF FileName
<1>4. ~HasDots(p)
  <2>1. ASSUME NEW i \in DOMAIN p, i > 1, p[i] = ".", p[i - 1] = "."
        PROVE  FALSE
    <3>1. i - 1 \in DOMAIN p
      <4>1. i \in 1..Len(p) /\ Len(p) \in Nat /\ DOMAIN p = 1..Len(p)
        BY <2>1
      <4>2. i - 1 \in 1..Len(p)
        BY ONLY <2>1, <4>1
      <4>3. QED
        BY <4>1, <4>2
    <3>2. i \in DOMAIN t /\ t[i] = "." /\ t[i - 1] = "."
      BY <1>1, <2>1, <3>1
    <3>3. QED
      BY <2>1, <3>2 DEF HasDots
  <2>2. QED
    BY <2>1 DEF HasDots
<1>5. Status(TRUE, t) = Status(TRUE, p)
  BY <1>3, <1>4 DEF Status
<1>6. QED
  BY <1>1, <1>3, <1>5 DEF Answer

(* The handler answers the target it was given.                            *)
HandlerInv ==
  target \in Targets /\ (answer = NoAnswer \/ \E get \in BOOLEAN : answer = Answer(get, target))

(* The handler answers once, and nothing changes the target.               *)
LEMMA HandlerInvariance == MCSpec => []HandlerInv
<1>1. MCInit => HandlerInv
  BY DEF MCInit, HandlerInit, HandlerInv
<1>2. HandlerInv /\ [MCNext]_<<vars, handlerVars>> => HandlerInv'
  BY DEF MCNext, HandlerInv, HandleRequest, handlerVars
<1>3. QED
  BY <1>1, <1>2, PTL DEF MCSpec

(* However long the target is and whatever is on the disk: a query does    *)
(* not change the answer, nor does the order of "?" and "#", provided that *)
(* there is one of each at most.                                           *)
THEOREM QueryTheorem == MCSpec => []QueryIsIgnored
<1>1. HandlerInv => QueryIsIgnored
  <2> SUFFICES ASSUME HandlerInv, answer.status \notin {"none", "bad_request"},
                      ~(Cardinality(Places(target, "?")) > 1),
                      ~(Cardinality(Places(target, "#")) > 1)
               PROVE  answer = Answer(TRUE, PathOf(target))
    BY DEF QueryIsIgnored
  <2>1. target \in Seq(Tokens)
    BY TargetType DEF HandlerInv
  <2>2. PICK get \in BOOLEAN : answer = Answer(get, target)
    BY DEF HandlerInv, NoAnswer
  <2>3. get = TRUE /\ ~HasDots(target)
    <3>1. SUFFICES ASSUME ~get \/ HasDots(target)
                   PROVE  answer.status = "bad_request"
      OBVIOUS
    <3>2. Status(get, target) = "bad_request"
      BY <3>1 DEF Status
    <3>3. answer = [status |-> "bad_request", file |-> <<>>]
      BY <2>2, <3>2 DEF Answer
    <3>4. QED
      BY <3>3
  <2>4. QED
    BY <2>1, <2>2, <2>3, SameAnswer
<1>2. QED
  BY <1>1, HandlerInvariance, PTL

(* Behind one leading slash the stripped path does not begin with another, *)
(* nor with "./" unless the target does so behind its slash.               *)
LEMMA StrippedFront ==
  ASSUME NEW t \in Seq(Tokens), t # <<>>, t[1] = "/", Len(t) > 1 => t[2] # "/",
         Len(t) > 2 => t[2] # "." \/ t[3] # "/"
  PROVE  /\ PathStripped(t) \in Seq(Tokens)
         /\ PathStripped(t) # <<>> => PathStripped(t)[1] # "/"
         /\ Len(PathStripped(t)) > 1 => PathStripped(t)[1] # "." \/ PathStripped(t)[2] # "/"
<1>1. PICK c \in Seq(Tokens) :
        /\ c = Cut(Cut(t, "?"), "#")
        /\ DOMAIN c \subseteq DOMAIN t /\ \A i \in DOMAIN c : c[i] = t[i]
  <2>1. PICK u \in Seq(Tokens) : u = Cut(t, "?")
    BY CutKeeps
  <2>2. DOMAIN u \subseteq DOMAIN t /\ \A i \in DOMAIN u : u[i] = t[i]
    BY <2>1, CutKeeps
  <2>3. PICK c \in Seq(Tokens) : c = Cut(u, "#")
    BY CutKeeps
  <2>4. DOMAIN c \subseteq DOMAIN u /\ \A i \in DOMAIN c : c[i] = u[i]
    BY <2>3, CutKeeps
  <2>5. QED
    BY <2>1, <2>2, <2>3, <2>4
<1>2. PICK f \in Seq(Tokens) : /\ f = StripFront(c)
                               /\ f # <<>> => f[1] # "/"
                               /\ Len(f) > 1 => f[1] # "." \/ f[2] # "/"
  <2>1. CASE c = <<>>
    <3>1. StripFront(c) = c
      BY <2>1 DEF StripFront
    <3>2. ~(Len(c) > 1)
      BY <2>1
    <3>3. QED
      BY <2>1, <3>1, <3>2
  <2>2. CASE c # <<>>
    <3>1. /\ 1 \in DOMAIN c /\ c[1] = "/"
          /\ Len(c) > 1 => 2 \in DOMAIN c /\ 2 \in DOMAIN t /\ Len(t) > 1
      <4>1. Len(c) \in Nat \ {0} /\ DOMAIN c = 1..Len(c)
        BY <2>2, EmptySeq
      <4>2. 1 \in DOMAIN c /\ c[1] = "/"
        BY <1>1, <4>1
      <4>3. ASSUME Len(c) > 1
            PROVE  2 \in DOMAIN c /\ 2 \in DOMAIN t /\ Len(t) > 1
        <5>1. 2 \in DOMAIN c
          BY <4>1, <4>3
        <5>2. 2 \in DOMAIN t /\ DOMAIN t = 1..Len(t) /\ Len(t) \in Nat
          BY <1>1, <5>1
        <5>3. QED
          BY <5>1, <5>2
      <4>4. QED
        BY <4>2, <4>3
    <3>2. StripFront(c) = Tail(c)
      BY <2>2, <3>1 DEF StripFront
    <3>3. /\ Tail(c) \in Seq(Tokens) /\ Len(Tail(c)) = Len(c) - 1 /\ Len(c) \in Nat
          /\ \A i \in 1..Len(Tail(c)) : Tail(c)[i] = c[i + 1]
      BY <2>2, HeadTailProperties
    <3>4. ASSUME Tail(c) # <<>>
          PROVE  Tail(c)[1] # "/"
      <4>1. Len(Tail(c)) # 0
        BY <3>3, <3>4, EmptySeq
      <4>2. Len(c) > 1 /\ 1 \in 1..Len(Tail(c))
        BY ONLY <3>3, <4>1
      <4>3. Tail(c)[1] = c[2]
        BY <3>3, <4>2
      <4>4. c[2] = t[2] /\ t[2] # "/"
        BY <1>1, <3>1, <4>2
      <4>5. QED
        BY <4>3, <4>4
    <3>5. ASSUME Len(Tail(c)) > 1, Tail(c)[1] = ".", Tail(c)[2] = "/"
          PROVE  FALSE
      <4>1. Len(c) > 2 /\ 1 \in 1..Len(Tail(c)) /\ 2 \in 1..Len(Tail(c)) /\ 3 \in 1..Len(c)
        BY ONLY <3>3, <3>5
      <4>2. c[2] = "." /\ c[3] = "/"
        BY <3>3, <3>5, <4>1
      <4>3. 2 \in DOMAIN c /\ 3 \in DOMAIN c
        BY <3>1, <4>1
      <4>4. t[2] = "." /\ t[3] = "/" /\ 3 \in DOMAIN t
        BY <1>1, <4>2, <4>3
      <4>5. Len(t) > 2
        <5>1. Len(t) \in Nat /\ 3 \in 1..Len(t)
          BY <4>4
        <5>2. QED
          BY ONLY <5>1
      <4>6. QED
        BY <4>4, <4>5
    <3>6. QED
      BY <3>2, <3>3, <3>4, <3>5
  <2>3. QED
    BY <2>1, <2>2
<1>3. PathStripped(t) = StripBack(f)
  BY <1>1, <1>2 DEF PathStripped
<1>4. CASE f = <<>> \/ f[Len(f)] # "/"
  BY <1>2, <1>3, <1>4 DEF StripBack
<1>5. CASE f # <<>> /\ f[Len(f)] = "/"
  <2>1. StripBack(f) = First(f, Len(f) - 1)
    BY <1>5 DEF StripBack, First
  <2>2. Len(f) \in Nat \ {0} /\ Len(f) - 1 \in 0..Len(f)
    BY <1>5, EmptySeq
  <2>3. /\ First(f, Len(f) - 1) \in Seq(Tokens) /\ Len(First(f, Len(f) - 1)) = Len(f) - 1
        /\ \A i \in 1..Len(f) - 1 : First(f, Len(f) - 1)[i] = f[i]
    BY <2>2, FirstIs
  <2>4. ASSUME First(f, Len(f) - 1) # <<>>
        PROVE  First(f, Len(f) - 1)[1] # "/"
    <3>1. Len(f) - 1 # 0
      BY <2>3, <2>4, EmptySeq
    <3>2. 1 \in 1..Len(f) - 1
      <4>1. \A n \in Nat : n - 1 # 0 /\ n # 0 => 1 \in 1..n - 1
        OBVIOUS
      <4>2. Len(f) \in Nat /\ Len(f) # 0
        BY <2>2
      <4>3. QED
        BY ONLY <3>1, <4>1, <4>2
    <3>3. First(f, Len(f) - 1)[1] = f[1]
      BY ONLY <2>3, <3>2
    <3>4. f[1] # "/"
      BY ONLY <1>2, <1>5
    <3>5. QED
      BY ONLY <3>3, <3>4
  <2>5. ASSUME Len(First(f, Len(f) - 1)) > 1,
               First(f, Len(f) - 1)[1] = ".", First(f, Len(f) - 1)[2] = "/"
        PROVE  FALSE
    <3>1. Len(f) - 1 > 1
      BY ONLY <2>3, <2>5
    <3>2. 1 \in 1..Len(f) - 1 /\ 2 \in 1..Len(f) - 1 /\ Len(f) > 1
      BY ONLY <2>2, <3>1
    <3>3. f[1] = "." /\ f[2] = "/"
      BY ONLY <2>3, <2>5, <3>2
    <3>4. QED
      BY ONLY <1>2, <3>2, <3>3
  <2>6. QED
    BY <1>3, <2>1, <2>3, <2>4, <2>5
<1>6. QED
  BY <1>4, <1>5

(* How many of the positions that Opened keeps there are up to i           *)
UpTo(s, i) == Cardinality({j \in Kept(s) : j <= i})

(* They are counted strictly upwards, so that Opened has every one.        *)
LEMMA KeptOnce ==
  ASSUME NEW S, NEW s \in Seq(S), NEW i \in Kept(s)
  PROVE  /\ UpTo(s, i) \in 1..Cardinality(Kept(s))
         /\ \A j \in Kept(s) : UpTo(s, j) = UpTo(s, i) => j = i
         /\ UpTo(s, i) \in DOMAIN Opened(s) /\ Opened(s)[UpTo(s, i)] = s[i]
<1>1. /\ Kept(s) \subseteq 1..Len(s) /\ Len(s) \in Nat
      /\ IsFiniteSet(Kept(s)) /\ Cardinality(Kept(s)) \in Nat
  <2>1. Kept(s) \subseteq 1..Len(s) /\ Len(s) \in Nat
    BY DEF Kept, Named, Places
  <2>2. IsFiniteSet(1..Len(s))
    BY <2>1, FS_Interval
  <2>3. IsFiniteSet(Kept(s))
    BY <2>1, <2>2, FS_Subset
  <2>4. QED
    BY <2>1, <2>3, FS_CardinalityType
<1> DEFINE upTo(j) == {k \in Kept(s) : k <= j}
<1>2. \A j \in Kept(s) : IsFiniteSet(upTo(j)) /\ Cardinality(upTo(j)) <= Cardinality(Kept(s))
                         /\ Cardinality(upTo(j)) \in Nat
  <2>1. ASSUME NEW j \in Kept(s)
        PROVE  IsFiniteSet(upTo(j)) /\ Cardinality(upTo(j)) <= Cardinality(Kept(s))
    BY <1>1, FS_Subset
  <2>2. QED
    BY <2>1, FS_CardinalityType
<1>3. ASSUME NEW j \in Kept(s), NEW k \in Kept(s), Cardinality(upTo(j)) = Cardinality(upTo(k)), j < k
      PROVE  FALSE
  <2>1. j \in Int /\ k \in Int /\ \A l \in Kept(s) : l \in Int
    BY <1>1
  <2>2. upTo(j) \subseteq upTo(k)
    <3>1. ASSUME NEW l \in Kept(s), l <= j
          PROVE  l <= k
      <4>1. l \in Int /\ j < k
        BY <1>3, <2>1
      <4>2. QED
        BY ONLY <2>1, <3>1, <4>1
    <3>2. QED
      BY <3>1
  <2>3. upTo(k) = upTo(j)
    BY <1>2, <1>3, <2>2, FS_Subset
  <2>4. k \in upTo(k)
    BY <2>1
  <2>5. k \in upTo(j)
    BY ONLY <2>3, <2>4
  <2>6. QED
    BY <1>3, <2>1, <2>5
<1>4. \A j \in Kept(s) : Cardinality(upTo(j)) = Cardinality(upTo(i)) => j = i
  <2>1. ASSUME NEW j \in Kept(s), Cardinality(upTo(j)) = Cardinality(upTo(i))
        PROVE  j = i
    <3>1. ~(j < i) /\ ~(i < j)
      BY <1>3, <2>1
    <3>2. j \in Int /\ i \in Int
      BY <1>1
    <3>3. QED
      BY ONLY <3>1, <3>2
  <2>2. QED
    BY <2>1
<1>5. Cardinality(upTo(i)) # 0
  <2>1. i \in upTo(i)
    BY <1>1
  <2>2. QED
    BY <1>2, <2>1, FS_EmptySet
<1>6. /\ UpTo(s, i) \in 1..Cardinality(Kept(s))
      /\ \A j \in Kept(s) : UpTo(s, j) = UpTo(s, i) => j = i
  <2>1. \A j : UpTo(s, j) = Cardinality(upTo(j))
    BY Zenon DEF UpTo
  <2>2. Cardinality(upTo(i)) \in 1..Cardinality(Kept(s))
    <3>1. Cardinality(upTo(i)) \in Nat /\ Cardinality(upTo(i)) <= Cardinality(Kept(s))
      BY <1>2
    <3>2. QED
      BY ONLY <1>1, <1>5, <3>1
  <2>3. UpTo(s, i) \in 1..Cardinality(Kept(s))
    BY ONLY <2>1, <2>2, Zenon
  <2>4. \A j \in Kept(s) : UpTo(s, j) = UpTo(s, i) => j = i
    BY ONLY <1>4, <2>1, Zenon
  <2>5. QED
    BY <2>3, <2>4
<1>7. (CHOOSE j \in Kept(s) : UpTo(s, j) = UpTo(s, i)) = i
  BY <1>6
<1>8. Opened(s) = [k \in 1..Cardinality(Kept(s)) |-> s[CHOOSE j \in Kept(s) : UpTo(s, j) = k]]
  BY Zenon DEF Opened, UpTo
<1>9. QED
  BY <1>6, <1>7, <1>8

(* index.html is one name: it is opened as it is.                          *)
LEMMA IndexIs == Opened(<<"index.html">>) = <<"index.html">>
<1> DEFINE s == <<"index.html">>
<1>1. s \in Seq({"index.html"}) /\ Len(s) = 1 /\ DOMAIN s = {1} /\ s[1] = "index.html"
  OBVIOUS
<1>2. Kept(s) = {1}
  <2>1. Kept(s) \subseteq {1}
    BY <1>1 DEF Kept, Named, Places
  <2>2. 1 \in Named(s)
    BY <1>1 DEF Named, DotPart
  <2>3. QED
    BY <2>1, <2>2 DEF Kept
<1>3. Cardinality(Kept(s)) = 1
  BY <1>2, FS_Singleton
<1>4. UpTo(s, 1) \in 1..1 /\ UpTo(s, 1) \in DOMAIN Opened(s) /\ Opened(s)[UpTo(s, 1)] = s[1]
  BY <1>1, <1>2, <1>3, KeptOnce
<1>5. UpTo(s, 1) = 1
  BY <1>4
<1>6. Opened(s) = [k \in 1..Cardinality(Kept(s)) |-> s[CHOOSE j \in Kept(s) : UpTo(s, j) = k]]
  BY Zenon DEF Opened, UpTo
<1>7. Opened(s) = [k \in 1..1 |-> Opened(s)[k]]
  BY <1>3, <1>6
<1>8. Opened(s)[1] = "index.html"
  BY <1>1, <1>4, <1>5
<1>9. s = [k \in 1..1 |-> "index.html"]
  BY <1>1
<1>10. QED
  BY <1>7, <1>8, <1>9

(* The last slash of a path that names a file has a first component before *)
(* it and the last one behind it, so that it is kept.                      *)
LEMMA FileHasSlash ==
  ASSUME NEW s \in Seq(Tokens), s # <<>> => s[1] # "/",
         Len(s) > 1 => s[1] # "." \/ s[2] # "/", IsFile(s), ~DotPart(s, Len(s))
  PROVE  Places(Opened(s), "/") # {}
<1> DEFINE slashes == {i \in Places(s, "/") : i = 1 \/ s[i - 1] # "/"}
           last == {k \in DOMAIN s : \A j \in Places(s, "/") : j < k}
<1>1. PathvSize(s) > 1 /\ PathvBack(s) # {}
  BY DEF IsFile, HasDot
<1>2. s # <<>> /\ PathvSize(s) = 1 + Cardinality(slashes)
  <2>1. s # <<>>
    BY <1>1 DEF PathvSize
  <2>2. QED
    BY <2>1, Zenon DEF PathvSize
<1>3. slashes # {}
  <2>1. SUFFICES ASSUME slashes = {}
                 PROVE  FALSE
    OBVIOUS
  <2>2. Cardinality(slashes) = 0
    BY <2>1, FS_EmptySet
  <2>3. QED
    BY ONLY <1>1, <1>2, <2>2
<1>4. /\ Places(s, "/") \subseteq 1..Len(s) /\ Places(s, "/") # {}
      /\ Len(s) \in Nat /\ DOMAIN s = 1..Len(s)
  BY <1>3 DEF Places
<1>5. PICK i \in Places(s, "/") : \A j \in Places(s, "/") : j <= i
  <2>1. \E i \in Places(s, "/") : \A j \in Places(s, "/") : j <= i
    BY <1>4, LastOne
  <2>2. QED
    BY <2>1
<1>6. PICK k \in DOMAIN s : \A j \in Places(s, "/") : j < k
  BY <1>1 DEF PathvBack
<1>7. i \in Nat /\ k \in Nat /\ i < k /\ k <= Len(s)
  BY <1>4, <1>5, <1>6
<1>8. i + 1 \in DOMAIN s /\ i + 1 \notin Places(s, "/") /\ i + 2 \notin Places(s, "/")
  <2>1. i + 1 \in 1..Len(s)
    BY ONLY <1>4, <1>7
  <2>2. \A n \in Nat : n > i => n \notin Places(s, "/")
    BY <1>4, <1>5, <1>7
  <2>3. i + 1 \in Nat /\ i + 1 > i /\ i + 2 \in Nat /\ i + 2 > i
    BY ONLY <1>7
  <2>4. QED
    BY <1>4, <2>1, <2>2, <2>3
<1>9. ~DotPart(s, i + 1)
  <2>1. SUFFICES ASSUME DotPart(s, i + 1)
                 PROVE  FALSE
    OBVIOUS
  <2>2. CASE i + 1 = Len(s)
    BY <2>1, <2>2
  <2>3. CASE i + 1 # Len(s)
    <3>1. i + 1 < Len(s) /\ (i + 1) + 1 = i + 2 /\ i + 2 \in 1..Len(s)
      <4>1. i + 1 \in 1..Len(s) /\ Len(s) \in Nat /\ i \in Nat
        BY <1>4, <1>7, <1>8
      <4>2. PICK n \in Nat : n = Len(s)
        BY <4>1
      <4>3. i + 1 < n /\ (i + 1) + 1 = i + 2 /\ i + 2 \in 1..n
        BY ONLY <2>3, <4>1, <4>2
      <4>4. QED
        BY <4>2, <4>3
    <3>2. s[i + 2] = "/"
      BY <2>1, <3>1 DEF DotPart
    <3>3. QED
      BY <1>4, <1>8, <3>1, <3>2 DEF Places
  <2>4. QED
    BY <2>2, <2>3
<1>10. i + 1 \in Named(s)
  BY <1>8, <1>9 DEF Named, Places
<1>11. 1 \in DOMAIN s /\ s[1] # "/" /\ Len(s) > 1
  <2>1. Len(s) > 1
    BY <1>4, <1>5, <1>7
  <2>2. 1 \in 1..Len(s)
    BY ONLY <1>4, <2>1
  <2>3. QED
    BY <1>2, <1>4, <2>1, <2>2
<1>12. 1 \in Named(s)
  BY <1>11 DEF Named, DotPart
<1>13. 1 < i
  <2>1. i # 1 /\ i \in 1..Len(s)
    BY <1>4, <1>5, <1>11 DEF Places
  <2>2. QED
    BY ONLY <1>4, <2>1
<1>14. i \in Kept(s) /\ s[i] = "/"
  BY <1>5, <1>10, <1>12, <1>13 DEF Kept, Places
<1>15. UpTo(s, i) \in DOMAIN Opened(s) /\ Opened(s)[UpTo(s, i)] = "/"
  BY <1>14, KeptOnce
<1>16. QED
  BY <1>15 DEF Places

(* However long the target is and whatever is on the disk: behind one      *)
(* leading slash, that no "./" follows, only index.html is served from the *)
(* root, and every other file from a directory.                            *)
THEOREM RootTheorem == MCSpec => []RootIsIndex
<1>1. HandlerInv => RootIsIndex
  <2> SUFFICES ASSUME HandlerInv, target # <<>>, target[1] = "/",
                      Len(target) > 1 => target[2] # "/",
                      Len(target) > 2 => target[2] # "." \/ target[3] # "/",
                      answer.file \notin {<<>>, <<"index.html">>}
               PROVE  Places(answer.file, "/") # {}
    BY DEF RootIsIndex
  <2>1. target \in Seq(Tokens)
    BY TargetType DEF HandlerInv
  <2>2. PICK get \in BOOLEAN : answer = Answer(get, target)
    BY DEF HandlerInv, NoAnswer
  <2>3. Status(get, target) = "ok" /\ answer.file = Opened(FileName(target))
    <3>1. CASE Status(get, target) = "ok"
      BY <2>2, <3>1 DEF Answer
    <3>2. CASE Status(get, target) # "ok"
      <4>1. answer.file = <<>>
        BY <2>2, <3>2 DEF Answer
      <4>2. QED
        BY <4>1
    <3>3. QED
      BY <3>1, <3>2
  <2>4. CASE ~IsFile(PathStripped(target))
    <3>1. answer.file = <<"index.html">>
      BY <2>3, <2>4, IndexIs DEF FileName
    <3>2. QED
      BY <3>1
  <2>5. CASE IsFile(PathStripped(target))
    <3>1. /\ PathStripped(target) \in Seq(Tokens)
          /\ PathStripped(target) # <<>> => PathStripped(target)[1] # "/"
          /\ Len(PathStripped(target)) > 1 =>
               PathStripped(target)[1] # "." \/ PathStripped(target)[2] # "/"
      BY <2>1, StrippedFront
    <3>2. answer.file = Opened(PathStripped(target))
      BY <2>3, <2>5 DEF FileName
    <3>3. FileName(target) = PathStripped(target)
      BY <2>5 DEF FileName
    <3>4. ~DotPart(PathStripped(target), Len(PathStripped(target)))
      BY <2>3, <3>3 DEF Status
    <3>5. QED
      BY <2>5, <3>1, <3>2, <3>4, FileHasSlash
  <2>6. QED
    BY <2>4, <2>5
<1>2. QED
  BY <1>1, HandlerInvariance, PTL

=============================================================================
