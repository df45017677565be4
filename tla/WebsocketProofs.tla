--------------------------- MODULE WebsocketProofs ---------------------------
(* Proofs about Websocket, for any number of sessions and ping threads.    *)
EXTENDS Websocket, SequenceTheorems, TLAPS

(* The bus knows only objects in being, whoever holds a shared_ptr keeps   *)
(* its object so, and a thread that has taken one has taken it of an       *)
(* object.                                                                 *)
LifeInv ==
  /\ \A s \in sessions_ : life[s] = "alive"
  /\ \A s \in Sessions : Held(s) => life[s] = "alive"
  /\ \A t \in Threads : bpc[t] \in {"post", "release", "destroy"} => hold[t] \in Sessions

(* What was given to send() is what the client has received, what is in    *)
(* the queue, and what is posted to the strand, in this order.             *)
OrderInv == \A s \in Sessions : posts[s] = (delivered[s] \o queue_[s]) \o posted[s]

IInv == TypeOK /\ LifeInv /\ OneWriteAtATime /\ OrderInv

-----------------------------------------------------------------------------
(* Lemmas on sequences                                                     *)

(* A sequence is empty exactly when its length is 0.                       *)
LEMMA EmptyLen ==
  ASSUME NEW S, NEW q \in Seq(S)
  PROVE  q = <<>> <=> Len(q) = 0
BY EmptySeq

(* A sequence is its head followed by its tail.                            *)
LEMMA HeadThenTail ==
  ASSUME NEW S, NEW q \in Seq(S), q # <<>>
  PROVE  <<Head(q)>> \in Seq(S) /\ q = <<Head(q)>> \o Tail(q)
<1> DEFINE h == <<Head(q)>>
           l == Tail(q)
           b == h \o l
<1>1. /\ Head(q) \in S /\ l \in Seq(S) /\ Len(l) = Len(q) - 1
      /\ \A i \in 1..Len(l) : l[i] = q[i + 1]
  BY HeadTailProperties
<1>2. Head(q) = q[1] /\ Len(q) \in Nat \ {0}
  BY EmptySeq
<1>3. h \in Seq(S) /\ Len(h) = 1 /\ h[1] = Head(q)
  BY <1>1
<1> HIDE DEF h, l
<1>4. /\ b \in Seq(S) /\ Len(b) = Len(h) + Len(l)
      /\ \A i \in 1..Len(h) + Len(l) :
           b[i] = IF i <= Len(h) THEN h[i] ELSE l[i - Len(h)]
  <2>1. h \in Seq(S) /\ l \in Seq(S)
    BY <1>1, <1>3
  <2>2. QED
    BY ONLY <2>1, ConcatProperties
<1> HIDE DEF b
<1>5. Len(b) = Len(q)
  BY <1>1, <1>2, <1>3, <1>4
<1>6. ASSUME NEW i \in 1..Len(q)
      PROVE  q[i] = b[i]
  <2>1. CASE i = 1
    BY <1>1, <1>2, <1>3, <1>4, <2>1
  <2>2. CASE i # 1
    <3>1. i - 1 \in 1..Len(l) /\ (i - 1) + 1 = i /\ ~(i <= 1) /\ i \in 1..1 + Len(l)
      BY <1>1, <1>2, <2>2
    <3>2. b[i] = l[i - 1]
      BY <1>3, <1>4, <3>1
    <3>3. QED
      BY <1>1, <3>1, <3>2
  <2>3. QED
    BY <2>1, <2>2
<1>7. q = b
  BY <1>4, <1>5, <1>6, SeqEqual
<1>8. QED
  BY <1>3, <1>7 DEF b, h, l

(* Concatenation, named so that its definition can be hidden.              *)
Cat(s, t) == s \o t

(* It is associative.                                                      *)
LEMMA CatAssociative ==
  ASSUME NEW S, NEW s \in Seq(S), NEW t \in Seq(S), NEW u \in Seq(S)
  PROVE  Cat(Cat(s, t), u) = Cat(s, Cat(t, u))
BY ONLY ConcatAssociative, SMTT(60) DEF Cat

(* It makes sequences of sequences.                                        *)
LEMMA CatType ==
  ASSUME NEW S, NEW s \in Seq(S), NEW t \in Seq(S)
  PROVE  Cat(s, t) \in Seq(S)
BY ONLY ConcatProperties DEF Cat

(* What on_send does to the three stages together.                         *)
LEMMA SendOrder ==
  ASSUME NEW S, NEW d \in Seq(S), NEW q \in Seq(S), NEW p \in Seq(S), p # <<>>
  PROVE  (d \o (q \o <<Head(p)>>)) \o Tail(p) = (d \o q) \o p
<1>1. <<Head(p)>> \in Seq(S) /\ Tail(p) \in Seq(S) /\ p = Cat(<<Head(p)>>, Tail(p))
  BY HeadThenTail, HeadTailProperties DEF Cat
<1>2. PICK h \in Seq(S), l \in Seq(S) : h = <<Head(p)>> /\ l = Tail(p) /\ p = Cat(h, l)
  BY ONLY <1>1
<1>3. Cat(Cat(d, Cat(q, h)), l) = Cat(Cat(d, q), Cat(h, l))
  BY CatAssociative, CatType
<1>4. Cat(Cat(d, Cat(q, <<Head(p)>>)), Tail(p)) = Cat(Cat(d, q), p)
  BY ONLY <1>2, <1>3
<1>5. QED
  BY ONLY <1>4 DEF Cat

(* And what on_write does.                                                 *)
LEMMA WriteOrder ==
  ASSUME NEW S, NEW d \in Seq(S), NEW q \in Seq(S), q # <<>>
  PROVE  (d \o <<Head(q)>>) \o Tail(q) = d \o q
<1>1. <<Head(q)>> \in Seq(S) /\ Tail(q) \in Seq(S) /\ q = Cat(<<Head(q)>>, Tail(q))
  BY HeadThenTail, HeadTailProperties DEF Cat
<1>2. PICK h \in Seq(S), l \in Seq(S) : h = <<Head(q)>> /\ l = Tail(q) /\ q = Cat(h, l)
  BY ONLY <1>1
<1>3. Cat(Cat(d, h), l) = Cat(d, Cat(h, l))
  BY CatAssociative
<1>4. Cat(Cat(d, <<Head(q)>>), Tail(q)) = Cat(d, q)
  BY ONLY <1>2, <1>3
<1>5. QED
  BY ONLY <1>4 DEF Cat

(* What is delivered next is the next of all that was sent.                *)
LEMMA NextToDeliver ==
  ASSUME NEW S, NEW d \in Seq(S), NEW q \in Seq(S), NEW p \in Seq(S), q # <<>>
  PROVE  Len(d) < Len((d \o q) \o p) /\ ((d \o q) \o p)[Len(d) + 1] = Head(q)
<1> DEFINE e == d \o q
<1>1. Len(d) \in Nat /\ Len(q) \in Nat \ {0} /\ Len(p) \in Nat /\ Head(q) = q[1]
  BY EmptySeq
<1>2. /\ e \in Seq(S) /\ Len(e) = Len(d) + Len(q)
      /\ \A i \in 1..Len(d) + Len(q) : e[i] = IF i <= Len(d) THEN d[i] ELSE q[i - Len(d)]
  BY ConcatProperties
<1> HIDE DEF e
<1>3. /\ Len(e \o p) = Len(e) + Len(p)
      /\ \A i \in 1..Len(e) + Len(p) : (e \o p)[i] = IF i <= Len(e) THEN e[i] ELSE p[i - Len(e)]
  <2>1. e \in Seq(S)
    BY <1>2
  <2>2. QED
    BY ONLY <2>1, p \in Seq(S), ConcatProperties
<1>4. /\ Len(d) + 1 \in 1..Len(e) + Len(p) /\ Len(d) + 1 <= Len(e)
      /\ Len(d) + 1 \in 1..Len(d) + Len(q) /\ ~(Len(d) + 1 <= Len(d))
      /\ (Len(d) + 1) - Len(d) = 1 /\ Len(d) < Len(e) + Len(p)
  BY <1>1, <1>2
<1>5. (e \o p)[Len(d) + 1] = e[Len(d) + 1] /\ e[Len(d) + 1] = q[1]
  BY <1>2, <1>3, <1>4
<1>6. QED
  BY <1>1, <1>3, <1>4, <1>5 DEF e

-----------------------------------------------------------------------------
(* The invariant                                                           *)

(* The initial state satisfies it.                                         *)
LEMMA InvInit == Init => IInv
<1> SUFFICES ASSUME Init
             PROVE  IInv
  OBVIOUS
<1>1. TypeOK
  BY VersionAssumption DEF Init, TypeOK, Versions, Threads
<1>2. LifeInv
  BY ThreadsAssumption DEF Init, LifeInv, Held, HeldBesides, Threads
<1>3. OneWriteAtATime
  BY DEF Init, OneWriteAtATime
<1>4. OrderInv
  <2>1. (<<>> \o <<>>) \o <<>> = <<>>
    BY ConcatEmptySeq, EmptySeq
  <2>2. QED
    BY <2>1 DEF Init, OrderInv
<1>5. QED
  BY <1>1, <1>2, <1>3, <1>4 DEF IInv

(* A session comes, registers, and stops reading.                          *)
LEMMA ReadingStep ==
  ASSUME IInv, NEW s \in Sessions,
         Upgrade(s) \/ Disconnect(s) \/ Reading(s) \/ Destroy(s)
  PROVE  IInv'
<1> USE DEF IInv
<1>1. CASE Upgrade(s)
  <2>1. TypeOK'
    BY <1>1 DEF Upgrade, TypeOK, threadVars, busVars
  <2>2. LifeInv'
    BY <1>1 DEF Upgrade, TypeOK, LifeInv, Held, HeldBesides, threadVars, busVars
  <2>3. OneWriteAtATime' /\ OrderInv'
    BY <1>1 DEF Upgrade, OneWriteAtATime, OrderInv
  <2>4. QED
    BY <2>1, <2>2, <2>3
<1>2. CASE Disconnect(s)
  <2>1. TypeOK'
    BY <1>2 DEF Disconnect, TypeOK, sessionVars, threadVars, busVars
  <2>2. LifeInv' /\ OrderInv'
    BY <1>2 DEF Disconnect, LifeInv, OrderInv, Held, HeldBesides, sessionVars, threadVars,
                busVars
  <2>3. OneWriteAtATime'
    BY <1>2 DEF Disconnect, OneWriteAtATime, sessionVars
  <2>4. QED
    BY <2>1, <2>2, <2>3
<1>3. CASE OnAccept(s)
  <2>1. TypeOK'
    BY <1>3 DEF OnAccept, TypeOK, threadVars
  <2>2. LifeInv'
    BY <1>3 DEF OnAccept, TypeOK, LifeInv, Held, HeldBesides, threadVars
  <2>3. OneWriteAtATime' /\ OrderInv'
    BY <1>3 DEF OnAccept, OneWriteAtATime, OrderInv
  <2>4. QED
    BY <2>1, <2>2, <2>3
<1>4. CASE OnReadError(s)
  <2>1. TypeOK'
    BY <1>4 DEF OnReadError, TypeOK, threadVars, busVars
  <2>2. LifeInv'
    BY <1>4 DEF OnReadError, TypeOK, LifeInv, Held, HeldBesides, threadVars, busVars
  <2>3. OneWriteAtATime' /\ OrderInv'
    BY <1>4 DEF OnReadError, OneWriteAtATime, OrderInv
  <2>4. QED
    BY <2>1, <2>2, <2>3
<1>5. CASE Destroy(s)
  <2>1. TypeOK'
    BY <1>5 DEF Destroy, TypeOK, threadVars
  <2>2. LifeInv'
    BY <1>5 DEF Destroy, TypeOK, LifeInv, Held, HeldBesides, threadVars
  <2>3. OneWriteAtATime' /\ OrderInv'
    BY <1>5 DEF Destroy, OneWriteAtATime, OrderInv
  <2>4. QED
    BY <2>1, <2>2, <2>3
<1>6. QED
  BY <1>1, <1>2, <1>3, <1>4, <1>5 DEF Reading

(* A message given to send() joins the end of what is under way.           *)
LEMMA PutStep ==
  ASSUME IInv, NEW s \in Sessions, NEW m \in Versions, Put(s, m),
         UNCHANGED <<queue_, delivered>>
  PROVE  /\ posted' \in [Sessions -> Seq(Versions)]
         /\ posts' \in [Sessions -> Seq(Versions)]
         /\ \A r \in Sessions \ {s} : posted'[r] = posted[r]
         /\ OrderInv'
<1>1. posted[s] \in Seq(Versions) /\ posts[s] \in Seq(Versions)
  BY DEF IInv, TypeOK
<1>2. /\ posted' = [posted EXCEPT ![s] = Append(posted[s], m)]
      /\ posts' = [posts EXCEPT ![s] = Append(posts[s], m)]
  BY DEF Put
<1>3. /\ Append(posted[s], m) \in Seq(Versions) /\ Append(posts[s], m) \in Seq(Versions)
      /\ Append(posted[s], m) # <<>>
      /\ Append(posted[s], m) = posted[s] \o <<m>> /\ Append(posts[s], m) = posts[s] \o <<m>>
  BY <1>1, AppendProperties, AppendIsConcat, SMTT(60)
<1>4. /\ posted' \in [Sessions -> Seq(Versions)] /\ posts' \in [Sessions -> Seq(Versions)]
      /\ posted'[s] = posted[s] \o <<m>> /\ posts'[s] = posts[s] \o <<m>>
      /\ \A r \in Sessions \ {s} : posted'[r] = posted[r] /\ posts'[r] = posts[r]
  BY <1>2, <1>3, SMTT(60) DEF IInv, TypeOK
<1>5. posts'[s] = (delivered'[s] \o queue_'[s]) \o posted'[s]
  <2> DEFINE dq == delivered[s] \o queue_[s]
             p  == posted[s]
             n  == <<m>>
  <2>1. dq \in Seq(Versions) /\ p \in Seq(Versions) /\ n \in Seq(Versions)
    BY ConcatProperties DEF IInv, TypeOK
  <2> HIDE DEF dq, p, n
  <2>2. (dq \o p) \o n = dq \o (p \o n)
    BY <2>1, ConcatAssociative, SMTT(60)
  <2>3. posts[s] = (delivered[s] \o queue_[s]) \o posted[s]
    BY DEF IInv, OrderInv
  <2>4. QED
    BY <1>4, <2>2, <2>3 DEF dq, p, n
<1>6. OrderInv'
  <2>1. ASSUME NEW r \in Sessions, r # s
        PROVE  posts'[r] = (delivered'[r] \o queue_'[r]) \o posted'[r]
    BY <1>4, <2>1 DEF IInv, OrderInv
  <2>2. QED
    BY <1>5, <2>1 DEF OrderInv
<1>7. QED
  BY <1>4, <1>6

(* The welcome thread.                                                     *)
LEMMA WelcomingStep ==
  ASSUME IInv, NEW s \in Sessions, Welcoming(s)
  PROVE  IInv'
<1> USE DEF IInv
<1>1. CASE WelcomeCompose(s)
  <2>1. TypeOK'
    BY <1>1 DEF WelcomeCompose, TypeOK, threadVars, busVars
  <2>2. LifeInv'
    BY <1>1 DEF WelcomeCompose, TypeOK, LifeInv, Held, HeldBesides, threadVars, busVars
  <2>3. OneWriteAtATime' /\ OrderInv'
    BY <1>1 DEF WelcomeCompose, OneWriteAtATime, OrderInv
  <2>4. QED
    BY <2>1, <2>2, <2>3
<1>2. CASE WelcomeSend(s)
  <2>1. wmsg[s] \in Versions /\ Put(s, wmsg[s]) /\ UNCHANGED <<queue_, delivered>>
    BY <1>2 DEF WelcomeSend, TypeOK
  <2>2. /\ posted' \in [Sessions -> Seq(Versions)] /\ posts' \in [Sessions -> Seq(Versions)]
        /\ \A r \in Sessions \ {s} : posted'[r] = posted[r]
        /\ OrderInv'
    BY <2>1, PutStep
  <2>3. TypeOK'
    BY <1>2, <2>2 DEF WelcomeSend, TypeOK, threadVars, busVars
  <2>4. LifeInv'
    BY <1>2, <2>2, SMTT(60) DEF WelcomeSend, TypeOK, LifeInv, Held, HeldBesides, threadVars, busVars
  <2>5. OneWriteAtATime'
    BY <1>2 DEF WelcomeSend, OneWriteAtATime
  <2>6. QED
    BY <2>2, <2>3, <2>4, <2>5
<1>3. QED
  BY <1>1, <1>2 DEF Welcoming

(* The strand moves a message from one stage to the next.                  *)
LEMMA WritingStep ==
  ASSUME IInv, NEW s \in Sessions, Writing(s)
  PROVE  IInv'
<1> USE DEF IInv
<1>1. /\ posted[s] \in Seq(Versions) /\ queue_[s] \in Seq(Versions)
      /\ delivered[s] \in Seq(Versions) /\ writes[s] \in Nat
  BY DEF TypeOK
<1>2. /\ writes[s] <= 1 /\ (writes[s] = 1 => queue_[s] # <<>>)
      /\ s \notin broken /\ queue_[s] # <<>> => writes[s] = 1
  BY DEF OneWriteAtATime
<1>3. posts[s] = (delivered[s] \o queue_[s]) \o posted[s]
  BY DEF OrderInv
<1>4. CASE OnSend(s)
  <2> DEFINE m == Head(posted[s])
  <2>1. m \in Versions /\ Tail(posted[s]) \in Seq(Versions)
    BY <1>1, <1>4, HeadTailProperties DEF OnSend
  <2>2. /\ Append(queue_[s], m) \in Seq(Versions) /\ Append(queue_[s], m) # <<>>
        /\ Append(queue_[s], m) = queue_[s] \o <<m>>
    <3>1. PICK q \in Seq(Versions), v \in Versions : q = queue_[s] /\ v = m
      BY ONLY <1>1, <2>1
    <3>2. Append(q, v) \in Seq(Versions) /\ Append(q, v) # <<>>
      BY AppendProperties
    <3>3. Append(q, v) = q \o <<v>>
      BY AppendIsConcat
    <3>4. QED
      BY ONLY <3>1, <3>2, <3>3
  <2>3. /\ posted' = [posted EXCEPT ![s] = Tail(posted[s])]
        /\ queue_' = [queue_ EXCEPT ![s] = Append(queue_[s], m)]
        /\ writes' = [writes EXCEPT ![s] = IF queue_[s] = <<>> THEN writes[s] + 1
                                          ELSE writes[s]]
        /\ posted[s] # <<>>
        /\ UNCHANGED <<threadVars, busVars, life, pending, welcome, wmsg, broken, delivered,
                       version, posts, mixed>>
    BY <1>4 DEF OnSend
  <2> HIDE DEF m
  <2>4. TypeOK'
    BY <1>1, <2>1, <2>2, <2>3, SMTT(60) DEF TypeOK, threadVars, busVars
  <2>5. LifeInv'
    <3>1. Held(s)
      BY <2>3 DEF Held, HeldBesides
    <3>2. life[s] = "alive"
      BY <3>1 DEF LifeInv
    <3>3. \A r \in Sessions \ {s} : posted'[r] = posted[r] /\ writes'[r] = writes[r]
      BY <2>3 DEF TypeOK
    <3>4. QED
      BY <2>3, <3>2, <3>3 DEF LifeInv, Held, HeldBesides, threadVars, busVars
  <2>6. OneWriteAtATime'
    <3>1. /\ writes'[s] <= 1 /\ queue_'[s] # <<>>
          /\ s \notin broken' => writes'[s] = 1
      <4>1. writes[s] \in {0, 1} /\ (queue_[s] = <<>> => writes[s] = 0)
        BY <1>1, <1>2
      <4>2. /\ writes'[s] = IF queue_[s] = <<>> THEN writes[s] + 1 ELSE writes[s]
            /\ queue_'[s] # <<>> /\ broken' = broken
        BY <2>2, <2>3 DEF TypeOK
      <4>3. QED
        BY <1>2, <4>1, <4>2
    <3>2. \A r \in Sessions \ {s} : queue_'[r] = queue_[r] /\ writes'[r] = writes[r]
      BY <2>3 DEF TypeOK
    <3>3. QED
      BY <2>3, <3>1, <3>2 DEF OneWriteAtATime
  <2>7. OrderInv'
    <3> DEFINE d == delivered[s]
               q == queue_[s]
               p == posted[s]
    <3>1. d \in Seq(Versions) /\ q \in Seq(Versions) /\ p \in Seq(Versions) /\ p # <<>>
      BY <1>1, <2>3
    <3>2. m = Head(p)
      BY DEF m
    <3>3. /\ delivered'[s] = d /\ queue_'[s] = q \o <<m>>
          /\ posted'[s] = Tail(p) /\ posts'[s] = (d \o q) \o p
      BY <1>3, <2>2, <2>3 DEF TypeOK
    <3> HIDE DEF d, q, p
    <3>4. posts'[s] = (delivered'[s] \o queue_'[s]) \o posted'[s]
      <4>1. (d \o (q \o <<Head(p)>>)) \o Tail(p) = (d \o q) \o p
        BY <3>1, SendOrder, SMTT(60)
      <4>2. QED
        BY <3>2, <3>3, <4>1
    <3>5. ASSUME NEW r \in Sessions, r # s
          PROVE  posts'[r] = (delivered'[r] \o queue_'[r]) \o posted'[r]
      BY <2>3, <3>5 DEF TypeOK, OrderInv
    <3>6. QED
      BY <3>4, <3>5 DEF OrderInv
  <2>8. QED
    BY <2>4, <2>5, <2>6, <2>7
<1>5. CASE OnWrite(s)
  <2> DEFINE m == Head(queue_[s])
  <2>1. writes[s] = 1 /\ queue_[s] # <<>>
    BY <1>1, <1>2, <1>5 DEF OnWrite
  <2>2. /\ m \in Versions /\ Tail(queue_[s]) \in Seq(Versions)
        /\ Len(Tail(queue_[s])) = Len(queue_[s]) - 1
    BY <1>1, <2>1, HeadTailProperties
  <2>3. /\ Append(delivered[s], m) \in Seq(Versions)
        /\ Append(delivered[s], m) = delivered[s] \o <<m>>
    BY <1>1, <2>2, AppendProperties, AppendIsConcat
  <2>4. /\ delivered' = [delivered EXCEPT ![s] = Append(delivered[s], m)]
        /\ queue_' = [queue_ EXCEPT ![s] = Tail(queue_[s])]
        /\ writes' = [writes EXCEPT ![s] = IF Len(queue_[s]) > 1 THEN writes[s]
                                          ELSE writes[s] - 1]
        /\ UNCHANGED <<threadVars, busVars, life, pending, welcome, wmsg, posted, broken,
                       version, posts, mixed>>
    BY <1>5 DEF OnWrite
  <2> HIDE DEF m
  <2>5. /\ writes'[s] = IF Len(queue_[s]) > 1 THEN 1 ELSE 0
        /\ \A r \in Sessions \ {s} : queue_'[r] = queue_[r] /\ writes'[r] = writes[r]
        /\ writes' \in [Sessions -> Nat]
    BY <2>1, <2>4 DEF TypeOK
  <2>6. TypeOK'
    BY <1>1, <2>2, <2>3, <2>4, <2>5 DEF TypeOK, threadVars, busVars
  <2>7. LifeInv'
    BY <2>1, <2>4, <2>5 DEF LifeInv, Held, HeldBesides, threadVars, busVars
  <2>8. OneWriteAtATime'
    <3>1. queue_'[s] = Tail(queue_[s])
      BY <2>4 DEF TypeOK
    <3>2. Len(queue_[s]) > 1 <=> queue_'[s] # <<>>
      <4> DEFINE l == Tail(queue_[s])
      <4>1. Len(queue_[s]) \in Nat \ {0}
        BY <1>1, <2>1, EmptySeq
      <4>2. l \in Seq(Versions) /\ Len(l) = Len(queue_[s]) - 1
        BY <2>2
      <4> HIDE DEF l
      <4>3. l = <<>> <=> Len(l) = 0
        BY <4>2, EmptyLen
      <4>4. queue_'[s] = l
        BY <3>1 DEF l
      <4>5. QED
        BY <4>1, <4>2, <4>3, <4>4
    <3>3. QED
      BY <2>4, <2>5, <3>2 DEF OneWriteAtATime
  <2>9. OrderInv'
    <3> DEFINE d == delivered[s]
               q == queue_[s]
    <3>1. /\ d \in Seq(Versions) /\ q \in Seq(Versions) /\ q # <<>> /\ m = Head(q)
          /\ delivered'[s] = d \o <<m>> /\ queue_'[s] = Tail(q)
          /\ posted'[s] = posted[s] /\ posts'[s] = (d \o q) \o posted[s]
      BY <1>1, <1>3, <2>1, <2>3, <2>4 DEF TypeOK, m
    <3> HIDE DEF d, q
    <3>2. posts'[s] = (delivered'[s] \o queue_'[s]) \o posted'[s]
      <4>1. (d \o <<Head(q)>>) \o Tail(q) = d \o q
        BY <3>1, WriteOrder
      <4>2. QED
        BY <3>1, <4>1
    <3>3. ASSUME NEW r \in Sessions, r # s
          PROVE  posts'[r] = (delivered'[r] \o queue_'[r]) \o posted'[r]
      BY <2>4, <3>3 DEF TypeOK, OrderInv
    <3>4. QED
      BY <3>2, <3>3 DEF OrderInv
  <2>10. QED
    BY <2>6, <2>7, <2>8, <2>9
<1>6. CASE OnWriteError(s)
  <2>1. /\ writes[s] > 0 /\ s \in broken
        /\ writes' = [writes EXCEPT ![s] = writes[s] - 1]
        /\ UNCHANGED <<threadVars, busVars, life, pending, welcome, wmsg, posted, queue_,
                       broken, delivered, version, posts, mixed>>
    BY <1>6 DEF OnWriteError
  <2>2. /\ writes[s] = 1 /\ writes' \in [Sessions -> Nat] /\ writes'[s] = 0
        /\ \A r \in Sessions \ {s} : writes'[r] = writes[r]
    BY <1>1, <1>2, <2>1 DEF TypeOK
  <2>3. TypeOK'
    BY <2>1, <2>2 DEF TypeOK, threadVars, busVars
  <2>4. LifeInv'
    BY <2>1, <2>2 DEF LifeInv, Held, HeldBesides, threadVars, busVars
  <2>5. OneWriteAtATime'
    BY <2>1, <2>2 DEF OneWriteAtATime
  <2>6. OrderInv'
    BY <2>1 DEF OrderInv
  <2>7. QED
    BY <2>3, <2>4, <2>5, <2>6
<1>7. QED
  BY <1>4, <1>5, <1>6 DEF Writing

(* A change by a command or a ping: the ping has its message by then.      *)
Changes(t) ==
  Change(t) /\ msg' = IF t \in Pingers THEN [msg EXCEPT ![t] = version + 1] ELSE msg

(* The handler of a command and the worker's ping change it so.            *)
LEMMA ChangeCases ==
  /\ \A s \in Sessions : OnRead(s) => Changes(s)
  /\ \A t \in Pingers : ChangeByPing(t) => Changes(t)
BY ThreadsAssumption DEF OnRead, ChangeByPing, Changes

(* The steps of a broadcast, but for the one that calls send().            *)
LEMMA BroadcastingStep ==
  ASSUME IInv, NEW t \in Threads,
         \/ Changes(t) \/ Compose(t) \/ Snapshot(t) \/ LockWeak(t) \/ Release(t)
         \/ Destroyed(t) \/ Finish(t)
  PROVE  IInv'
<1> USE DEF IInv
<1>1. UNCHANGED <<sessionVars, sessions_, broken>>
  BY DEF Changes, Change, Compose, Snapshot, LockWeak, Release, Destroyed, Finish, busVars
<1>2. OneWriteAtATime' /\ OrderInv'
  BY <1>1 DEF OneWriteAtATime, OrderInv, sessionVars
<1>3. CASE Changes(t)
  <2>1. TypeOK'
    BY <1>1, <1>3, VersionAssumption DEF Changes, Change, TypeOK, Versions, sessionVars, busVars
  <2>2. LifeInv'
    BY <1>1, <1>3 DEF Changes, Change, TypeOK, LifeInv, Held, HeldBesides, sessionVars
  <2>3. QED
    BY <1>2, <2>1, <2>2
<1>4. CASE Compose(t)
  <2>1. TypeOK'
    BY <1>1, <1>4 DEF Compose, TypeOK, sessionVars
  <2>2. LifeInv'
    BY <1>1, <1>4 DEF Compose, TypeOK, LifeInv, Held, HeldBesides, sessionVars
  <2>3. QED
    BY <1>2, <2>1, <2>2
<1>5. CASE Snapshot(t)
  <2>1. TypeOK'
    BY <1>1, <1>5 DEF Snapshot, TypeOK, sessionVars
  <2>2. LifeInv'
    BY <1>1, <1>5 DEF Snapshot, TypeOK, LifeInv, Held, HeldBesides, sessionVars
  <2>3. QED
    BY <1>2, <2>1, <2>2
<1>6. CASE LockWeak(t)
  <2>1. PICK s \in list[t] :
          /\ list' = [list EXCEPT ![t] = @ \ {s}]
          /\ IF Held(s)
             THEN /\ hold' = [hold EXCEPT ![t] = s]
                  /\ bpc' = [bpc EXCEPT ![t] = "post"]
             ELSE UNCHANGED <<hold, bpc>>
    BY <1>6 DEF LockWeak
  <2>2. s \in Sessions /\ UNCHANGED <<sessionVars, busVars, broken, version, msg, mixed>>
    BY <1>6 DEF LockWeak, TypeOK
  <2>3. CASE Held(s)
    <3>1. TypeOK'
      BY <2>1, <2>2, <2>3, ZenonT(60) DEF TypeOK, sessionVars, busVars
    <3>2. life[s] = "alive"
      BY <2>2, <2>3 DEF LifeInv
    <3>3. /\ hold'[t] = s
          /\ \A u \in Threads \ {t} : hold'[u] = hold[u] /\ bpc'[u] = bpc[u]
      BY <2>1, <2>3 DEF TypeOK
    <3>4. \A r \in Sessions : Held(r)' => Held(r) \/ r = s
      BY <2>2, <3>3 DEF Held, HeldBesides, sessionVars
    <3>5. LifeInv'
      BY <2>2, <3>2, <3>3, <3>4 DEF LifeInv, sessionVars, busVars
    <3>6. QED
      BY <1>2, <3>1, <3>5
  <2>4. CASE ~Held(s)
    <3>1. TypeOK'
      BY <2>1, <2>2, <2>4 DEF TypeOK, sessionVars, busVars
    <3>2. LifeInv'
      BY <2>1, <2>2, <2>4 DEF LifeInv, Held, HeldBesides, sessionVars, busVars
    <3>3. QED
      BY <1>2, <3>1, <3>2
  <2>5. QED
    BY <2>3, <2>4
<1>7. CASE Release(t)
  <2>1. TypeOK'
    BY <1>1, <1>7, ZenonT(60) DEF Release, TypeOK, sessionVars, busVars
  <2>2. /\ \A u \in Threads \ {t} : hold'[u] = hold[u] /\ bpc'[u] = bpc[u]
        /\ bpc[t] = "release"
        /\ bpc'[t] = "next" \/ (bpc'[t] = "destroy" /\ hold'[t] = hold[t])
        /\ UNCHANGED <<sessionVars, busVars>>
    BY <1>7 DEF Release, TypeOK
  <2>3. \A r \in Sessions : Held(r)' => Held(r)
    BY <2>2 DEF Held, HeldBesides, sessionVars
  <2>4. LifeInv'
    BY <2>2, <2>3 DEF LifeInv, sessionVars, busVars
  <2>5. QED
    BY <1>2, <2>1, <2>4
<1>8. CASE Destroyed(t)
  <2>1. TypeOK'
    BY <1>1, <1>8 DEF Destroyed, TypeOK, sessionVars, busVars
  <2>2. LifeInv'
    BY <1>1, <1>8 DEF Destroyed, TypeOK, LifeInv, Held, HeldBesides, sessionVars
  <2>3. QED
    BY <1>2, <2>1, <2>2
<1>9. CASE Finish(t)
  <2>1. TypeOK'
    BY <1>1, <1>9 DEF Finish, TypeOK, sessionVars, busVars
  <2>2. LifeInv'
    BY <1>1, <1>9 DEF Finish, TypeOK, LifeInv, Held, HeldBesides, sessionVars
  <2>3. QED
    BY <1>2, <2>1, <2>2
<1>10. QED
  BY <1>3, <1>4, <1>5, <1>6, <1>7, <1>8, <1>9

(* The broadcasting thread posts its message to the session it holds.      *)
LEMMA SendStep ==
  ASSUME IInv, NEW t \in Threads, Send(t)
  PROVE  IInv'
<1> USE DEF IInv
<1> DEFINE s == hold[t]
<1>1. s \in Sessions /\ msg[t] \in Versions
  BY DEF Send, TypeOK, LifeInv
<1>2. Put(s, msg[t]) /\ UNCHANGED <<queue_, delivered>>
  BY DEF Send
<1>3. /\ bpc[t] = "post" /\ bpc' = [bpc EXCEPT ![t] = "release"]
      /\ UNCHANGED <<busVars, life, pending, welcome, wmsg, queue_, writes, broken,
                     delivered, version, msg, list, hold, mixed>>
  BY DEF Send
<1> HIDE DEF s
<1>4. /\ posted' \in [Sessions -> Seq(Versions)] /\ posts' \in [Sessions -> Seq(Versions)]
      /\ \A r \in Sessions \ {s} : posted'[r] = posted[r]
      /\ OrderInv'
  BY <1>1, <1>2, PutStep
<1>5. TypeOK'
  BY <1>3, <1>4 DEF TypeOK, busVars
<1>6. LifeInv'
  <2>1. Held(s)
    <3>1. t # NoSession
      BY ThreadsAssumption DEF Threads
    <3>2. QED
      BY <1>1, <1>3, <3>1 DEF Held, HeldBesides, s
  <2>2. life[s] = "alive"
    BY <1>1, <2>1 DEF LifeInv
  <2>3. /\ hold' = hold
        /\ \A u \in Threads \ {t} : bpc'[u] = bpc[u]
    BY <1>3 DEF TypeOK
  <2>4. \A r \in Sessions : Held(r)' => Held(r) \/ r = s
    BY <1>3, <1>4, <2>3 DEF Held, HeldBesides, s
  <2>5. QED
    BY <1>3, <2>2, <2>3, <2>4 DEF LifeInv, busVars
<1>7. OneWriteAtATime'
  BY <1>3 DEF OneWriteAtATime
<1>8. QED
  BY <1>4, <1>5, <1>6, <1>7

(* Every step keeps the invariant.                                         *)
LEMMA InvStep == IInv /\ [Next]_vars => IInv'
<1> SUFFICES ASSUME IInv, [Next]_vars
             PROVE  IInv'
  OBVIOUS
<1>1. ASSUME NEW s \in Sessions,
             \/ Upgrade(s) \/ Disconnect(s) \/ OnRead(s)
             \/ Reading(s) \/ Welcoming(s) \/ Writing(s) \/ Destroy(s)
      PROVE  IInv'
  <2>1. CASE OnRead(s)
    BY <2>1, ChangeCases, BroadcastingStep DEF Threads
  <2>2. QED
    BY <1>1, <2>1, ReadingStep, WelcomingStep, WritingStep
<1>2. ASSUME NEW t \in Pingers, ChangeByPing(t)
      PROVE  IInv'
  BY <1>2, ChangeCases, BroadcastingStep DEF Threads
<1>3. ASSUME NEW t \in Threads, Broadcasting(t)
      PROVE  IInv'
  BY <1>3, BroadcastingStep, SendStep DEF Broadcasting
<1>4. CASE UNCHANGED vars
  <2>1. UNCHANGED <<sessionVars, threadVars, busVars, broken, version, mixed>>
    BY <1>4 DEF vars
  <2>2. TypeOK' /\ OrderInv' /\ OneWriteAtATime'
    BY <2>1 DEF IInv, TypeOK, OrderInv, OneWriteAtATime, sessionVars, threadVars, busVars
  <2>3. LifeInv'
    BY <2>1 DEF IInv, LifeInv, Held, HeldBesides, sessionVars, threadVars, busVars
  <2>4. QED
    BY <2>2, <2>3 DEF IInv
<1>5. QED
  BY <1>1, <1>2, <1>3, <1>4 DEF Next, Over

(* The invariant holds throughout.                                         *)
LEMMA Invariance == Spec => []IInv
BY InvInit, InvStep, PTL DEF Spec

-----------------------------------------------------------------------------
(* The theorems                                                            *)

(* Whoever walks through the raw pointers of the bus, or has taken a       *)
(* shared_ptr from one, meets objects in being only: the destructor waits  *)
(* for the exclusive lock.                                                 *)
THEOREM NoDanglingTheorem == Spec => []NoDanglingSession
<1>1. IInv => NoDanglingSession
  <2> SUFFICES ASSUME IInv
               PROVE  NoDanglingSession
    OBVIOUS
  <2>1. ASSUME NEW t \in Threads, bpc[t] \in {"post", "release"}
        PROVE  life[hold[t]] = "alive"
    <3>1. hold[t] \in Sessions
      BY <2>1 DEF IInv, LifeInv
    <3>2. t # NoSession
      BY ThreadsAssumption DEF Threads
    <3>3. Held(hold[t])
      BY <2>1, <3>2 DEF Held, HeldBesides
    <3>4. QED
      BY <3>1, <3>3 DEF IInv, LifeInv
  <2>2. QED
    BY <2>1 DEF IInv, LifeInv, NoDanglingSession
<1>2. QED
  BY <1>1, Invariance, PTL

(* A session never has two writes under way, and none is forgotten while   *)
(* its connection lasts: the queue tells on_send whether to begin one, and *)
(* on_write whether to go on.                                              *)
THEOREM OneWriteTheorem == Spec => []OneWriteAtATime
<1>1. IInv => OneWriteAtATime
  BY DEF IInv
<1>2. QED
  BY <1>1, Invariance, PTL

(* Nothing is lost, repeated or reordered on the way to a client: every    *)
(* step is one of MessageChannel's, or none.  That all is delivered while  *)
(* the connection lasts is left to the runs.                               *)
THEOREM ChannelSafety == Spec => Channel!ChannelInit /\ [][Channel!ChannelNext]_Channel!channelVars
<1>1. Init => Channel!ChannelInit
  BY DEF Init, Channel!ChannelInit
<1>2. IInv /\ [Next]_vars => [Channel!ChannelNext]_Channel!channelVars
  <2> SUFFICES ASSUME IInv, [Next]_vars
               PROVE  Channel!ChannelNext \/ UNCHANGED <<posts, delivered, broken>>
    BY DEF Channel!channelVars
  <2>1. ASSUME NEW s \in Sessions, NEW m \in Versions, Put(s, m),
               UNCHANGED <<delivered, broken>>
        PROVE  Channel!ChannelNext
    <3>1. Channel!Send(s)
      BY <2>1 DEF Put, Channel!Send
    <3>2. QED
      BY <3>1 DEF Channel!ChannelNext
  <2>2. ASSUME NEW s \in Sessions, WelcomeSend(s)
        PROVE  Channel!ChannelNext
    <3>1. wmsg[s] \in Versions
      BY DEF IInv, TypeOK
    <3>2. QED
      BY <2>1, <2>2, <3>1 DEF WelcomeSend
  <2>3. ASSUME NEW t \in Threads, Send(t)
        PROVE  Channel!ChannelNext
    <3>1. hold[t] \in Sessions /\ msg[t] \in Versions
      BY <2>3 DEF Send, IInv, TypeOK, LifeInv
    <3>2. QED
      BY <2>1, <2>3, <3>1 DEF Send
  <2>4. ASSUME NEW s \in Sessions, Disconnect(s)
        PROVE  Channel!ChannelNext
    <3>1. Channel!Break(s)
      BY <2>4 DEF Disconnect, sessionVars, Channel!Break
    <3>2. QED
      BY <3>1 DEF Channel!ChannelNext
  <2>5. ASSUME NEW s \in Sessions, OnWrite(s)
        PROVE  Channel!ChannelNext
    <3> DEFINE d == delivered[s]
               q == queue_[s]
               p == posted[s]
    <3>1. /\ d \in Seq(Versions) /\ q \in Seq(Versions) /\ p \in Seq(Versions)
          /\ posts[s] = (d \o q) \o p /\ s \notin broken
          /\ delivered' = [delivered EXCEPT ![s] = Append(d, Head(q))]
          /\ UNCHANGED <<posts, broken>>
      BY <2>5 DEF OnWrite, IInv, TypeOK, OrderInv
    <3>2. q # <<>>
      BY <2>5 DEF OnWrite, IInv, TypeOK, OneWriteAtATime
    <3> HIDE DEF d, q, p
    <3>3. Len(d) < Len((d \o q) \o p) /\ ((d \o q) \o p)[Len(d) + 1] = Head(q)
      BY <3>1, <3>2, NextToDeliver
    <3>4. Channel!Deliver(s)
      BY <3>1, <3>3 DEF Channel!Deliver, d
    <3>5. QED
      BY <3>4 DEF Channel!ChannelNext
  <2>6. ASSUME NEW s \in Sessions,
               \/ Upgrade(s) \/ OnAccept(s) \/ OnReadError(s) \/ Destroy(s)
               \/ WelcomeCompose(s) \/ OnSend(s) \/ OnWriteError(s)
        PROVE  UNCHANGED <<posts, delivered, broken>>
    BY <2>6 DEF Upgrade, OnAccept, OnReadError, Destroy, WelcomeCompose, OnSend, OnWriteError
  <2>7. ASSUME NEW t \in Threads,
               \/ Changes(t) \/ Compose(t) \/ Snapshot(t) \/ LockWeak(t) \/ Release(t)
               \/ Destroyed(t) \/ Finish(t)
        PROVE  UNCHANGED <<posts, delivered, broken>>
    BY <2>7 DEF Changes, Change, Compose, Snapshot, LockWeak, Release, Destroyed, Finish, sessionVars
  <2>8. CASE UNCHANGED vars
    BY <2>8 DEF vars, sessionVars
  <2>9. ASSUME NEW s \in Sessions,
               \/ Upgrade(s) \/ Disconnect(s) \/ OnRead(s)
               \/ Reading(s) \/ Welcoming(s) \/ Writing(s) \/ Destroy(s)
        PROVE  Channel!ChannelNext \/ UNCHANGED <<posts, delivered, broken>>
    BY <2>2, <2>4, <2>5, <2>6, <2>7, <2>9, ChangeCases DEF Reading, Welcoming, Writing, Threads
  <2>10. QED
    BY <2>3, <2>7, <2>8, <2>9, ChangeCases DEF Next, Over, Broadcasting, Threads
<1>3. QED
  BY <1>1, <1>2, Invariance, PTL DEF Spec

-----------------------------------------------------------------------------
(* The status that the clients show                                        *)

(* What was given to send() last tells the current status.                 *)
Current(s) == posts[s] # <<>> /\ posts[s][Len(posts[s])] = version

(* The broadcast of thread t has yet to reach session s.                   *)
WillPost(t, s) ==
  \/ bpc[t] \in {"compose", "snapshot"}
  \/ bpc[t] \in {"next", "post", "release", "destroy"} /\ s \in list[t]
  \/ bpc[t] = "post" /\ hold[t] = s

(* A connected session that the bus knows is read from, hence held, and    *)
(* LockWeak does not pass it over.  Unless messages may overtake each      *)
(* other, whatever has its status and is not yet posted tells the current  *)
(* one; and if the session's last message does not, another will come.     *)
CurrentInv ==
  /\ \A s \in sessions_ : pending[s] # "none" \/ s \in broken
  /\ \A s \in Sessions \ mixed :
       /\ \A t \in Threads : HasStatus(t) => msg[t] = version
       /\ welcome[s] = "post" => wmsg[s] = version
  /\ \A s \in sessions_ \ (broken \cup mixed) :
       Current(s) \/ welcome[s] \in {"compose", "post"} \/ \E t \in Threads : WillPost(t, s)

(* A step that posts nothing and changes no status                         *)
LEMMA CurrentFrame ==
  ASSUME CurrentInv, UNCHANGED <<posts, version, mixed>>, broken \subseteq broken',
         \A s \in sessions_' : pending'[s] # "none" \/ s \in broken',
         \A s \in sessions_' : s \in sessions_ \/ welcome'[s] = "compose",
         \A s \in Sessions : welcome'[s] = "post" =>
           (welcome[s] = "post" /\ wmsg'[s] = wmsg[s]) \/ wmsg'[s] = version,
         \A s \in Sessions : welcome[s] \in {"compose", "post"} => welcome'[s] \in {"compose", "post"},
         sessions_ \subseteq Sessions,
         \A t \in Threads : HasStatus(t)' =>
           (HasStatus(t) /\ msg'[t] = msg[t]) \/ msg'[t] = version,
         \A s \in sessions_ \ broken, t \in Threads : WillPost(t, s) => WillPost(t, s)'
  PROVE  CurrentInv'
<1>1. \A s \in Sessions \ mixed' :
        /\ \A t \in Threads : HasStatus(t)' => msg'[t] = version'
        /\ welcome'[s] = "post" => wmsg'[s] = version'
  BY DEF CurrentInv
<1>2. ASSUME NEW s \in sessions_' \ (broken' \cup mixed')
      PROVE  Current(s)' \/ welcome'[s] \in {"compose", "post"} \/ \E t \in Threads : WillPost(t, s)'
  <2>1. CASE s \in sessions_
    <3>1. s \in sessions_ \ (broken \cup mixed)
      BY <2>1
    <3>2. Current(s) => Current(s)'
      BY DEF Current
    <3>3. QED
      BY <3>1, <3>2 DEF CurrentInv
  <2>2. QED
    BY <2>1
<1>3. QED
  BY <1>1, <1>2 DEF CurrentInv

(* A message that tells the current status makes its session current.      *)
LEMMA PutCurrent ==
  ASSUME IInv, NEW s \in Sessions, NEW m \in Versions, Put(s, m), version' = version
  PROVE  /\ m = version => Current(s)'
         /\ \A r \in Sessions \ {s} : Current(r) => Current(r)'
<1>1. /\ posts \in [Sessions -> Seq(Versions)]
      /\ posts' = [posts EXCEPT ![s] = Append(@, m)]
  BY DEF IInv, TypeOK, Put
<1>2. posts'[s] = Append(posts[s], m) /\ \A r \in Sessions \ {s} : posts'[r] = posts[r]
  BY <1>1
<1>3. posts[s] \in Seq(Versions)
  BY <1>1
<1>4. Len(posts'[s]) = Len(posts[s]) + 1 /\ posts'[s][Len(posts[s]) + 1] = m /\ posts'[s] # <<>>
  BY <1>2, <1>3, AppendProperties
<1>5. QED
  BY <1>2, <1>4 DEF Current

(* There is no session yet.                                                *)
LEMMA CurrentInit == Init => CurrentInv
BY DEF Init, CurrentInv

(* The steps of a session, but for those that broadcast                    *)
LEMMA SessionCurrent ==
  ASSUME IInv, CurrentInv, NEW s \in Sessions,
         Upgrade(s) \/ Disconnect(s) \/ Reading(s) \/ Writing(s) \/ Destroy(s) \/ WelcomeCompose(s)
  PROVE  CurrentInv'
<1>1. TypeOK
  BY DEF IInv
<1>2. UNCHANGED <<posts, version, mixed, bpc, msg, list, hold>>
  BY DEF Upgrade, Disconnect, Reading, OnAccept, OnReadError, Writing, OnSend, OnWrite,
         OnWriteError, Destroy, WelcomeCompose, sessionVars, threadVars
<1>3. /\ \A r, t : WillPost(t, r) => WillPost(t, r)'
      /\ \A t : HasStatus(t)' => HasStatus(t) /\ msg'[t] = msg[t]
  BY <1>2 DEF WillPost, HasStatus
<1>4. CASE Upgrade(s)
  <2>1. /\ pending' = [pending EXCEPT ![s] = "accept"]
        /\ UNCHANGED <<sessions_, broken, welcome, wmsg>>
    BY <1>4 DEF Upgrade, busVars
  <2>2. \A r \in Sessions : pending'[r] = pending[r] \/ pending'[r] = "accept"
    BY <1>1, <2>1 DEF TypeOK
  <2>3. QED
    BY <1>1, <1>2, <1>3, <2>1, <2>2, CurrentFrame DEF TypeOK, CurrentInv
<1>5. CASE Disconnect(s) \/ Writing(s)
  <2>1. UNCHANGED <<sessions_, pending, welcome, wmsg>> /\ broken \subseteq broken'
    BY <1>5 DEF Disconnect, Writing, OnSend, OnWrite, OnWriteError, busVars, sessionVars
  <2>2. QED
    BY <1>1, <1>2, <1>3, <2>1, CurrentFrame DEF TypeOK, CurrentInv
<1>6. CASE OnAccept(s)
  <2>1. /\ sessions_' = sessions_ \cup {s} /\ pending' = [pending EXCEPT ![s] = "read"]
        /\ welcome' = [welcome EXCEPT ![s] = "compose"] /\ UNCHANGED <<broken, wmsg>>
    BY <1>6 DEF OnAccept
  <2>2. /\ pending'[s] = "read" /\ welcome'[s] = "compose"
        /\ \A r \in Sessions \ {s} : pending'[r] = pending[r] /\ welcome'[r] = welcome[r]
    BY <1>1, <2>1 DEF TypeOK
  <2>3. QED
    BY <1>1, <1>2, <1>3, <2>1, <2>2, CurrentFrame DEF TypeOK, CurrentInv
<1>7. CASE OnReadError(s)
  <2>1. s \in broken /\ pending' = [pending EXCEPT ![s] = "none"]
        /\ UNCHANGED <<sessions_, broken, welcome, wmsg>>
    BY <1>7 DEF OnReadError, busVars
  <2>2. \A r \in Sessions \ {s} : pending'[r] = pending[r]
    BY <1>1, <2>1 DEF TypeOK
  <2>3. QED
    BY <1>1, <1>2, <1>3, <2>1, <2>2, CurrentFrame DEF TypeOK, CurrentInv
<1>8. CASE Destroy(s)
  <2>1. sessions_' = sessions_ \ {s} /\ UNCHANGED <<pending, broken, welcome, wmsg>>
    BY <1>8 DEF Destroy
  <2>2. QED
    BY <1>1, <1>2, <1>3, <2>1, CurrentFrame DEF TypeOK, CurrentInv
<1>9. CASE WelcomeCompose(s)
  <2>1. /\ welcome' = [welcome EXCEPT ![s] = "post"] /\ wmsg' = [wmsg EXCEPT ![s] = version]
        /\ UNCHANGED <<sessions_, pending, broken>>
    BY <1>9 DEF WelcomeCompose, busVars
  <2>2. /\ welcome'[s] = "post" /\ wmsg'[s] = version
        /\ \A r \in Sessions \ {s} : welcome'[r] = welcome[r] /\ wmsg'[r] = wmsg[r]
    BY <1>1, <2>1 DEF TypeOK
  <2>3. QED
    BY <1>1, <1>2, <1>3, <2>1, <2>2, CurrentFrame DEF TypeOK, CurrentInv
<1>10. QED
  BY <1>4, <1>5, <1>6, <1>7, <1>8, <1>9 DEF Reading

(* The welcome, posted with the status it was composed with                *)
LEMMA WelcomeSendCurrent ==
  ASSUME IInv, CurrentInv, NEW s \in Sessions, WelcomeSend(s)
  PROVE  CurrentInv'
<1>1. TypeOK
  BY DEF IInv
<1>2. /\ welcome[s] = "post" /\ welcome' = [welcome EXCEPT ![s] = "done"]
      /\ Put(s, wmsg[s])
      /\ UNCHANGED <<bpc, msg, list, hold, sessions_, pending, wmsg, broken, version, mixed>>
  BY DEF WelcomeSend, threadVars, busVars
<1>3. welcome'[s] = "done" /\ \A r \in Sessions \ {s} : welcome'[r] = welcome[r]
  BY <1>1, <1>2 DEF TypeOK
<1>4. wmsg[s] \in Versions
  BY <1>1 DEF TypeOK
<1>5. /\ wmsg[s] = version => Current(s)'
      /\ \A r \in Sessions \ {s} : Current(r) => Current(r)'
  BY <1>2, <1>4, PutCurrent
<1>6. \A r, t : WillPost(t, r) => WillPost(t, r)'
  BY <1>2 DEF WillPost
<1>7. ASSUME NEW r \in sessions_ \ (broken \cup mixed)
      PROVE  Current(r)' \/ welcome'[r] \in {"compose", "post"} \/ \E t \in Threads : WillPost(t, r)'
  <2>1. r \in Sessions
    BY <1>1 DEF TypeOK
  <2>2. CASE r = s
    BY <1>2, <1>5, <2>1, <2>2 DEF CurrentInv
  <2>3. CASE r # s
    BY <1>3, <1>5, <1>6, <2>1, <2>3 DEF CurrentInv
  <2>4. QED
    BY <2>2, <2>3
<1>8. \A r \in Sessions \ mixed :
        /\ \A t \in Threads : HasStatus(t)' => msg'[t] = version
        /\ welcome'[r] = "post" => wmsg'[r] = version
  BY <1>2, <1>3 DEF CurrentInv, HasStatus
<1>9. QED
  BY <1>2, <1>7, <1>8 DEF CurrentInv

(* A change of the status has a broadcast to come.                         *)
LEMMA ChangeCurrent ==
  ASSUME IInv, CurrentInv, NEW t \in Threads, Changes(t)
  PROVE  CurrentInv'
<1>1. TypeOK
  BY DEF IInv
<1>2. /\ bpc' = [bpc EXCEPT ![t] = "compose"]
      /\ mixed' = {s \in Sessions : welcome[s] = "post" \/ \E u \in Threads : HasStatus(u)}
      /\ msg' = IF t \in Pingers THEN [msg EXCEPT ![t] = version + 1] ELSE msg
      /\ version' = version + 1
      /\ UNCHANGED <<welcome, wmsg, pending, posts, sessions_, broken, list, hold>>
  BY DEF Changes, Change, sessionVars, busVars
<1>3. /\ bpc'[t] = "compose" /\ \A u \in Threads \ {t} : bpc'[u] = bpc[u]
      /\ t \in Pingers => msg'[t] = version'
  BY <1>1, <1>2 DEF TypeOK
<1>4. ASSUME NEW s \in Sessions \ mixed'
      PROVE  /\ \A u \in Threads : HasStatus(u)' => msg'[u] = version'
             /\ welcome'[s] # "post"
  <2>1. welcome[s] # "post" /\ \A u \in Threads : ~HasStatus(u)
    BY <1>2
  <2>2. \A u \in Threads : HasStatus(u)' => u = t /\ t \in Pingers
    BY <1>3, <2>1 DEF HasStatus
  <2>3. QED
    BY <1>2, <1>3, <2>1, <2>2
<1>5. \A s : WillPost(t, s)'
  BY <1>3 DEF WillPost
<1>6. QED
  BY <1>2, <1>4, <1>5 DEF CurrentInv

(* The steps of a broadcast that neither change the status nor post        *)
LEMMA BroadcastingCurrent ==
  ASSUME IInv, CurrentInv, NEW t \in Threads,
         Compose(t) \/ Snapshot(t) \/ LockWeak(t) \/ Release(t) \/ Destroyed(t) \/ Finish(t)
  PROVE  CurrentInv'
<1>1. TypeOK /\ LifeInv
  BY DEF IInv
<1>2. /\ UNCHANGED <<posts, version, mixed, broken, sessions_, pending, welcome, wmsg>>
      /\ sessions_ \subseteq Sessions
  BY <1>1 DEF Compose, Snapshot, LockWeak, Release, Destroyed, Finish, sessionVars, busVars, TypeOK
<1>3. SUFFICES /\ \A u \in Threads : HasStatus(u)' =>
                    (HasStatus(u) /\ msg'[u] = msg[u]) \/ msg'[u] = version
               /\ \A s \in sessions_ \ broken, u \in Threads : WillPost(u, s) => WillPost(u, s)'
  BY <1>2, CurrentFrame DEF CurrentInv
<1>4. CASE Compose(t)
  <2>1. /\ bpc[t] = "compose" /\ bpc'[t] = "snapshot"
        /\ msg'[t] = IF t \in Pingers THEN msg[t] ELSE version
        /\ \A u \in Threads \ {t} : bpc'[u] = bpc[u] /\ msg'[u] = msg[u]
        /\ UNCHANGED <<list, hold>>
    BY <1>1, <1>4 DEF Compose, TypeOK
  <2>2. QED
    BY <2>1 DEF WillPost, HasStatus
<1>5. CASE Snapshot(t)
  <2>1. /\ bpc[t] = "snapshot" /\ bpc'[t] = "next" /\ list'[t] = sessions_
        /\ \A u \in Threads \ {t} : bpc'[u] = bpc[u] /\ list'[u] = list[u]
        /\ UNCHANGED <<msg, hold>>
    BY <1>1, <1>5 DEF Snapshot, TypeOK
  <2>2. QED
    BY <2>1 DEF WillPost, HasStatus
<1>6. CASE LockWeak(t)
  <2>1. PICK s \in list[t] :
          /\ list' = [list EXCEPT ![t] = @ \ {s}]
          /\ IF Held(s)
             THEN /\ hold' = [hold EXCEPT ![t] = s]
                  /\ bpc' = [bpc EXCEPT ![t] = "post"]
             ELSE UNCHANGED <<hold, bpc>>
    BY <1>6 DEF LockWeak
  <2>2. bpc[t] = "next" /\ msg' = msg /\ s \in Sessions
    BY <1>1, <1>6, <2>1 DEF LockWeak, TypeOK
  <2>3. /\ list'[t] = list[t] \ {s} /\ \A u \in Threads \ {t} : list'[u] = list[u]
        /\ \A u \in Threads \ {t} : hold'[u] = hold[u] /\ bpc'[u] = bpc[u]
        /\ Held(s) => hold'[t] = s /\ bpc'[t] = "post"
        /\ ~Held(s) => bpc'[t] = "next"
    BY <1>1, <2>1, <2>2 DEF TypeOK
  <2>4. s \in sessions_ \ broken => Held(s)
    BY DEF CurrentInv, Held, HeldBesides
  <2>5. ASSUME NEW r \in sessions_ \ broken, WillPost(t, r)
        PROVE  WillPost(t, r)'
    <3>1. r \in list[t]
      BY <2>2, <2>5 DEF WillPost, HasStatus
    <3>2. CASE r = s
      BY <2>3, <2>4, <3>2 DEF WillPost, HasStatus
    <3>3. CASE r # s
      BY <2>3, <3>1, <3>3 DEF WillPost, HasStatus
    <3>4. QED
      BY <3>2, <3>3
  <2>6. QED
    BY <2>2, <2>3, <2>5 DEF WillPost, HasStatus
<1>7. CASE Release(t) \/ Destroyed(t)
  <2>1. /\ bpc[t] \in {"release", "destroy"} /\ bpc'[t] \in {"next", "destroy"}
        /\ \A u \in Threads \ {t} : bpc'[u] = bpc[u] /\ hold'[u] = hold[u]
        /\ UNCHANGED <<msg, list>>
    BY <1>1, <1>7 DEF Release, Destroyed, TypeOK
  <2>2. QED
    BY <2>1 DEF WillPost, HasStatus
<1>8. CASE Finish(t)
  <2>1. /\ bpc[t] = "next" /\ list[t] = {} /\ bpc'[t] = "idle"
        /\ \A u \in Threads \ {t} : bpc'[u] = bpc[u]
        /\ UNCHANGED <<msg, list, hold>>
    BY <1>1, <1>8 DEF Finish, TypeOK
  <2>2. QED
    BY <2>1 DEF WillPost, HasStatus
<1>9. QED
  BY <1>4, <1>5, <1>6, <1>7, <1>8

(* A broadcast status, posted to one session                               *)
LEMMA SendCurrent ==
  ASSUME IInv, CurrentInv, NEW t \in Threads, Send(t)
  PROVE  CurrentInv'
<1>1. TypeOK /\ LifeInv
  BY DEF IInv
<1>2. /\ bpc[t] = "post" /\ bpc' = [bpc EXCEPT ![t] = "release"]
      /\ Put(hold[t], msg[t])
      /\ UNCHANGED <<sessions_, pending, welcome, wmsg, broken, version, msg, list, hold, mixed>>
  BY DEF Send, busVars
<1>3. bpc'[t] = "release" /\ \A u \in Threads \ {t} : bpc'[u] = bpc[u]
  BY <1>1, <1>2 DEF TypeOK
<1>4. hold[t] \in Sessions /\ msg[t] \in Versions
  BY <1>1, <1>2 DEF LifeInv, TypeOK
<1>5. /\ msg[t] = version => Current(hold[t])'
      /\ \A r \in Sessions \ {hold[t]} : Current(r) => Current(r)'
  BY <1>2, <1>4, PutCurrent
<1>6. \A r, u : r # hold[t] /\ WillPost(u, r) /\ u \in Threads => WillPost(u, r)'
  BY <1>2, <1>3 DEF WillPost
<1>7. ASSUME NEW r \in sessions_ \ (broken \cup mixed)
      PROVE  Current(r)' \/ welcome'[r] \in {"compose", "post"} \/ \E u \in Threads : WillPost(u, r)'
  <2>1. r \in Sessions
    BY <1>1 DEF TypeOK
  <2>2. CASE r = hold[t]
    BY <1>2, <1>5, <2>1, <2>2 DEF CurrentInv, HasStatus
  <2>3. CASE r # hold[t]
    BY <1>2, <1>5, <1>6, <2>1, <2>3 DEF CurrentInv
  <2>4. QED
    BY <2>2, <2>3
<1>8. \A r \in Sessions \ mixed :
        /\ \A u \in Threads : HasStatus(u)' => msg'[u] = version
        /\ welcome'[r] = "post" => wmsg'[r] = version
  <2>1. \A u \in Threads : HasStatus(u)' => HasStatus(u)
    BY <1>2, <1>3 DEF HasStatus
  <2>2. QED
    BY <1>2, <2>1 DEF CurrentInv
<1>9. QED
  BY <1>2, <1>7, <1>8 DEF CurrentInv

(* Every step keeps the newest status shown or on its way.                 *)
LEMMA CurrentStep == IInv /\ CurrentInv /\ [Next]_vars => CurrentInv'
<1> SUFFICES ASSUME IInv, CurrentInv, [Next]_vars
             PROVE  CurrentInv'
  OBVIOUS
<1>1. ASSUME NEW s \in Sessions,
             \/ Upgrade(s) \/ Disconnect(s) \/ OnRead(s)
             \/ Reading(s) \/ Welcoming(s) \/ Writing(s) \/ Destroy(s)
      PROVE  CurrentInv'
  BY <1>1, SessionCurrent, WelcomeSendCurrent, ChangeCurrent, ChangeCases DEF Welcoming, Threads
<1>2. ASSUME NEW t \in Pingers, ChangeByPing(t)
      PROVE  CurrentInv'
  BY <1>2, ChangeCurrent, ChangeCases DEF Threads
<1>3. ASSUME NEW t \in Threads, Broadcasting(t)
      PROVE  CurrentInv'
  BY <1>3, BroadcastingCurrent, SendCurrent DEF Broadcasting
<1>4. CASE UNCHANGED vars
  <2>1. UNCHANGED <<sessions_, pending, welcome, wmsg, broken, posts, version, mixed,
                    bpc, msg, list, hold>>
    BY <1>4 DEF vars, sessionVars, threadVars, busVars
  <2>2. /\ \A r, u : WillPost(u, r) => WillPost(u, r)'
        /\ \A u : HasStatus(u)' => HasStatus(u) /\ msg'[u] = msg[u]
    BY <2>1 DEF WillPost, HasStatus
  <2>3. QED
    BY <2>1, <2>2, CurrentFrame DEF IInv, TypeOK, CurrentInv
<1>5. QED
  BY <1>1, <1>2, <1>3, <1>4 DEF Next, Over

(* Once everything is delivered, every connected client of any number      *)
(* shows the current status, unless messages overtook each other:          *)
(* a session is registered before its welcome message is composed, and a   *)
(* connected one is held by its read, so no broadcast passes it over.      *)
THEOREM CurrentTheorem == Spec => []ClientIsCurrent
<1>1. IInv /\ CurrentInv => ClientIsCurrent
  <2> SUFFICES ASSUME IInv, CurrentInv, NEW s \in sessions_, s \notin broken, s \notin mixed,
                      welcome[s] = "done", posted[s] = <<>>, queue_[s] = <<>>,
                      \A t \in Threads : bpc[t] = "idle"
               PROVE  delivered[s] # <<>> /\ delivered[s][Len(delivered[s])] = version
    BY DEF ClientIsCurrent
  <2>1. Current(s)
    BY DEF CurrentInv, WillPost
  <2>2. s \in Sessions /\ delivered[s] \in Seq(Versions)
    BY DEF IInv, TypeOK
  <2>3. posts[s] = (delivered[s] \o <<>>) \o <<>>
    BY <2>2 DEF IInv, OrderInv
  <2>4. delivered[s] \o <<>> = delivered[s]
    BY <2>2, ConcatEmptySeq
  <2>5. posts[s] = delivered[s]
    BY <2>3, <2>4
  <2>6. QED
    BY <2>1, <2>5 DEF Current
<1>2. QED
  BY <1>1, InvInit, InvStep, CurrentInit, CurrentStep, PTL DEF Spec

=============================================================================
