--------------------------- MODULE FrontEndProofs ---------------------------
(* Proofs about the web page, for any number of ping threads, runs,        *)
(* servers and reloads.                                                    *)
EXTENDS FrontEnd, Integers, SequenceTheorems, TLAPS

Message == [id : Int, kpi : BOOLEAN, run : Nat, nr : Nat]

TypeInv ==
  /\ chart \subseteq [run : Nat, nr : Nat, known : BOOLEAN]
  /\ calculationId \in Int
  /\ inbox \in Seq(Message)
  /\ base \in Nat /\ run \in Nat /\ sent \in Nat
  /\ ping \in [Pings -> [step : {"idle", "compose", "tick", "kpi"}, run : Nat, told : Nat]]
  /\ seen \subseteq Nat

(* A ping belongs to a run of this server, and names one.                  *)
PingInv ==
  /\ \A t \in Pings :
       /\ ping[t].step # "idle" => up /\ base < ping[t].run /\ ping[t].run <= run
       /\ ping[t].step \in {"tick", "kpi"} => base < ping[t].told /\ ping[t].told <= run

(* What a page that is not older than the server has received, and what is *)
(* on its way to it, is of runs of this server; a KPI that was broadcast   *)
(* in time comes before everything that later runs broadcast.              *)
OrderInv ==
  ~old =>
    /\ \A i \in 1..Len(inbox) :
         /\ base < inbox[i].run /\ inbox[i].run <= run
         /\ ~inbox[i].kpi => inbox[i].id = CalcId(inbox[i].run)
         /\ inbox[i].kpi => inbox[i].id = 0
    /\ \A i, j \in 1..Len(inbox) :
         i < j /\ inbox[j].kpi /\ inbox[j].nr # 0 => inbox[i].run <= inbox[j].run
    /\ \A s \in seen :
         /\ base < s /\ s <= run
         /\ \A j \in 1..Len(inbox) : inbox[j].kpi /\ inbox[j].nr # 0 => s <= inbox[j].run

(* Since it has known of a run, its chart has no such KPI of an earlier    *)
(* one.                                                                    *)
ChartInv ==
  ~old =>
    /\ \A a \in chart : base < a.run /\ (a.known => a.run \in seen)
    /\ \A a \in chart, s \in seen : a.nr # 0 => s <= a.run
    /\ calculationId # 0 => \E s \in seen : calculationId = CalcId(s)

OneRunInv == TypeInv /\ PingInv /\ OrderInv /\ ChartInv

-----------------------------------------------------------------------------
(* Lemmas on the inbox                                                     *)

(* The inbox once its first message is read                                *)
LEMMA Received ==
  ASSUME NEW s \in Seq(Message), s # <<>>
  PROVE  /\ Head(s) \in Message /\ Head(s) = s[1] /\ 1 \in 1..Len(s)
         /\ Tail(s) \in Seq(Message) /\ Len(Tail(s)) = Len(s) - 1 /\ Len(s) \in Nat \ {0}
         /\ \A i \in 1..Len(Tail(s)) : i + 1 \in 1..Len(s) /\ Tail(s)[i] = s[i + 1] /\ 1 < i + 1
<1>1. Len(s) \in Nat \ {0}
  BY EmptySeq
<1>2. /\ Head(s) \in Message /\ Head(s) = s[1]
      /\ Tail(s) \in Seq(Message) /\ Len(Tail(s)) = Len(s) - 1
      /\ \A i \in 1..Len(Tail(s)) : Tail(s)[i] = s[i + 1]
  BY HeadTailProperties
<1>3. 1 \in 1..Len(s) /\ \A i \in 1..Len(Tail(s)) : i + 1 \in 1..Len(s) /\ 1 < i + 1
  BY ONLY <1>1, <1>2
<1>4. QED
  BY <1>1, <1>2, <1>3

(* The inbox once a message is appended                                    *)
LEMMA Posted ==
  ASSUME NEW s \in Seq(Message), NEW m \in Message
  PROVE  /\ Append(s, m) \in Seq(Message) /\ Len(Append(s, m)) = Len(s) + 1 /\ Len(s) \in Nat
         /\ \A i \in 1..Len(s) : Append(s, m)[i] = s[i]
         /\ Append(s, m)[Len(s) + 1] = m
         /\ \A i \in 1..Len(Append(s, m)) : i \in 1..Len(s) \/ i = Len(s) + 1
<1>1. /\ Append(s, m) \in Seq(Message) /\ Len(Append(s, m)) = Len(s) + 1 /\ Len(s) \in Nat
      /\ \A i \in 1..Len(s) : Append(s, m)[i] = s[i]
      /\ Append(s, m)[Len(s) + 1] = m
  BY AppendProperties
<1>2. \A i \in 1..Len(Append(s, m)) : i \in 1..Len(s) \/ i = Len(s) + 1
  BY ONLY <1>1
<1>3. QED
  BY <1>1, <1>2

(* The fields of a message that has been received.                         *)
LEMMA MessageFields ==
  ASSUME TypeInv, NEW i \in 1..Len(inbox)
  PROVE  /\ inbox[i] \in Message /\ inbox[i].id \in Int /\ inbox[i].kpi \in BOOLEAN
         /\ inbox[i].run \in Nat /\ inbox[i].nr \in Nat
<1>1. inbox[i] \in Message
  BY DEF TypeInv
<1>2. QED
  BY <1>1 DEF Message

-----------------------------------------------------------------------------

(* The page begins with an empty chart.                                    *)
LEMMA OneRunInit == Init => OneRunInv
<1> SUFFICES ASSUME Init
             PROVE  OneRunInv
  OBVIOUS
<1>1. /\ chart = {} /\ calculationId = 0 /\ inbox = <<>> /\ base = 0 /\ run = 0 /\ sent = 0
      /\ ping = [t \in Pings |-> Idle] /\ seen = {}
  BY DEF Init
<1>2. Idle \in [step : {"idle", "compose", "tick", "kpi"}, run : Nat, told : Nat]
      /\ Idle.step = "idle"
  BY DEF Idle
<1>3. TypeInv
  BY <1>1, <1>2 DEF TypeInv
<1>4. \A t \in Pings : ping[t].step = "idle"
  BY <1>1, <1>2
<1>5. Len(inbox) = 0
  BY <1>1
<1>6. QED
  BY <1>1, <1>3, <1>4, <1>5 DEF OneRunInv, PingInv, OrderInv, ChartInv

(* What touches neither pings nor messages nor the chart keeps the         *)
(* invariant.                                                              *)
LEMMA OneRunFrame ==
  ASSUME OneRunInv, UNCHANGED <<chart, calculationId, inbox, base, run, sent, ping, seen>>,
         old' = old, up' = up
  PROVE  OneRunInv'
<1>1. TypeInv'
  BY DEF OneRunInv, TypeInv
<1>2. PingInv'
  BY DEF OneRunInv, PingInv
<1>3. OrderInv'
  BY DEF OneRunInv, OrderInv, CalcId
<1>4. ChartInv'
  BY DEF OneRunInv, ChartInv, CalcId
<1>5. QED
  BY <1>1, <1>2, <1>3, <1>4 DEF OneRunInv

(* A step of a ping thread that broadcasts nothing                         *)
LEMMA PingTypes ==
  ASSUME TypeInv, NEW t \in Pings
  PROVE  /\ ping[t].step \in {"idle", "compose", "tick", "kpi"}
         /\ ping[t].run \in Nat /\ ping[t].told \in Nat
<1>1. ping[t] \in [step : {"idle", "compose", "tick", "kpi"}, run : Nat, told : Nat]
  BY DEF TypeInv
<1>2. QED
  BY <1>1

(* A ping begins in the current run.                                       *)
LEMMA OnTimePingOne ==
  ASSUME OneRunInv, NEW t \in Pings, OnTimePing(t)
  PROVE  OneRunInv'
<1> DEFINE p == [step |-> "compose", run |-> run, told |-> 0]
<1>1. /\ up /\ up' = up /\ run > base /\ ping' = [ping EXCEPT ![t] = p]
      /\ UNCHANGED <<chart, calculationId, inbox, base, run, sent, seen, old>>
  BY DEF OnTimePing, pageVars, channelVars, serverVars
<1>2. TypeInv'
  BY <1>1 DEF OneRunInv, TypeInv
<1>3. ping'[t] = p /\ \A q \in Pings \ {t} : ping'[q] = ping[q]
  BY <1>1 DEF OneRunInv, TypeInv
<1>4. PingInv'
  <2>1. p.step = "compose" /\ p.run = run
    OBVIOUS
  <2>2. base \in Nat /\ run \in Nat
    BY DEF OneRunInv, TypeInv
  <2>3. QED
    BY <1>1, <1>3, <2>1, <2>2 DEF OneRunInv, PingInv
<1>5. OrderInv' /\ ChartInv'
  BY <1>1 DEF OneRunInv, OrderInv, ChartInv, CalcId
<1>6. QED
  BY <1>2, <1>4, <1>5 DEF OneRunInv

(* A ping composes its messages with the calculation_id_ it finds.         *)
LEMMA ComposeOne ==
  ASSUME OneRunInv, NEW t \in Pings, Compose(t)
  PROVE  OneRunInv'
<1>1. /\ ping[t].step = "compose"
      /\ ping' = [ping EXCEPT ![t].step = "tick", ![t].told = run]
      /\ UNCHANGED <<chart, calculationId, inbox, base, run, sent, seen, old, up>>
  BY DEF Compose, pageVars, channelVars, serverVars
<1>2. ping[t] \in [step : {"idle", "compose", "tick", "kpi"}, run : Nat, told : Nat]
      /\ run \in Nat /\ base \in Nat
  BY DEF OneRunInv, TypeInv
<1>3. /\ ping'[t].step = "tick" /\ ping'[t].told = run /\ ping'[t].run = ping[t].run
      /\ ping'[t] \in [step : {"idle", "compose", "tick", "kpi"}, run : Nat, told : Nat]
      /\ \A q \in Pings \ {t} : ping'[q] = ping[q]
  BY <1>1, <1>2 DEF OneRunInv, TypeInv
<1>4. TypeInv'
  BY <1>1, <1>2, <1>3 DEF OneRunInv, TypeInv
<1>5. PingInv'
  <2>1. up /\ base < ping[t].run /\ ping[t].run <= run
    BY <1>1 DEF OneRunInv, PingInv
  <2>2. base < run
    BY <1>2, <2>1, PingTypes DEF OneRunInv
  <2>3. /\ up /\ base < ping'[t].run /\ ping'[t].run <= run
        /\ base < ping'[t].told /\ ping'[t].told <= run
    <3>1. run <= run
      BY <1>2
    <3>2. QED
      BY <1>3, <2>1, <2>2, <3>1
  <2>4. QED
    BY <1>1, <1>3, <2>3 DEF OneRunInv, PingInv
<1>6. OrderInv' /\ ChartInv'
  BY <1>1 DEF OneRunInv, OrderInv, ChartInv, CalcId
<1>7. QED
  BY <1>4, <1>5, <1>6 DEF OneRunInv

(* A broadcast keeps the order.                                            *)
LEMMA PostOne ==
  ASSUME TypeInv, OrderInv, ChartInv, NEW m \in Message, Post(m),
         base < m.run, m.run <= run, ~m.kpi => m.id = CalcId(m.run), m.kpi => m.id = 0,
         m.kpi /\ m.nr # 0 => m.run = run,
         UNCHANGED <<chart, calculationId, base, run, seen, old>>
  PROVE  inbox' \in Seq(Message) /\ OrderInv' /\ ChartInv'
<1>1. ChartInv'
  BY DEF ChartInv, CalcId
<1>2. CASE inbox' = inbox
  BY <1>1, <1>2 DEF OrderInv, TypeInv, CalcId
<1>3. CASE inbox' = Append(inbox, m)
  <2>1. /\ inbox' \in Seq(Message) /\ Len(inbox') = Len(inbox) + 1 /\ Len(inbox) \in Nat
        /\ \A i \in 1..Len(inbox) : inbox'[i] = inbox[i]
        /\ inbox'[Len(inbox) + 1] = m
        /\ \A i \in 1..Len(inbox') : i \in 1..Len(inbox) \/ i = Len(inbox) + 1
    BY <1>3, Posted DEF TypeInv
  <2>2. OrderInv'
    <3>1. SUFFICES ASSUME ~old
                   PROVE  OrderInv'
      BY DEF OrderInv
    <3>2. ASSUME NEW i \in 1..Len(inbox')
          PROVE  /\ base < inbox'[i].run /\ inbox'[i].run <= run
                 /\ ~inbox'[i].kpi => inbox'[i].id = CalcId(inbox'[i].run)
                 /\ inbox'[i].kpi => inbox'[i].id = 0
      <4>1. CASE i \in 1..Len(inbox)
        BY <2>1, <3>1, <4>1 DEF OrderInv
      <4>2. CASE i = Len(inbox) + 1
        BY <2>1, <4>2
      <4>3. QED
        BY <2>1, <4>1, <4>2
    <3>3. ASSUME NEW i \in 1..Len(inbox'), NEW j \in 1..Len(inbox'), i < j,
                 inbox'[j].kpi, inbox'[j].nr # 0
          PROVE  inbox'[i].run <= inbox'[j].run
      <4>1. CASE j \in 1..Len(inbox)
        <5>1. i \in 1..Len(inbox)
          BY ONLY <2>1, <3>3, <4>1
        <5>2. QED
          BY <2>1, <3>1, <3>3, <4>1, <5>1 DEF OrderInv
      <4>2. CASE j = Len(inbox) + 1
        BY <2>1, <3>2, <3>3, <4>2
      <4>3. QED
        BY <2>1, <4>1, <4>2
    <3>4. ASSUME NEW s \in seen
          PROVE  /\ base < s /\ s <= run
                 /\ \A j \in 1..Len(inbox') : inbox'[j].kpi /\ inbox'[j].nr # 0 => s <= inbox'[j].run
      <4>1. /\ base < s /\ s <= run
            /\ \A j \in 1..Len(inbox) : inbox[j].kpi /\ inbox[j].nr # 0 => s <= inbox[j].run
        BY <3>1 DEF OrderInv
      <4>2. QED
        BY <2>1, <4>1
    <3>5. QED
      BY <3>2, <3>3, <3>4 DEF OrderInv, CalcId
  <2>3. QED
    BY <1>1, <2>1, <2>2
<1>4. QED
  BY <1>2, <1>3 DEF Post

(* The time message reaches the inbox.                                     *)
LEMMA PostTickOne ==
  ASSUME OneRunInv, NEW t \in Pings, PostTick(t)
  PROVE  OneRunInv'
<1> DEFINE m == [id |-> CalcId(ping[t].told), kpi |-> FALSE, run |-> ping[t].told, nr |-> 0]
<1>1. /\ ping[t].step = "tick" /\ Post(m)
      /\ ping' = [ping EXCEPT ![t].step = "kpi"] \/ ping' = [ping EXCEPT ![t] = Idle]
      /\ UNCHANGED <<chart, calculationId, base, run, sent, seen, old, up>>
  BY DEF PostTick, pageVars
<1>2. /\ ping[t] \in [step : {"idle", "compose", "tick", "kpi"}, run : Nat, told : Nat]
      /\ base \in Nat /\ base < ping[t].told /\ ping[t].told <= run /\ run \in Nat
      /\ ping \in [Pings -> [step : {"idle", "compose", "tick", "kpi"}, run : Nat, told : Nat]]
  BY <1>1 DEF OneRunInv, TypeInv, PingInv
<1>3. /\ m \in Message /\ m.run = ping[t].told /\ m.kpi = FALSE /\ m.id = CalcId(m.run)
  <2>1. CalcId(ping[t].told) \in Int /\ ping[t].told \in Nat
    BY <1>2 DEF CalcId
  <2>2. QED
    BY <2>1 DEF Message
<1>4. inbox' \in Seq(Message) /\ OrderInv' /\ ChartInv'
  <2> HIDE DEF m
  <2>1. QED
    BY <1>1, <1>2, <1>3, PostOne DEF OneRunInv
<1>5. /\ ping' \in [Pings -> [step : {"idle", "compose", "tick", "kpi"}, run : Nat, told : Nat]]
      /\ \A q \in Pings \ {t} : ping'[q] = ping[q]
      /\ \/ ping'[t].step = "idle"
         \/ ping'[t].step = "kpi" /\ ping'[t].run = ping[t].run /\ ping'[t].told = ping[t].told
  <2>1. CASE ping' = [ping EXCEPT ![t].step = "kpi"]
    BY <1>2, <2>1
  <2>2. CASE ping' = [ping EXCEPT ![t] = Idle]
    BY <1>2, <2>2 DEF Idle
  <2>3. QED
    BY <1>1, <2>1, <2>2
<1>6. TypeInv'
  BY <1>1, <1>4, <1>5 DEF OneRunInv, TypeInv
<1>7. PingInv'
  BY <1>1, <1>5 DEF OneRunInv, PingInv
<1>8. QED
  BY <1>4, <1>6, <1>7 DEF OneRunInv

(* The KPI message reaches the inbox.                                      *)
LEMMA PostKpiOne ==
  ASSUME OneRunInv, NEW t \in Pings, PostKpi(t)
  PROVE  OneRunInv'
<1> DEFINE m == [id |-> 0, kpi |-> TRUE, run |-> ping[t].run,
                 nr |-> IF ping[t].run = run THEN sent + 1 ELSE 0]
<1>1. /\ ping[t].step = "kpi" /\ Post(m) /\ ping' = [ping EXCEPT ![t] = Idle]
      /\ sent' = IF ping[t].run = run THEN sent + 1 ELSE sent
      /\ UNCHANGED <<chart, calculationId, base, run, seen, old, up>>
  BY DEF PostKpi, pageVars
<1>2. /\ ping[t] \in [step : {"idle", "compose", "tick", "kpi"}, run : Nat, told : Nat]
      /\ base < ping[t].run /\ ping[t].run <= run /\ sent \in Nat
      /\ ping \in [Pings -> [step : {"idle", "compose", "tick", "kpi"}, run : Nat, told : Nat]]
  BY <1>1 DEF OneRunInv, TypeInv, PingInv
<1>3. /\ m \in Message /\ m.run = ping[t].run /\ m.kpi = TRUE /\ m.id = 0
      /\ m.nr # 0 => ping[t].run = run
  BY <1>2 DEF Message
<1>4. inbox' \in Seq(Message) /\ OrderInv' /\ ChartInv'
  <2> HIDE DEF m
  <2>1. QED
    BY <1>1, <1>2, <1>3, PostOne DEF OneRunInv
<1>5. /\ ping' \in [Pings -> [step : {"idle", "compose", "tick", "kpi"}, run : Nat, told : Nat]]
      /\ \A q \in Pings \ {t} : ping'[q] = ping[q]
      /\ ping'[t].step = "idle"
  BY <1>1, <1>2 DEF Idle
<1>6. TypeInv'
  BY <1>1, <1>2, <1>4, <1>5 DEF OneRunInv, TypeInv
<1>7. PingInv'
  BY <1>1, <1>5 DEF OneRunInv, PingInv
<1>8. QED
  BY <1>4, <1>6, <1>7 DEF OneRunInv

(* The page takes the next message: the tick of a run it does not know     *)
(* empties the chart, unless the run is the server's first.                *)
LEMMA OnMessageOne ==
  ASSUME OneRunInv, OnMessage
  PROVE  OneRunInv'
<1> DEFINE m == inbox[1]
           kept == IF IsAnother(m.id) THEN {} ELSE chart
           point == [run |-> m.run, nr |-> m.nr, known |-> m.run \in seen]
<1>1. /\ m \in Message /\ Head(inbox) = m /\ 1 \in 1..Len(inbox)
      /\ inbox' \in Seq(Message) /\ Len(inbox') = Len(inbox) - 1
      /\ \A i \in 1..Len(inbox') : i + 1 \in 1..Len(inbox) /\ inbox'[i] = inbox[i + 1] /\ 1 < i + 1
  <2>1. inbox \in Seq(Message) /\ inbox # <<>> /\ inbox' = Tail(inbox)
    BY DEF OnMessage, OneRunInv, TypeInv
  <2>2. QED
    BY <2>1, Received
<1>2. /\ calculationId' = IF m.id # 0 THEN m.id ELSE calculationId
      /\ \/ m.kpi /\ chart' = kept \cup {point} /\ seen' = seen
         \/ ~m.kpi /\ chart' = kept /\ seen' = seen \cup {m.run}
      /\ UNCHANGED <<base, run, sent, ping, old, up>>
  BY <1>1 DEF OnMessage, serverVars
<1>3. m.id \in Int /\ m.run \in Nat /\ m.nr \in Nat /\ base \in Nat /\ run \in Nat
  BY <1>1 DEF Message, OneRunInv, TypeInv
<1>4. TypeInv'
  <2>1. kept \subseteq chart
    OBVIOUS
  <2>2. point \in [run : Nat, nr : Nat, known : BOOLEAN]
    BY <1>3
  <2>3. chart' \subseteq [run : Nat, nr : Nat, known : BOOLEAN]
    BY <1>2, <2>1, <2>2 DEF OneRunInv, TypeInv
  <2>4. calculationId' \in Int /\ seen' \subseteq Nat
    BY <1>2, <1>3 DEF OneRunInv, TypeInv
  <2>5. QED
    BY <1>1, <1>2, <2>3, <2>4 DEF OneRunInv, TypeInv
<1>5. PingInv'
  BY <1>2 DEF OneRunInv, PingInv
<1>6. CASE old
  BY <1>2, <1>4, <1>5, <1>6 DEF OneRunInv, OrderInv, ChartInv
<1>7. CASE ~old
  <2>1. /\ base < m.run /\ m.run <= run
        /\ ~m.kpi => m.id = CalcId(m.run)
        /\ m.kpi => m.id = 0
    BY <1>1, <1>7 DEF OneRunInv, OrderInv
  <2>2. \A j \in 1..Len(inbox') : inbox'[j].kpi /\ inbox'[j].nr # 0 => m.run <= inbox'[j].run
    BY <1>1, <1>7 DEF OneRunInv, OrderInv
  <2>3. \A i \in 1..Len(inbox') :
          /\ base < inbox'[i].run /\ inbox'[i].run <= run
          /\ ~inbox'[i].kpi => inbox'[i].id = CalcId(inbox'[i].run)
          /\ inbox'[i].kpi => inbox'[i].id = 0
    BY <1>1, <1>7, ZenonT(60) DEF OneRunInv, OrderInv
  <2>4. ASSUME NEW i \in 1..Len(inbox'), NEW j \in 1..Len(inbox'), i < j,
               inbox'[j].kpi, inbox'[j].nr # 0
        PROVE  inbox'[i].run <= inbox'[j].run
    <3>1. i + 1 < j + 1
      BY ONLY <2>4
    <3>2. QED
      BY <1>1, <1>7, <2>4, <3>1, SMTT(60) DEF OneRunInv, OrderInv
  <2>5. \A s \in seen' :
          /\ base < s /\ s <= run
          /\ \A j \in 1..Len(inbox') : inbox'[j].kpi /\ inbox'[j].nr # 0 => s <= inbox'[j].run
    <3>1. \A s \in seen :
            /\ base < s /\ s <= run
            /\ \A j \in 1..Len(inbox) : inbox[j].kpi /\ inbox[j].nr # 0 => s <= inbox[j].run
      BY <1>7 DEF OneRunInv, OrderInv
    <3>2. \A s \in seen : \A j \in 1..Len(inbox') :
            inbox'[j].kpi /\ inbox'[j].nr # 0 => s <= inbox'[j].run
      BY <1>1, <3>1
    <3>3. QED
      BY <1>2, <2>1, <2>2, <3>1, <3>2
  <2>6. OrderInv'
    BY <1>2, <2>3, <2>4, <2>5 DEF OrderInv, CalcId
  <2>7. /\ \A a \in chart : base < a.run /\ (a.known => a.run \in seen)
        /\ \A a \in chart, s \in seen : a.nr # 0 => s <= a.run
        /\ calculationId # 0 => \E s \in seen : calculationId = CalcId(s)
    BY <1>7 DEF OneRunInv, ChartInv
  <2>8. ChartInv'
    <3>1. CASE m.kpi
      <4>1. kept = chart /\ chart' = chart \cup {point} /\ UNCHANGED <<seen, calculationId>>
        BY <1>2, <2>1, <3>1 DEF IsAnother
      <4>2. point.run = m.run /\ point.nr = m.nr /\ (point.known <=> m.run \in seen)
        OBVIOUS
      <4>3. \A s \in seen : m.nr # 0 => s <= m.run
        BY <1>1, <1>7, <3>1 DEF OneRunInv, OrderInv
      <4>4. QED
        BY <1>2, <2>1, <2>7, <4>1, <4>2, <4>3 DEF ChartInv, CalcId
    <3>2. CASE ~m.kpi
      <4>1. m.id = CalcId(m.run) /\ chart' = kept /\ seen' = seen \cup {m.run} /\ kept \subseteq chart
        BY <1>2, <2>1, <3>2
      <4>2. ASSUME NEW a \in kept, a.nr # 0
            PROVE  m.run <= a.run
        <5>1. a \in chart /\ ~IsAnother(m.id) /\ a.run \in Nat
          BY <4>2 DEF OneRunInv, TypeInv
        <5>2. CASE m.id = 0
          <6>1. m.run - base - 1 = 0 /\ base < a.run
            BY <2>7, <4>1, <5>1, <5>2 DEF CalcId
          <6>2. QED
            BY ONLY <1>3, <5>1, <6>1
        <5>3. CASE m.id = calculationId /\ m.id # 0
          <6>1. PICK s \in seen : calculationId = CalcId(s)
            BY <2>7, <5>3
          <6>2. s \in Nat
            BY DEF OneRunInv, TypeInv
          <6>3. m.run - base - 1 = s - base - 1
            BY <4>1, <5>3, <6>1 DEF CalcId
          <6>4. m.run = s
            BY ONLY <1>3, <6>2, <6>3
          <6>5. QED
            BY <2>7, <4>2, <5>1, <6>4
        <5>4. QED
          BY <5>1, <5>2, <5>3 DEF IsAnother
      <4>3. calculationId' # 0 => \E s \in seen' : calculationId' = CalcId(s)
        BY <1>2, <2>7, <4>1
      <4>4. QED
        BY <1>2, <2>7, <4>1, <4>2, <4>3 DEF ChartInv, CalcId
    <3>3. QED
      BY <3>1, <3>2
  <2>9. QED
    BY <1>4, <1>5, <2>6, <2>8 DEF OneRunInv
<1>8. QED
  BY <1>6, <1>7

(* Every step keeps the chart to one run.                                  *)
LEMMA OneRunStep == OneRunInv /\ [Next]_vars => OneRunInv'
<1> SUFFICES ASSUME OneRunInv, [Next]_vars
             PROVE  OneRunInv'
  OBVIOUS
<1> USE DEF pageVars, channelVars, serverVars, boundVars
<1>1. CASE UNCHANGED vars
  BY <1>1, OneRunFrame DEF vars
<1>2. CASE WebsocketConnect \/ OnOpen \/ Accept \/ Break
  BY <1>2, OneRunFrame DEF WebsocketConnect, OnOpen, Accept, Break
<1>3. CASE OnClose
  <2>1. /\ inbox' = <<>>
        /\ UNCHANGED <<chart, calculationId, base, run, sent, ping, seen, old, up>>
    BY <1>3 DEF OnClose
  <2>2. Len(inbox') = 0 /\ inbox' \in Seq(Message)
    BY <2>1
  <2>3. QED
    BY <2>1, <2>2 DEF OneRunInv, TypeInv, PingInv, OrderInv, ChartInv, CalcId
<1>4. CASE ClickStart
  <2>1. /\ chart' = {}
        /\ UNCHANGED <<inbox, calculationId, base, run, sent, ping, seen, old, up>>
    BY <1>4 DEF ClickStart
  <2>2. QED
    BY <2>1 DEF OneRunInv, TypeInv, PingInv, OrderInv, ChartInv, CalcId
<1>5. CASE Reload
  <2>1. /\ chart' = {} /\ calculationId' = 0 /\ inbox' = <<>> /\ seen' = {}
        /\ UNCHANGED <<base, run, sent, ping, up>>
    BY <1>5 DEF Reload
  <2>2. Len(inbox') = 0 /\ inbox' \in Seq(Message)
    BY <2>1
  <2>3. QED
    BY <2>1, <2>2 DEF OneRunInv, TypeInv, PingInv, OrderInv, ChartInv
<1>6. CASE Start
  <2>1. /\ run' = run + 1 /\ sent' = 0
        /\ UNCHANGED <<chart, calculationId, inbox, base, ping, seen, old, up>>
    BY <1>6 DEF Start
  <2>2. run \in Nat /\ base \in Nat /\ run' \in Nat /\ \A n \in Nat : n <= run => n <= run'
    BY <2>1 DEF OneRunInv, TypeInv
  <2>3. TypeInv'
    BY <2>1, <2>2 DEF OneRunInv, TypeInv
  <2>4. PingInv'
    BY <2>1, <2>2, PingTypes DEF OneRunInv, PingInv
  <2>5. OrderInv'
    <3>1. \A i \in 1..Len(inbox) : inbox[i].run \in Nat
      BY MessageFields DEF OneRunInv
    <3>2. \A s \in seen : s \in Nat
      BY DEF OneRunInv, TypeInv
    <3>3. QED
      BY <2>1, <2>2, <3>1, <3>2 DEF OneRunInv, OrderInv, CalcId
  <2>6. ChartInv'
    BY <2>1 DEF OneRunInv, ChartInv, CalcId
  <2>7. QED
    BY <2>3, <2>4, <2>5, <2>6 DEF OneRunInv
<1>7. CASE Crash
  <2>1. /\ ping' = [t \in Pings |-> Idle] /\ old' = TRUE
        /\ UNCHANGED <<chart, calculationId, inbox, base, run, sent, seen>>
    BY <1>7 DEF Crash
  <2>2. /\ Idle \in [step : {"idle", "compose", "tick", "kpi"}, run : Nat, told : Nat]
        /\ Idle.step = "idle"
    BY DEF Idle
  <2>3. TypeInv'
    BY <2>1, <2>2 DEF OneRunInv, TypeInv
  <2>4. QED
    BY <2>1, <2>2, <2>3 DEF OneRunInv, PingInv, OrderInv, ChartInv
<1>8. CASE Restart
  <2>1. /\ ~up /\ old' = TRUE /\ base' = run
        /\ UNCHANGED <<chart, calculationId, inbox, run, sent, seen, ping>>
    BY <1>8 DEF Restart
  <2>2. \A t \in Pings : ping[t].step = "idle"
    BY <2>1, PingTypes DEF OneRunInv, PingInv
  <2>3. QED
    BY <2>1, <2>2 DEF OneRunInv, TypeInv, PingInv, OrderInv, ChartInv
<1>9. QED
  BY <1>1, <1>2, <1>3, <1>4, <1>5, <1>6, <1>7, <1>8, OnTimePingOne, ComposeOne, PostTickOne,
     PostKpiOne, OnMessageOne
     DEF Next, Page, Server, Quiet

(* However many runs, pings and pages there are: a page loaded from the    *)
(* server that runs does not mix the points of two runs, unless a KPI      *)
(* comes when a later run has started, or without the tick of its run.     *)
THEOREM OneRunTheorem == Spec => []ChartIsOneRun
<1>1. OneRunInv => ChartIsOneRun
  <2> SUFFICES ASSUME OneRunInv, ~old, NEW a \in chart, NEW b \in chart,
                      {a.known, b.known} = {TRUE}, 0 \notin {a.nr, b.nr}
               PROVE  a.run = b.run
    BY DEF ChartIsOneRun
  <2>1. a.known /\ b.known /\ a.nr # 0 /\ b.nr # 0
    OBVIOUS
  <2>2. a.run \in seen /\ b.run \in seen /\ a.run \in Nat /\ b.run \in Nat
    BY <2>1 DEF OneRunInv, ChartInv, TypeInv
  <2>3. a.run <= b.run /\ b.run <= a.run
    BY <2>1, <2>2 DEF OneRunInv, ChartInv
  <2>4. QED
    BY ONLY <2>2, <2>3
<1>2. QED
  BY <1>1, OneRunInit, OneRunStep, PTL DEF Spec

-----------------------------------------------------------------------------
(* The page that stays connected                                           *)

(* This ping has broadcast the current run's tick, and has a KPI for it.   *)
Announced(t) == ping[t].step = "kpi" /\ ping[t].run = run

(* When the page has taken the first n messages it shows the current run's *)
(* calc_id, unless that is the 0 it ignores or no KPI has to do with it;   *)
(* from then on none of the messages under way empties the chart, and they *)
(* bring every KPI of the run that is not there yet.                       *)
Settles(n) ==
  /\ \A j \in n + 1..Len(inbox) : inbox[j].id \in {0, CalcId(run)}
  /\ \A k \in 1..sent :
       \/ \E j \in n + 1..Len(inbox) : inbox[j].kpi /\ inbox[j].run = run /\ inbox[j].nr = k
       \/ n = 0 /\ \E a \in chart : a.run = run /\ a.nr = k
  /\ \/ sent = 0 /\ \A t \in Pings : ~Announced(t)
     \/ CalcId(run) = 0
     \/ n = 0 /\ calculationId = CalcId(run)
     \/ n > 0 /\ inbox[n].id = CalcId(run)

WatchInv ==
  /\ watched => up /\ link = "up"
  /\ watched /\ ~stale => \E n \in 0..Len(inbox) : Settles(n)

(* A step that leaves alone what Settles is about                          *)
LEMMA WatchFrame ==
  ASSUME WatchInv, UNCHANGED <<chart, calculationId, inbox, base, run, sent, stale>>,
         \A t \in Pings : Announced(t)' => Announced(t),
         watched' => watched /\ up' /\ link' = "up"
  PROVE  WatchInv'
<1>1. ASSUME NEW n
      PROVE  Settles(n) => Settles(n)'
  BY DEF Settles, CalcId
<1>2. QED
  BY <1>1 DEF WatchInv

(* The tick of a ping of the current run names that run; from then on its  *)
(* calc_id is known.                                                       *)
LEMMA PostTickWatch ==
  ASSUME OneRunInv, WatchInv, NEW t \in Pings, PostTick(t)
  PROVE  WatchInv'
<1> DEFINE m == [id |-> CalcId(ping[t].told), kpi |-> FALSE, run |-> ping[t].told, nr |-> 0]
<1>1. /\ ping[t].step = "tick" /\ Post(m) /\ stale' = (stale \/ ping[t].told # run)
      /\ ping' = [ping EXCEPT ![t].step = "kpi"] \/ ping' = [ping EXCEPT ![t] = Idle]
      /\ UNCHANGED <<chart, calculationId, base, run, sent, up, link, watched>>
  BY DEF PostTick, pageVars
<1>2. SUFFICES ASSUME watched, ~stale, ping[t].told = run
               PROVE  \E n \in 0..Len(inbox') : Settles(n)'
  BY <1>1 DEF WatchInv
<1>3. link = "up"
  BY <1>2 DEF WatchInv
<1>4. m \in Message /\ m.id = CalcId(run) /\ m.kpi = FALSE
  <2>1. CalcId(run) \in Int /\ run \in Nat
    BY DEF CalcId, OneRunInv, TypeInv
  <2>2. QED
    BY <1>2, <2>1 DEF Message
<1>5. /\ inbox' \in Seq(Message) /\ Len(inbox') = Len(inbox) + 1 /\ Len(inbox) \in Nat
      /\ \A i \in 1..Len(inbox) : inbox'[i] = inbox[i]
      /\ inbox'[Len(inbox) + 1] = m
      /\ \A i \in 1..Len(inbox') : i \in 1..Len(inbox) \/ i = Len(inbox) + 1
  <2>1. inbox' = Append(inbox, m)
    BY <1>1, <1>3 DEF Post
  <2> HIDE DEF m
  <2>2. QED
    BY <1>4, <2>1, Posted DEF OneRunInv, TypeInv
<1>6. PICK n \in 0..Len(inbox) : Settles(n)
  BY <1>2 DEF WatchInv
<1>7. CalcId(run)' = CalcId(run) /\ UNCHANGED <<sent, run, calculationId, chart>>
  BY <1>1 DEF CalcId
<1>8. CASE sent = 0
  <2>1. Len(inbox') \in 0..Len(inbox')
    BY ONLY <1>5
  <2>2. Len(inbox') > 0 /\ inbox'[Len(inbox')].id = CalcId(run)
    BY <1>4, <1>5
  <2>3. Len(inbox') + 1..Len(inbox') = {} /\ 1..sent = {}
    BY ONLY <1>5, <1>8
  <2>4. PICK l \in Nat : l = Len(inbox')
    BY <1>5
  <2>5. Settles(l)'
    BY <1>7, <1>8, <2>2, <2>3, <2>4 DEF Settles
  <2>6. QED
    BY <2>1, <2>4, <2>5
<1>9. CASE sent # 0
  <2>1. n \in 0..Len(inbox') /\ n \in Nat
    BY ONLY <1>5, <1>6
  <2>2. \A j \in n + 1..Len(inbox') : inbox'[j].id \in {0, CalcId(run)}
    <3>1. ASSUME NEW j \in n + 1..Len(inbox')
          PROVE  (j \in 1..Len(inbox) /\ j \in n + 1..Len(inbox)) \/ j = Len(inbox) + 1
      BY ONLY <1>5, <1>6, <3>1
    <3>2. QED
      BY <1>4, <1>5, <1>6, <3>1 DEF Settles
  <2>3. ASSUME NEW k \in 1..sent
        PROVE  \/ \E j \in n + 1..Len(inbox') :
                    inbox'[j].kpi /\ inbox'[j].run = run /\ inbox'[j].nr = k
               \/ n = 0 /\ \E a \in chart : a.run = run /\ a.nr = k
    <3>1. ASSUME NEW j \in n + 1..Len(inbox)
          PROVE  j \in 1..Len(inbox) /\ j \in n + 1..Len(inbox')
      BY ONLY <1>5, <1>6, <3>1
    <3>2. QED
      BY <1>5, <1>6, <3>1 DEF Settles
  <2>4. \/ CalcId(run) = 0
        \/ n = 0 /\ calculationId = CalcId(run)
        \/ n > 0 /\ inbox'[n].id = CalcId(run)
    <3>1. n > 0 => n \in 1..Len(inbox)
      BY ONLY <1>5, <1>6
    <3>2. QED
      BY <1>5, <1>6, <1>9, <3>1 DEF Settles
  <2>5. Settles(n)'
    BY <1>7, <2>2, <2>3, <2>4 DEF Settles
  <2>6. QED
    BY <2>1, <2>5
<1>10. QED
  BY <1>8, <1>9

(* A KPI that is posted is on its way to the chart.                        *)
LEMMA PostKpiWatch ==
  ASSUME OneRunInv, WatchInv, NEW t \in Pings, PostKpi(t)
  PROVE  WatchInv'
<1> DEFINE m == [id |-> 0, kpi |-> TRUE, run |-> ping[t].run,
                 nr |-> IF ping[t].run = run THEN sent + 1 ELSE 0]
<1>1. /\ ping[t].step = "kpi" /\ Post(m) /\ ping' = [ping EXCEPT ![t] = Idle]
      /\ sent' = IF ping[t].run = run THEN sent + 1 ELSE sent
      /\ UNCHANGED <<chart, calculationId, base, run, up, link, watched, stale>>
  BY DEF PostKpi, pageVars
<1>2. SUFFICES ASSUME watched, ~stale
               PROVE  \E n \in 0..Len(inbox') : Settles(n)'
  BY <1>1 DEF WatchInv
<1>3. link = "up"
  BY <1>2 DEF WatchInv
<1>4. /\ m \in Message /\ m.id = 0 /\ m.kpi = TRUE /\ m.run = ping[t].run
      /\ ping[t].run = run => m.nr = sent + 1
      /\ sent \in Nat
  BY PingTypes DEF Message, OneRunInv, TypeInv
<1>5. /\ inbox' \in Seq(Message) /\ Len(inbox') = Len(inbox) + 1 /\ Len(inbox) \in Nat
      /\ \A i \in 1..Len(inbox) : inbox'[i] = inbox[i]
      /\ inbox'[Len(inbox) + 1] = m
      /\ \A i \in 1..Len(inbox') : i \in 1..Len(inbox) \/ i = Len(inbox) + 1
  <2>1. inbox' = Append(inbox, m)
    BY <1>1, <1>3 DEF Post
  <2> HIDE DEF m
  <2>2. QED
    BY <1>4, <2>1, Posted DEF OneRunInv, TypeInv
<1>6. PICK n \in 0..Len(inbox) : Settles(n)
  BY <1>2 DEF WatchInv
<1>7. CalcId(run)' = CalcId(run) /\ UNCHANGED <<run, calculationId, chart>>
  BY <1>1 DEF CalcId
<1>8. /\ \A q \in Pings : Announced(q)' => Announced(q)
      /\ ping[t].run = run => Announced(t)
  BY <1>1 DEF Announced, Idle, OneRunInv, TypeInv
<1>9. n \in 0..Len(inbox') /\ n \in Nat /\ Len(inbox) + 1 \in n + 1..Len(inbox')
  BY ONLY <1>5, <1>6
<1>10. \A j \in n + 1..Len(inbox) : j \in 1..Len(inbox) /\ j \in n + 1..Len(inbox')
  BY ONLY <1>5, <1>6
<1>11. \A j \in n + 1..Len(inbox') : j \in n + 1..Len(inbox) \/ j = Len(inbox) + 1
  BY ONLY <1>5, <1>6
<1>12. \A j \in n + 1..Len(inbox') : inbox'[j].id \in {0, CalcId(run)}
  BY <1>4, <1>5, <1>6, <1>10, <1>11 DEF Settles
<1>13. ASSUME NEW k \in 1..sent'
       PROVE  \/ \E j \in n + 1..Len(inbox') :
                   inbox'[j].kpi /\ inbox'[j].run = run /\ inbox'[j].nr = k
              \/ n = 0 /\ \E a \in chart : a.run = run /\ a.nr = k
  <2>1. k \in 1..sent \/ (k = sent + 1 /\ ping[t].run = run)
    BY <1>1, <1>4
  <2>2. CASE k \in 1..sent
    BY <1>5, <1>6, <1>10, <2>2 DEF Settles
  <2>3. CASE k = sent + 1 /\ ping[t].run = run
    BY <1>4, <1>5, <1>9, <2>3
  <2>4. QED
    BY <2>1, <2>2, <2>3
<1>14. \/ sent' = 0 /\ \A q \in Pings : ~Announced(q)'
       \/ CalcId(run) = 0
       \/ n = 0 /\ calculationId = CalcId(run)
       \/ n > 0 /\ inbox'[n].id = CalcId(run)
  <2>1. n > 0 => n \in 1..Len(inbox)
    BY ONLY <1>5, <1>6
  <2>2. CASE sent = 0 /\ \A q \in Pings : ~Announced(q)
    BY <1>1, <1>8, <2>2
  <2>3. CASE ~(sent = 0 /\ \A q \in Pings : ~Announced(q))
    BY <1>5, <1>6, <2>1, <2>3 DEF Settles
  <2>4. QED
    BY <2>2, <2>3
<1>15. Settles(n)'
  BY <1>7, <1>12, <1>13, <1>14 DEF Settles
<1>16. QED
  BY <1>9, <1>15

(* The page takes the next message.                                        *)
LEMMA OnMessageWatch ==
  ASSUME OneRunInv, WatchInv, OnMessage
  PROVE  WatchInv'
<1> DEFINE m == inbox[1]
           kept == IF IsAnother(m.id) THEN {} ELSE chart
           point == [run |-> m.run, nr |-> m.nr, known |-> m.run \in seen]
<1>1. /\ m \in Message /\ Head(inbox) = m /\ 1 \in 1..Len(inbox)
      /\ inbox' \in Seq(Message) /\ Len(inbox') = Len(inbox) - 1 /\ Len(inbox) \in Nat \ {0}
      /\ \A i \in 1..Len(inbox') : i + 1 \in 1..Len(inbox) /\ inbox'[i] = inbox[i + 1]
  <2>1. inbox \in Seq(Message) /\ inbox # <<>> /\ inbox' = Tail(inbox)
    BY DEF OnMessage, OneRunInv, TypeInv
  <2>2. QED
    BY <2>1, Received
<1>2. /\ calculationId' = IF m.id # 0 THEN m.id ELSE calculationId
      /\ chart' = IF m.kpi THEN kept \cup {point} ELSE kept
      /\ UNCHANGED <<base, run, sent, ping, stale, up, link, watched>>
  BY <1>1 DEF OnMessage, serverVars
<1>3. SUFFICES ASSUME watched, ~stale
               PROVE  \E n \in 0..Len(inbox') : Settles(n)'
  BY <1>2 DEF WatchInv
<1>4. PICK n \in 0..Len(inbox) : Settles(n)
  BY <1>3 DEF WatchInv
<1>5. /\ CalcId(run)' = CalcId(run) /\ \A t \in Pings : Announced(t)' <=> Announced(t)
  BY <1>2 DEF CalcId, Announced
<1>6. CASE n > 0
  <2>1. PICK l \in Nat : l = n - 1
    BY <1>6
  <2>2. /\ l \in 0..Len(inbox') /\ l + 1 = n /\ n \in 1..Len(inbox)
        /\ l > 0 => l \in 1..Len(inbox')
    BY ONLY <1>1, <1>4, <1>6, <2>1
  <2>3. \A j \in l + 1..Len(inbox') : j + 1 \in n + 1..Len(inbox) /\ inbox'[j] = inbox[j + 1]
    <3>1. ASSUME NEW j \in l + 1..Len(inbox')
          PROVE  j \in 1..Len(inbox') /\ j + 1 \in n + 1..Len(inbox)
      BY ONLY <1>1, <1>4, <2>1, <2>2, <3>1
    <3>2. QED
      BY <1>1, <3>1
  <2>4. \A j \in n + 1..Len(inbox) : j - 1 \in l + 1..Len(inbox') /\ inbox'[j - 1] = inbox[j]
    <3>1. ASSUME NEW j \in n + 1..Len(inbox)
          PROVE  j - 1 \in 1..Len(inbox') /\ j - 1 \in l + 1..Len(inbox') /\ (j - 1) + 1 = j
      BY ONLY <1>1, <1>4, <2>1, <2>2, <3>1
    <3>2. QED
      BY <1>1, <3>1
  <2>5. \A j \in l + 1..Len(inbox') : inbox'[j].id \in {0, CalcId(run)}
    BY <1>4, <2>3 DEF Settles
  <2>6. ASSUME NEW k \in 1..sent
        PROVE  \E j \in l + 1..Len(inbox') :
                 inbox'[j].kpi /\ inbox'[j].run = run /\ inbox'[j].nr = k
    <3>1. PICK j \in n + 1..Len(inbox) : inbox[j].kpi /\ inbox[j].run = run /\ inbox[j].nr = k
      BY <1>4, <1>6 DEF Settles
    <3>2. QED
      BY <2>4, <3>1
  <2>7. \/ sent = 0 /\ \A t \in Pings : ~Announced(t)
        \/ CalcId(run) = 0
        \/ inbox[n].id = CalcId(run)
    BY <1>4, <1>6 DEF Settles
  <2>8. inbox[n].id = CalcId(run) /\ CalcId(run) # 0 =>
          \/ l = 0 /\ calculationId' = CalcId(run)
          \/ l > 0 /\ inbox'[l].id = CalcId(run)
    <3>1. CASE l = 0
      BY <1>2, <2>2, <3>1
    <3>2. CASE l > 0
      BY <1>1, <2>2, <3>2
    <3>3. QED
      BY <2>1, <3>1, <3>2
  <2>9. Settles(l)'
    BY <1>2, <1>5, <2>5, <2>6, <2>7, <2>8 DEF Settles
  <2>10. QED
    BY <2>2, <2>9
<1>7. CASE n = 0
  <2>1. \A j \in 1..Len(inbox) : j \in n + 1..Len(inbox)
    BY <1>7
  <2>2. m.id \in {0, CalcId(run)}
    BY <1>1, <1>4, <2>1 DEF Settles
  <2>3. CASE sent = 0 /\ \A t \in Pings : ~Announced(t)
    <3>1. \A j \in 0 + 1..Len(inbox') : inbox'[j].id \in {0, CalcId(run)}
      BY <1>1, <1>4, <2>1 DEF Settles
    <3>2. PICK l \in Nat : l = 0
      OBVIOUS
    <3>3. 1..sent = {} /\ l \in 0..Len(inbox')
      BY <1>1, <2>3, <3>2
    <3>4. Settles(l)'
      BY <1>2, <1>5, <2>3, <3>1, <3>2, <3>3 DEF Settles
    <3>5. QED
      BY <3>3, <3>4
  <2>4. CASE CalcId(run) = 0 \/ calculationId = CalcId(run)
    <3>1. kept = chart /\ (CalcId(run) = 0 \/ calculationId' = CalcId(run))
      BY <1>2, <2>2, <2>4 DEF IsAnother
    <3>2. \A j \in 0 + 1..Len(inbox') : inbox'[j].id \in {0, CalcId(run)}
      BY <1>1, <1>4, <2>1 DEF Settles
    <3>3. chart \subseteq chart'
      BY <1>2, <3>1
    <3>4. ASSUME NEW k \in 1..sent
          PROVE  \/ \E j \in 0 + 1..Len(inbox') :
                      inbox'[j].kpi /\ inbox'[j].run = run /\ inbox'[j].nr = k
                 \/ \E a \in chart' : a.run = run /\ a.nr = k
      <4>1. CASE \E a \in chart : a.run = run /\ a.nr = k
        BY <3>3, <4>1
      <4>2. ASSUME NEW j \in n + 1..Len(inbox), inbox[j].kpi, inbox[j].run = run, inbox[j].nr = k
            PROVE  \/ \E i \in 0 + 1..Len(inbox') :
                        inbox'[i].kpi /\ inbox'[i].run = run /\ inbox'[i].nr = k
                   \/ \E a \in chart' : a.run = run /\ a.nr = k
        <5>1. j \in 1..Len(inbox)
          BY ONLY <1>1, <1>7, <4>2
        <5>2. CASE j = 1
          <6>1. point \in chart' /\ point.run = run /\ point.nr = k
            BY <1>2, <4>2, <5>2
          <6>2. QED
            BY <6>1
        <5>3. CASE j # 1
          <6>1. j - 1 \in 1..Len(inbox') /\ (j - 1) + 1 = j /\ j - 1 \in 0 + 1..Len(inbox')
            BY ONLY <1>1, <5>1, <5>3
          <6>2. inbox'[j - 1] = inbox[j]
            BY <1>1, <6>1
          <6>3. QED
            BY <4>2, <6>1, <6>2
        <5>4. QED
          BY <5>2, <5>3
      <4>3. QED
        BY <1>4, <4>1, <4>2 DEF Settles
    <3>5. PICK l \in Nat : l = 0
      OBVIOUS
    <3>6. l \in 0..Len(inbox')
      BY <1>1, <3>5
    <3>7. Settles(l)'
      BY <1>2, <1>5, <3>1, <3>2, <3>4, <3>5 DEF Settles
    <3>8. QED
      BY <3>6, <3>7
  <2>5. \/ sent = 0 /\ \A t \in Pings : ~Announced(t)
        \/ CalcId(run) = 0
        \/ n = 0 /\ calculationId = CalcId(run)
        \/ n > 0 /\ inbox[n].id = CalcId(run)
    <3>1. Settles(n)
      BY <1>4
    <3>2. QED
      BY <3>1 DEF Settles
  <2>6. QED
    BY ONLY <1>7, <2>3, <2>4, <2>5
<1>8. QED
  BY <1>4, <1>6, <1>7

(* A run starts while the page is connected: what comes from now on ...    *)
LEMMA StartWatch ==
  ASSUME OneRunInv, Start
  PROVE  WatchInv'
<1>1. /\ up /\ up' = up /\ link' = link /\ run' = run + 1 /\ sent' = 0
      /\ (watched' <=> link = "up") /\ inbox' = inbox /\ ping' = ping
  BY DEF Start
<1>2. Len(inbox) \in Nat
  BY DEF OneRunInv, TypeInv
<1>3. PICK l \in Nat : l = Len(inbox)
  BY <1>2
<1>4. l + 1..Len(inbox) = {} /\ 1..sent' = {} /\ l \in 0..Len(inbox)
  BY ONLY <1>1, <1>3
<1>5. \A t \in Pings : ~Announced(t)'
  <2>1. ASSUME NEW t \in Pings, ping[t].step = "kpi"
        PROVE  ping[t].run # run + 1
    <3>1. ping[t].run <= run /\ ping[t].run \in Nat /\ run \in Nat
      BY <2>1, PingTypes DEF OneRunInv, PingInv, TypeInv
    <3>2. QED
      BY <3>1
  <2>2. QED
    BY <1>1, <2>1 DEF Announced
<1>6. Settles(l)'
  BY <1>1, <1>4, <1>5 DEF Settles
<1>7. QED
  BY <1>1, <1>4, <1>6 DEF WatchInv

(* Before any KPI is sent nothing is awaited.                              *)
LEMMA WatchInit == Init => WatchInv
BY DEF Init, WatchInv

(* Every step keeps each KPI in the chart or on its way to it.             *)
LEMMA WatchStep == OneRunInv /\ WatchInv /\ [Next]_vars => WatchInv'
<1> SUFFICES ASSUME OneRunInv, WatchInv, [Next]_vars
             PROVE  WatchInv'
  OBVIOUS
<1> USE DEF pageVars, channelVars, serverVars, boundVars
<1>1. watched => up /\ link = "up"
  BY DEF WatchInv
<1>2. CASE UNCHANGED vars \/ WebsocketConnect \/ OnOpen
  <2>1. /\ UNCHANGED <<chart, calculationId, inbox, base, run, sent, stale, ping>>
        /\ UNCHANGED <<watched, up, link>>
    BY <1>2 DEF vars, WebsocketConnect, OnOpen
  <2>2. QED
    BY <1>1, <2>1, WatchFrame DEF Announced
<1>3. CASE Accept \/ OnClose
  <2>1. link # "up" /\ watched' = watched
    BY <1>3 DEF Accept, OnClose, Closes
  <2>2. QED
    BY <1>1, <2>1 DEF WatchInv
<1>4. CASE Break \/ ClickStart \/ Reload \/ Crash
  BY <1>4 DEF Break, ClickStart, Reload, Crash, WatchInv
<1>5. CASE Restart
  <2>1. ~up /\ watched' = watched
    BY <1>5 DEF Restart
  <2>2. QED
    BY <1>1, <2>1 DEF WatchInv
<1>6. ASSUME NEW t \in Pings, OnTimePing(t) \/ Compose(t)
      PROVE  WatchInv'
  <2>1. /\ UNCHANGED <<chart, calculationId, inbox, base, run, sent, stale>>
        /\ UNCHANGED <<watched, up, link>>
    BY <1>6 DEF OnTimePing, Compose
  <2>2. run' = run /\ ping'[t].step # "kpi" /\ \A q \in Pings \ {t} : ping'[q] = ping[q]
    <3>1. ping \in [Pings -> [step : {"idle", "compose", "tick", "kpi"}, run : Nat, told : Nat]]
      BY DEF OneRunInv, TypeInv
    <3>2. CASE OnTimePing(t)
      BY <3>1, <3>2 DEF OnTimePing, Idle
    <3>3. CASE Compose(t)
      BY <3>1, <3>3 DEF Compose
    <3>4. QED
      BY <1>6, <3>2, <3>3
  <2>3. \A q \in Pings : Announced(q)' => Announced(q)
    BY <2>2 DEF Announced
  <2>4. QED
    BY <1>1, <2>1, <2>3, WatchFrame
<1>7. QED
  BY <1>2, <1>3, <1>4, <1>5, <1>6, StartWatch, PostTickWatch, PostKpiWatch, OnMessageWatch
     DEF Next, Page, Server, Quiet

(* Whatever servers and runs came before: a page that has stayed connected *)
(* since the current run began shows every KPI of the run when it has      *)
(* received all, unless its start button was clicked or a tick composed in *)
(* an earlier run came late.                                               *)
THEOREM CompleteTheorem == Spec => []ChartIsComplete
<1>1. OneRunInv /\ WatchInv => ChartIsComplete
  <2> SUFFICES ASSUME OneRunInv, WatchInv, watched, ~stale, inbox = <<>>, NEW k \in 1..sent
               PROVE  \E a \in chart : a.run = run /\ a.nr = k
    BY DEF ChartIsComplete
  <2>1. Len(inbox) = 0
    OBVIOUS
  <2>2. PICK n \in 0..Len(inbox) : Settles(n)
    BY DEF WatchInv
  <2>3. n = 0 /\ n + 1..Len(inbox) = {}
    BY ONLY <2>1, <2>2
  <2>4. QED
    BY <2>2, <2>3 DEF Settles
<1>2. QED
  BY <1>1, OneRunInit, OneRunStep, WatchInit, WatchStep, PTL DEF Spec

=============================================================================
