-------------------------- MODULE StatisticsProofs --------------------------
(***************************************************************************)
(* Proofs about the operation statistics: whatever the numbers of threads, *)
(* sources and connections, the counters of a source add up between the    *)
(* calls for it.                                                           *)
(*                                                                         *)
(* While a call is under way its source's counters are ahead of each other *)
(* by amounts that the call's step tells (AddsUp, Inside).  That holds as  *)
(* long as the call is the only one for its source: then nobody else       *)
(* stores to these counters, and what the thread has loaded is current.    *)
(***************************************************************************)
EXTENDS Statistics, FiniteSetTheorems, TLAPS

Steps == {"idle", "lookup", "inserting", "operations", "to_write", "acquire", "acquired",
          "acquire_failed", "caught", "row", "reused", "row_failed", "written",
          "write_failed", "release"}

(* The steps before the first row                                          *)
Before == {"idle", "lookup", "inserting", "operations", "to_write", "acquire", "acquired",
           "acquire_failed", "caught"}

(* The connections that have the source's statement                        *)
Prepared(d) == {c \in Connections : d \in prepared[c]}

TypeInv ==
  /\ stats \in [Daqs -> [Counters -> Nat]]
  /\ prepared \in [Connections -> SUBSET Daqs]
  /\ pc \in [Threads -> Steps]
  /\ loaded \in [Threads -> Nat \cup {Nothing}]
  /\ conn \in [Threads -> Connections \cup {Nothing}]
  /\ size \in [Threads -> Nat] /\ left \in [Threads -> Nat] /\ failed \in [Threads -> Nat]
  /\ handle \in [Threads -> BOOLEAN]
  /\ commands \in Nat /\ failures \in Nat
  /\ \A d \in Daqs : IsFiniteSet(Prepared(d))

(* The variables of a call fit its step.                                   *)
Fits(t) ==
  /\ pc[t] \in Before => failed[t] = 0 /\ ~handle[t] /\ left[t] = size[t]
  /\ pc[t] \in (Before \ {"idle"}) \cup {"row"} => left[t] > 0
  /\ failed[t] + left[t] <= size[t]
  /\ pc[t] = "reused" => handle[t]
  /\ pc[t] \in {"acquired", "row", "reused", "row_failed"} => conn[t] \in Connections
  /\ handle[t] => conn[t] \in Connections /\ Source[t] \in prepared[conn[t]]
  /\ pc[t] = "row_failed" => failures # 0
  /\ loaded[t] # Nothing => pc[t] \in DOMAIN Increments

(* A source's counters add up when so many calls have yet to count that    *)
(* they have a connection or none, so many exceptions are not counted yet, *)
(* so many rows and so many failed rows are not, and so many uses of a     *)
(* prepared statement.                                                     *)
AddsUp(d, asked, thrown, rows, bad, again) ==
  /\ stats[d]["operations"] = stats[d]["acquired"] + stats[d]["acquire_failed"] + asked
  /\ stats[d]["exceptions"] + thrown = stats[d]["acquire_failed"] + stats[d]["write_failed"] + bad
  /\ stats[d]["written"] + stats[d]["write_failed"] + rows <= stats[d]["to_write"]
  /\ stats[d]["acquire_failed"] = 0 =>
       stats[d]["written"] + stats[d]["write_failed"] + rows = stats[d]["to_write"]
  /\ failures = 0 /\ commands = 0 =>
       stats[d]["acquired"] = stats[d]["reused"] + Cardinality(Prepared(d)) + again

OneIf(b) == IF b THEN 1 ELSE 0

Asked(t) == OneIf(pc[t] \in {"to_write", "acquire", "acquired", "acquire_failed"})

Thrown(t) == OneIf(pc[t] \in {"caught", "row_failed"})

Rows(t) ==
  CASE pc[t] \in {"acquire", "acquired", "acquire_failed", "row", "reused", "row_failed",
                  "written"} -> size[t]
    [] pc[t] = "write_failed" -> failed[t]
    [] OTHER -> 0

Bad(t) ==
  IF pc[t] \in {"row", "reused", "row_failed", "written", "write_failed"} THEN failed[t] ELSE 0

Again(t) == OneIf((pc[t] = "row" /\ ~handle[t]) \/ pc[t] = "reused")

Inside(t) == pc[t] \notin {"idle", "lookup"}

(* A thread that alone is inside a call for its source                     *)
Amid(t) ==
  /\ AddsUp(Source[t], Asked(t), Thrown(t), Rows(t), Bad(t), Again(t))
  /\ loaded[t] # Nothing => loaded[t] = stats[Source[t]][Increments[pc[t]]]

Clean == Daqs \ (overlap \cup cut)

StatisticsInv ==
  /\ TypeInv
  /\ \A t \in Threads : Fits(t)
  /\ command # "none" => commands > 0
  /\ \A t, q \in Threads :
       Inside(t) /\ Inside(q) /\ Source[t] = Source[q] /\ Source[t] \in Clean => t = q
  /\ \A d \in Clean : ~Busy(d) => AddsUp(d, 0, 0, 0, 0, 0)
  /\ \A t \in Threads : Inside(t) /\ Source[t] \in Clean => Amid(t)

-----------------------------------------------------------------------------

(* No call is in progress, and every counter is zero.                      *)
LEMMA StatisticsInit == Init => StatisticsInv
<1> SUFFICES ASSUME Init
             PROVE  StatisticsInv
  OBVIOUS
<1>1. /\ stats = [d \in Daqs |-> Zero] /\ prepared = [c \in Connections |-> {}]
      /\ pc = [t \in Threads |-> "idle"]
      /\ loaded = [t \in Threads |-> Nothing] /\ conn = [t \in Threads |-> Nothing]
      /\ size = [t \in Threads |-> 0] /\ left = size /\ failed = size
      /\ handle = [t \in Threads |-> FALSE]
      /\ command = "none" /\ commands = 0 /\ failures = 0
  BY DEF Init
<1>2. Zero \in [Counters -> Nat] /\ \A c \in Counters : Zero[c] = 0
  BY DEF Zero
<1>3. \A d \in Daqs : Prepared(d) = {}
  BY <1>1 DEF Prepared
<1>4. IsFiniteSet({}) /\ Cardinality({}) = 0
  BY FS_EmptySet
<1>5. TypeInv
  BY <1>1, <1>2, <1>3, <1>4 DEF TypeInv, Steps
<1>6. \A t \in Threads : Fits(t) /\ ~Inside(t)
  BY <1>1 DEF Fits, Inside
<1>7. ASSUME NEW d \in Daqs
      PROVE  AddsUp(d, 0, 0, 0, 0, 0)
  <2>1. \A c \in Counters : stats[d][c] = 0
    BY <1>1, <1>2
  <2>2. Cardinality(Prepared(d)) = 0
    BY <1>3, <1>4
  <2>3. QED
    BY <2>1, <2>2 DEF AddsUp, Counters
<1>8. QED
  BY <1>1, <1>5, <1>6, <1>7 DEF StatisticsInv, Clean

(* A step of a thread inside a call keeps the invariant if it keeps the    *)
(* part that is about the thread and its source.                           *)
LEMMA InsideStep ==
  ASSUME StatisticsInv, TypeInv', NEW t \in Threads, Inside(t), pc'[t] # "lookup",
         \A q \in Threads \ {t} :
           /\ pc'[q] = pc[q] /\ loaded'[q] = loaded[q] /\ conn'[q] = conn[q]
           /\ size'[q] = size[q] /\ left'[q] = left[q] /\ failed'[q] = failed[q]
           /\ handle'[q] = handle[q],
         \A d \in Daqs \ {Source[t]} : stats'[d] = stats[d] /\ Prepared(d)' = Prepared(d),
         \A c \in Connections : prepared[c] \subseteq prepared'[c],
         UNCHANGED <<overlap, cut, command, commands>>, failures' = 0 => failures = 0,
         Fits(t)',
         Source[t] \in Clean /\ Amid(t) =>
           IF pc'[t] = "idle" THEN AddsUp(Source[t], 0, 0, 0, 0, 0)' ELSE Amid(t)'
  PROVE  StatisticsInv'
<1>1. Clean' = Clean
  BY DEF Clean
<1>2. \A q \in Threads : (Inside(q)' => Inside(q)) /\ (q # t => (Inside(q)' <=> Inside(q)))
  BY DEF Inside
<1>3. \A q \in Threads : Fits(q)'
  <2>1. ASSUME NEW q \in Threads, q # t
        PROVE  Fits(q)'
    <3>1. Fits(q)
      BY DEF StatisticsInv
    <3>2. QED
      BY <2>1, <3>1 DEF Fits
  <2>2. QED
    BY <2>1
<1>4. \A q, r \in Threads :
        Inside(q)' /\ Inside(r)' /\ Source[q] = Source[r] /\ Source[q] \in Clean' => q = r
  BY <1>1, <1>2 DEF StatisticsInv
<1>5. ASSUME NEW d \in Clean, ~Busy(d)'
      PROVE  AddsUp(d, 0, 0, 0, 0, 0)'
  <2>1. CASE d = Source[t]
    <3>1. pc'[t] = "idle"
      BY <1>5, <2>1 DEF Busy
    <3>2. Amid(t)
      BY <2>1 DEF StatisticsInv
    <3>3. QED
      BY <2>1, <3>1, <3>2
  <2>2. CASE d # Source[t]
    <3>1. ~Busy(d)
      BY <1>5, <2>2 DEF Busy
    <3>2. AddsUp(d, 0, 0, 0, 0, 0)
      BY <3>1 DEF StatisticsInv
    <3>3. stats'[d] = stats[d] /\ Prepared(d)' = Prepared(d)
      BY <2>2 DEF Clean
    <3>4. QED
      BY <3>2, <3>3 DEF AddsUp
  <2>3. QED
    BY <2>1, <2>2
<1>6. ASSUME NEW q \in Threads, Inside(q)', Source[q] \in Clean
      PROVE  Amid(q)'
  <2>1. Inside(q) /\ Amid(q)
    BY <1>2, <1>6 DEF StatisticsInv
  <2>2. CASE q = t
    BY <1>6, <2>1, <2>2 DEF Inside
  <2>3. CASE q # t
    <3>1. Source[q] \in Daqs \ {Source[t]}
      BY <1>6, <2>1, <2>3, SourceAssumption DEF StatisticsInv
    <3>2. stats'[Source[q]] = stats[Source[q]] /\ Prepared(Source[q])' = Prepared(Source[q])
      BY <3>1
    <3>3. /\ Asked(q)' = Asked(q) /\ Thrown(q)' = Thrown(q) /\ Rows(q)' = Rows(q)
          /\ Bad(q)' = Bad(q) /\ Again(q)' = Again(q)
      BY <2>3 DEF Asked, Thrown, Rows, Bad, Again
    <3>4. AddsUp(Source[q], Asked(q), Thrown(q), Rows(q), Bad(q), Again(q))'
      BY <2>1, <3>2, <3>3 DEF Amid, AddsUp
    <3>5. loaded'[q] # Nothing => loaded'[q] = stats'[Source[q]][Increments[pc'[q]]]
      BY <2>1, <2>3, <3>2 DEF Amid
    <3>6. QED
      BY <3>4, <3>5 DEF Amid
  <2>4. QED
    BY <2>2, <2>3
<1>7. command' # "none" => commands' > 0
  BY DEF StatisticsInv
<1>8. QED
  BY <1>1, <1>3, <1>4, <1>5, <1>6, <1>7 DEF StatisticsInv

(* What the steps owe the counters                                         *)
LEMMA Owed ==
  ASSUME NEW t \in Threads
  PROVE  /\ Asked(t) = IF pc[t] \in {"to_write", "acquire", "acquired", "acquire_failed"} THEN 1 ELSE 0
         /\ Thrown(t) = IF pc[t] \in {"caught", "row_failed"} THEN 1 ELSE 0
         /\ pc[t] \in {"inserting", "operations", "to_write", "caught", "release"} => Rows(t) = 0
         /\ pc[t] \in {"acquire", "acquired", "acquire_failed", "row", "reused", "row_failed",
                       "written"} => Rows(t) = size[t]
         /\ pc[t] = "write_failed" => Rows(t) = failed[t]
         /\ Bad(t) = IF pc[t] \in {"row", "reused", "row_failed", "written", "write_failed"}
                     THEN failed[t] ELSE 0
         /\ Again(t) = IF (pc[t] = "row" /\ ~handle[t]) \/ pc[t] = "reused" THEN 1 ELSE 0
BY DEF Asked, Thrown, Rows, Bad, Again, OneIf

(* operator[] inserts the key of a new source.                             *)
LEMMA InsertKeyStep ==
  ASSUME StatisticsInv, NEW t \in Threads, InsertKey(t)
  PROVE  StatisticsInv'
<1>1. /\ pc[t] = "inserting" /\ pc' = [pc EXCEPT ![t] = "operations"]
      /\ UNCHANGED <<stats, commands, command, failures, prepared, loaded, conn, size, left,
                     failed, handle, overlap, cut>>
  BY DEF InsertKey, ioVars, boundVars
<1>2. TypeInv /\ Fits(t)
  BY DEF StatisticsInv
<1>3. TypeInv' /\ pc'[t] = "operations" /\ \A q \in Threads \ {t} : pc'[q] = pc[q]
  BY <1>1, <1>2 DEF TypeInv, Steps, Prepared
<1>4. Fits(t)'
  BY <1>1, <1>2, <1>3 DEF Fits, Before, Increments
<1>5. ASSUME Amid(t)
      PROVE  Amid(t)'
  <2>1. loaded[t] = Nothing
    BY <1>1, <1>2 DEF Fits, Increments
  <2>2. /\ Asked(t)' = Asked(t) /\ Thrown(t)' = Thrown(t) /\ Rows(t)' = Rows(t)
        /\ Bad(t)' = Bad(t) /\ Again(t)' = Again(t)
    BY <1>1, <1>3 DEF Asked, Thrown, Rows, Bad, Again
  <2>3. QED
    BY <1>1, <1>5, <2>1, <2>2 DEF Amid, AddsUp, Prepared
<1>6. QED
  BY <1>1, <1>3, <1>4, <1>5, InsideStep DEF Inside, Prepared

(* A counter is read for its increment.                                    *)
LEMMA LoadStep ==
  ASSUME StatisticsInv, NEW t \in Threads, Load(t)
  PROVE  StatisticsInv'
<1> DEFINE value == stats[Source[t]][Increments[pc[t]]]
<1>1. /\ pc[t] \in DOMAIN Increments /\ loaded' = [loaded EXCEPT ![t] = value]
      /\ UNCHANGED <<stats, commands, command, failures, prepared, pc, conn, size, left,
                     failed, handle, overlap, cut>>
  BY DEF Load, mapVars, ioVars, boundVars
<1>2. TypeInv /\ Fits(t)
  BY DEF StatisticsInv
<1>3. value \in Nat
  <2>1. Increments[pc[t]] \in Counters
    BY <1>1 DEF Increments, Counters
  <2>2. QED
    BY <1>2, <2>1, SourceAssumption DEF TypeInv
<1>4. loaded'[t] = value /\ \A q \in Threads \ {t} : loaded'[q] = loaded[q]
  BY <1>1, <1>2 DEF TypeInv
<1>5. TypeInv'
  BY <1>1, <1>2, <1>3 DEF TypeInv, Prepared
<1>6. Fits(t)'
  BY <1>1, <1>2 DEF Fits
<1>7. ASSUME Amid(t)
      PROVE  Amid(t)'
  <2>1. /\ Asked(t)' = Asked(t) /\ Thrown(t)' = Thrown(t) /\ Rows(t)' = Rows(t)
        /\ Bad(t)' = Bad(t) /\ Again(t)' = Again(t)
    BY <1>1 DEF Asked, Thrown, Rows, Bad, Again
  <2>2. QED
    BY <1>1, <1>4, <1>7, <2>1 DEF Amid, AddsUp, Prepared
<1>8. Inside(t) /\ pc'[t] # "lookup" /\ pc'[t] # "idle"
  BY <1>1 DEF Inside, Increments
<1>9. QED
  BY <1>1, <1>4, <1>5, <1>6, <1>7, <1>8, InsideStep DEF Prepared

(* A connection is acquired.                                               *)
LEMMA AcquireStep ==
  ASSUME StatisticsInv, NEW t \in Threads, Acquire(t)
  PROVE  StatisticsInv'
<1>1. PICK c \in Connections : conn' = [conn EXCEPT ![t] = c]
  BY DEF Acquire, IdleConnections
<1>2. /\ pc[t] = "acquire" /\ pc' = [pc EXCEPT ![t] = "acquired"]
      /\ UNCHANGED <<stats, commands, command, failures, prepared, loaded, size, left,
                     failed, handle, overlap, cut>>
  BY DEF Acquire, mapVars, ioVars, boundVars
<1>3. TypeInv /\ Fits(t)
  BY DEF StatisticsInv
<1>4. /\ pc'[t] = "acquired" /\ \A q \in Threads \ {t} : pc'[q] = pc[q]
      /\ conn'[t] = c /\ \A q \in Threads \ {t} : conn'[q] = conn[q]
  BY <1>1, <1>2, <1>3 DEF TypeInv
<1>5. TypeInv'
  BY <1>1, <1>2, <1>3 DEF TypeInv, Steps, Prepared
<1>6. Fits(t)'
  BY <1>1, <1>2, <1>3, <1>4 DEF Fits, Before, Increments
<1>7. ASSUME Amid(t)
      PROVE  Amid(t)'
  <2>1. loaded[t] = Nothing
    BY <1>2, <1>3 DEF Fits, Increments
  <2>2. /\ Asked(t)' = Asked(t) /\ Thrown(t)' = Thrown(t) /\ Rows(t)' = Rows(t)
        /\ Bad(t)' = Bad(t) /\ Again(t)' = Again(t)
    BY <1>2, <1>4 DEF Asked, Thrown, Rows, Bad, Again
  <2>3. QED
    BY <1>2, <1>7, <2>1, <2>2 DEF Amid, AddsUp, Prepared
<1>8. QED
  BY <1>2, <1>4, <1>5, <1>6, <1>7, InsideStep DEF Inside, Prepared

(* No connection can be acquired.                                          *)
LEMMA AcquireThrowsStep ==
  ASSUME StatisticsInv, NEW t \in Threads, AcquireThrows(t)
  PROVE  StatisticsInv'
<1>1. /\ pc[t] = "acquire" /\ pc' = [pc EXCEPT ![t] = "acquire_failed"]
      /\ UNCHANGED <<stats, commands, command, prepared, loaded, conn, size, left,
                     failed, handle, overlap, cut>>
      /\ failures' = failures \/ failures' = failures + 1
  BY DEF AcquireThrows, mapVars, ioVars, DatabaseFails
<1>2. TypeInv /\ Fits(t)
  BY DEF StatisticsInv
<1>3. failures \in Nat /\ failures' \in Nat /\ (failures' = 0 => failures = 0)
  BY <1>1, <1>2 DEF TypeInv
<1>4. pc'[t] = "acquire_failed" /\ \A q \in Threads \ {t} : pc'[q] = pc[q]
  BY <1>1, <1>2 DEF TypeInv
<1>5. TypeInv'
  BY <1>1, <1>2, <1>3 DEF TypeInv, Steps, Prepared
<1>6. Fits(t)'
  BY <1>1, <1>2, <1>4 DEF Fits, Before, Increments
<1>7. ASSUME Amid(t)
      PROVE  Amid(t)'
  <2>1. loaded[t] = Nothing
    BY <1>1, <1>2 DEF Fits, Increments
  <2>2. /\ Asked(t)' = Asked(t) /\ Thrown(t)' = Thrown(t) /\ Rows(t)' = Rows(t)
        /\ Bad(t)' = Bad(t) /\ Again(t)' = Again(t)
    BY <1>1, <1>4 DEF Asked, Thrown, Rows, Bad, Again
  <2>3. QED
    BY <1>1, <1>3, <1>7, <2>1, <2>2 DEF Amid, AddsUp, Prepared
<1>8. QED
  BY <1>1, <1>3, <1>4, <1>5, <1>6, <1>7, InsideStep DEF Inside, Prepared

(* A connection goes back to the pool.                                     *)
LEMMA ReleaseStep ==
  ASSUME StatisticsInv, NEW t \in Threads, Release(t)
  PROVE  StatisticsInv'
<1>1. /\ pc[t] = "release" /\ pc' = [pc EXCEPT ![t] = "idle"]
      /\ conn' = [conn EXCEPT ![t] = Nothing]
      /\ size' = [size EXCEPT ![t] = 0] /\ left' = [left EXCEPT ![t] = 0]
      /\ failed' = [failed EXCEPT ![t] = 0] /\ handle' = [handle EXCEPT ![t] = FALSE]
      /\ UNCHANGED <<stats, commands, command, failures, prepared, loaded, overlap, cut>>
  BY DEF Release, Locals, mapVars, ioVars, boundVars
<1>2. TypeInv /\ Fits(t)
  BY DEF StatisticsInv
<1>3. /\ pc'[t] = "idle" /\ size'[t] = 0 /\ left'[t] = 0 /\ failed'[t] = 0 /\ ~handle'[t]
      /\ \A q \in Threads \ {t} :
           /\ pc'[q] = pc[q] /\ loaded'[q] = loaded[q] /\ conn'[q] = conn[q]
           /\ size'[q] = size[q] /\ left'[q] = left[q] /\ failed'[q] = failed[q]
           /\ handle'[q] = handle[q]
  BY <1>1, <1>2 DEF TypeInv
<1>4. TypeInv'
  BY <1>1, <1>2 DEF TypeInv, Steps, Prepared
<1>5. Fits(t)'
  BY <1>1, <1>2, <1>3 DEF Fits, Increments
<1>6. ASSUME Amid(t)
      PROVE  AddsUp(Source[t], 0, 0, 0, 0, 0)'
  <2>1. Asked(t) = 0 /\ Thrown(t) = 0 /\ Rows(t) = 0 /\ Bad(t) = 0 /\ Again(t) = 0
    BY <1>1, Owed
  <2>2. QED
    BY <1>1, <1>6, <2>1 DEF Amid, AddsUp, Prepared
<1>7. QED
  BY <1>1, <1>3, <1>4, <1>5, <1>6, InsideStep DEF Inside, Prepared

(* A connection prepares a source's statement.                             *)
LEMMA Prepares ==
  ASSUME TypeInv, NEW c \in Connections, NEW d \in Daqs,
         prepared' = [prepared EXCEPT ![c] = @ \cup {d}]
  PROVE  /\ prepared' \in [Connections -> SUBSET Daqs]
         /\ \A e \in Daqs \ {d} : Prepared(e)' = Prepared(e)
         /\ \A e \in Daqs : IsFiniteSet(Prepared(e)')
         /\ \A b \in Connections : prepared[b] \subseteq prepared'[b]
         /\ d \in prepared'[c]
         /\ Cardinality(Prepared(d)) \in Nat
         /\ Cardinality(Prepared(d)') =
              Cardinality(Prepared(d)) + (IF d \in prepared[c] THEN 0 ELSE 1)
<1>1. prepared \in [Connections -> SUBSET Daqs] /\ \A e \in Daqs : IsFiniteSet(Prepared(e))
  BY DEF TypeInv
<1>2. /\ prepared' \in [Connections -> SUBSET Daqs] /\ d \in prepared'[c]
      /\ \A b \in Connections : prepared[b] \subseteq prepared'[b]
  BY <1>1
<1>3. \A e \in Daqs \ {d} : Prepared(e)' = Prepared(e)
  BY <1>1 DEF Prepared
<1>4. Prepared(d)' = Prepared(d) \cup {c} /\ (c \in Prepared(d) <=> d \in prepared[c])
  BY <1>1 DEF Prepared
<1>5. /\ IsFiniteSet(Prepared(d) \cup {c})
      /\ Cardinality(Prepared(d) \cup {c}) =
           IF c \in Prepared(d) THEN Cardinality(Prepared(d)) ELSE Cardinality(Prepared(d)) + 1
  BY <1>1, FS_AddElement
<1>6. Cardinality(Prepared(d)) \in Nat
  BY <1>1, FS_CardinalityType
<1>7. /\ IsFiniteSet(Prepared(d)')
      /\ Cardinality(Prepared(d)') =
           Cardinality(Prepared(d)) + (IF d \in prepared[c] THEN 0 ELSE 1)
  BY <1>4, <1>5, <1>6
<1>8. \A e \in Daqs : IsFiniteSet(Prepared(e)')
  <2>1. ASSUME NEW e \in Daqs, e # d
        PROVE  IsFiniteSet(Prepared(e)')
    BY <1>1, <1>3, <2>1
  <2>2. QED
    BY <1>7, <2>1
<1>9. QED
  BY <1>2, <1>3, <1>6, <1>7, <1>8

(* A row is written.                                                       *)
LEMMA QueryStep ==
  ASSUME StatisticsInv, NEW t \in Threads, Query(t)
  PROVE  StatisticsInv'
<1> DEFINE reuse == ~handle[t] /\ Source[t] \in prepared[conn[t]]
           next == IF reuse THEN "reused" ELSE IF left[t] > 1 THEN "row" ELSE "written"
<1>1. /\ pc[t] = "row" /\ pc' = [pc EXCEPT ![t] = next]
      /\ left' = [left EXCEPT ![t] = @ - 1] /\ handle' = [handle EXCEPT ![t] = TRUE]
      /\ prepared' = [prepared EXCEPT ![conn[t]] = @ \cup {Source[t]}]
      /\ UNCHANGED <<stats, commands, command, failures, loaded, conn, size, failed, overlap, cut>>
  BY DEF Query, mapVars, ioVars, boundVars
<1>2. TypeInv /\ Fits(t)
  BY DEF StatisticsInv
<1>3. conn[t] \in Connections /\ left[t] > 0 /\ left[t] \in Nat /\ loaded[t] = Nothing
  BY <1>1, <1>2 DEF Fits, TypeInv, Increments
<1>4. Source[t] \in Daqs
  BY SourceAssumption
<1>5. /\ prepared' \in [Connections -> SUBSET Daqs]
      /\ \A e \in Daqs \ {Source[t]} : Prepared(e)' = Prepared(e)
      /\ \A e \in Daqs : IsFiniteSet(Prepared(e)')
      /\ \A c \in Connections : prepared[c] \subseteq prepared'[c]
      /\ Source[t] \in prepared'[conn[t]]
      /\ Cardinality(Prepared(Source[t])) \in Nat
      /\ Cardinality(Prepared(Source[t])') =
           Cardinality(Prepared(Source[t])) + (IF Source[t] \in prepared[conn[t]] THEN 0 ELSE 1)
  BY <1>1, <1>2, <1>3, <1>4, Prepares
<1>6. /\ pc'[t] = next /\ left'[t] = left[t] - 1 /\ handle'[t] /\ left[t] - 1 \in Nat
      /\ \A q \in Threads \ {t} :
           pc'[q] = pc[q] /\ left'[q] = left[q] /\ handle'[q] = handle[q]
  BY <1>1, <1>2, <1>3 DEF TypeInv
<1>7. next \in {"reused", "row", "written"} /\ (next = "row" => left[t] - 1 > 0)
  BY <1>3
<1> HIDE DEF next
<1>8. TypeInv'
  BY <1>1, <1>2, <1>5, <1>6, <1>7 DEF TypeInv, Steps
<1>9. Fits(t)'
  <2>1. failed[t] \in Nat /\ size[t] \in Nat /\ failed[t] + left[t] <= size[t]
    BY <1>2 DEF Fits, TypeInv
  <2>2. failed[t] + (left[t] - 1) <= size[t]
    BY ONLY <1>3, <2>1
  <2>3. QED
    BY <1>1, <1>3, <1>5, <1>6, <1>7, <2>2 DEF Fits, Before
<1>10. ASSUME Amid(t)
       PROVE  Amid(t)'
  <2>1. /\ Asked(t)' = Asked(t) /\ Thrown(t)' = Thrown(t) /\ Rows(t)' = Rows(t)
        /\ Bad(t)' = Bad(t)
    BY <1>1, <1>6, <1>7 DEF Asked, Thrown, Rows, Bad
  <2>2. Cardinality(Prepared(Source[t])') + Again(t)' = Cardinality(Prepared(Source[t])) + Again(t)
    <3>1. Again(t) = IF ~handle[t] THEN 1 ELSE 0
      BY <1>1, Owed
    <3>2. Again(t)' = IF next = "reused" THEN 1 ELSE 0
      BY <1>6 DEF Again, OneIf
    <3>3. next = "reused" <=> reuse
      BY DEF next
    <3>4. CASE handle[t]
      <4>1. Source[t] \in prepared[conn[t]]
        BY <1>2, <3>4 DEF Fits
      <4>2. QED
        BY <1>5, <3>1, <3>2, <3>3, <3>4, <4>1
    <3>5. CASE ~handle[t]
      BY <1>5, <3>1, <3>2, <3>3, <3>5
    <3>6. QED
      BY <3>4, <3>5
  <2>3. ASSUME NEW a \in Nat, NEW r \in Nat, a = r + Cardinality(Prepared(Source[t])) + Again(t)
        PROVE  a = r + Cardinality(Prepared(Source[t])') + Again(t)'
    <3>1. /\ Again(t) \in Nat /\ Again(t)' \in Nat
          /\ Cardinality(Prepared(Source[t])') \in Nat
      BY <1>5 DEF Again, OneIf
    <3>2. QED
      BY ONLY <1>5, <2>2, <2>3, <3>1
  <2>4. stats[Source[t]]["acquired"] \in Nat /\ stats[Source[t]]["reused"] \in Nat
    BY <1>2, <1>4 DEF TypeInv, Counters
  <2>5. AddsUp(Source[t], Asked(t), Thrown(t), Rows(t), Bad(t), Again(t))'
    BY <1>1, <1>10, <2>1, <2>3, <2>4 DEF Amid, AddsUp
  <2>6. QED
    BY <1>1, <1>3, <2>5 DEF Amid
<1>11. QED
  BY <1>1, <1>5, <1>6, <1>7, <1>8, <1>9, <1>10, InsideStep DEF Inside

(* A row fails.                                                            *)
LEMMA QueryThrowsStep ==
  ASSUME StatisticsInv, NEW t \in Threads, QueryThrows(t)
  PROVE  StatisticsInv'
<1>1. /\ pc[t] = "row" /\ pc' = [pc EXCEPT ![t] = "row_failed"]
      /\ left' = [left EXCEPT ![t] = @ - 1] /\ failed' = [failed EXCEPT ![t] = @ + 1]
      /\ failures' = failures + 1
      /\ UNCHANGED <<stats, commands, command, loaded, conn, size, overlap, cut>>
  BY DEF QueryThrows, mapVars, ioVars, DatabaseFails
<1>2. \/ UNCHANGED <<handle, prepared>>
      \/ /\ handle' = [handle EXCEPT ![t] = TRUE]
         /\ prepared' = [prepared EXCEPT ![conn[t]] = @ \cup {Source[t]}]
  BY DEF QueryThrows
<1>3. TypeInv /\ Fits(t)
  BY DEF StatisticsInv
<1>4. /\ conn[t] \in Connections /\ loaded[t] = Nothing
      /\ left[t] > 0 /\ left[t] \in Nat /\ failed[t] \in Nat /\ size[t] \in Nat
      /\ failed[t] + left[t] <= size[t]
  BY <1>1, <1>3 DEF Fits, TypeInv, Increments
<1>5. Source[t] \in Daqs
  BY SourceAssumption
<1>6. /\ handle' \in [Threads -> BOOLEAN] /\ prepared' \in [Connections -> SUBSET Daqs]
      /\ \A e \in Daqs \ {Source[t]} : Prepared(e)' = Prepared(e)
      /\ \A e \in Daqs : IsFiniteSet(Prepared(e)')
      /\ \A c \in Connections : prepared[c] \subseteq prepared'[c]
      /\ \A q \in Threads \ {t} : handle'[q] = handle[q]
      /\ handle'[t] => Source[t] \in prepared'[conn[t]]
  <2>1. CASE UNCHANGED <<handle, prepared>>
    BY <1>3, <2>1 DEF TypeInv, Fits, Prepared
  <2>2. CASE /\ handle' = [handle EXCEPT ![t] = TRUE]
             /\ prepared' = [prepared EXCEPT ![conn[t]] = @ \cup {Source[t]}]
    <3>1. handle' \in [Threads -> BOOLEAN] /\ \A q \in Threads \ {t} : handle'[q] = handle[q]
      BY <1>3, <2>2 DEF TypeInv
    <3>2. QED
      BY <1>3, <1>4, <1>5, <2>2, <3>1, Prepares
  <2>3. QED
    BY <1>2, <2>1, <2>2
<1>7. /\ pc'[t] = "row_failed" /\ left'[t] = left[t] - 1 /\ failed'[t] = failed[t] + 1
      /\ left[t] - 1 \in Nat /\ failed[t] + 1 \in Nat
      /\ (failed[t] + 1) + (left[t] - 1) <= size[t]
      /\ \A q \in Threads \ {t} :
           pc'[q] = pc[q] /\ left'[q] = left[q] /\ failed'[q] = failed[q]
  BY <1>1, <1>3, <1>4 DEF TypeInv
<1>8. failures' \in Nat /\ failures' # 0
  BY <1>1, <1>3 DEF TypeInv
<1>9. TypeInv'
  BY <1>1, <1>3, <1>6, <1>7, <1>8 DEF TypeInv, Steps
<1>10. Fits(t)'
  BY <1>1, <1>4, <1>6, <1>7, <1>8 DEF Fits, Before
<1>11. ASSUME Amid(t)
       PROVE  Amid(t)'
  <2>1. Thrown(t) = 0 /\ Bad(t) = failed[t] /\ Asked(t) = 0 /\ Rows(t) = size[t]
    BY <1>1, Owed
  <2>2. Thrown(t)' = 1 /\ Bad(t)' = failed[t] + 1 /\ Asked(t)' = 0 /\ Rows(t)' = size[t]
    BY <1>1, <1>7 DEF Asked, Thrown, Rows, Bad, OneIf
  <2>3. stats[Source[t]] \in [Counters -> Nat]
    BY <1>3, <1>5 DEF TypeInv
  <2>4. AddsUp(Source[t], Asked(t), Thrown(t), Rows(t), Bad(t), Again(t))'
    BY <1>1, <1>4, <1>8, <1>11, <2>1, <2>2, <2>3 DEF Amid, AddsUp, Counters
  <2>5. QED
    BY <1>1, <1>4, <2>4 DEF Amid
<1>12. QED
  BY <1>1, <1>6, <1>7, <1>8, <1>9, <1>10, <1>11, InsideStep DEF Inside

(* What a store does to the thread's source and to nobody else's           *)
LEMMA Stored ==
  ASSUME StatisticsInv, NEW t \in Threads, Store(t),
         NEW c \in Counters, Increments[pc[t]] = c, Amount(t) \in Nat
  PROVE  /\ stats' \in [Daqs -> [Counters -> Nat]]
         /\ \A d \in Daqs \ {Source[t]} : stats'[d] = stats[d]
         /\ \A e \in Counters \ {c} : stats'[Source[t]][e] = stats[Source[t]][e]
         /\ Amid(t) => stats'[Source[t]][c] = stats[Source[t]][c] + Amount(t)
<1>1. stats' = [stats EXCEPT ![Source[t]][c] = loaded[t] + Amount(t)] /\ loaded[t] # Nothing
  BY DEF Store
<1>2. /\ stats \in [Daqs -> [Counters -> Nat]] /\ loaded[t] \in Nat /\ Source[t] \in Daqs
  BY <1>1, SourceAssumption DEF StatisticsInv, TypeInv
<1>3. loaded[t] + Amount(t) \in Nat
  BY <1>2
<1> DEFINE value == loaded[t] + Amount(t)
<1>4. /\ stats' \in [Daqs -> [Counters -> Nat]]
      /\ \A d \in Daqs \ {Source[t]} : stats'[d] = stats[d]
      /\ \A e \in Counters \ {c} : stats'[Source[t]][e] = stats[Source[t]][e]
      /\ stats'[Source[t]][c] = value
  <2>1. value \in Nat /\ stats' = [stats EXCEPT ![Source[t]][c] = value]
    BY <1>1, <1>3
  <2> HIDE DEF value
  <2>2. QED
    BY <1>2, <2>1
<1>5. Amid(t) => loaded[t] = stats[Source[t]][c]
  BY <1>1 DEF Amid
<1>6. QED
  BY <1>4, <1>5

(* What a store does to the variables of the call                          *)
LEMMA StoreFrame ==
  ASSUME StatisticsInv, NEW t \in Threads, Store(t), NEW n \in Steps, After(t) = n
  PROVE  /\ pc'[t] = n /\ loaded'[t] = Nothing
         /\ n # "idle" => UNCHANGED <<size, left, failed, handle>>
         /\ n = "idle" => size'[t] = 0 /\ left'[t] = 0 /\ failed'[t] = 0 /\ ~handle'[t]
         /\ \A q \in Threads \ {t} :
              /\ pc'[q] = pc[q] /\ loaded'[q] = loaded[q] /\ conn'[q] = conn[q]
              /\ size'[q] = size[q] /\ left'[q] = left[q] /\ failed'[q] = failed[q]
              /\ handle'[q] = handle[q]
         /\ UNCHANGED <<commands, command, failures, prepared, conn, overlap, cut>>
         /\ stats' \in [Daqs -> [Counters -> Nat]] => TypeInv'
<1>1. /\ pc' = [pc EXCEPT ![t] = n] /\ loaded' = [loaded EXCEPT ![t] = Nothing]
      /\ UNCHANGED <<commands, command, failures, prepared, conn, overlap, cut>>
      /\ Locals(t, n)
  BY DEF Store, ioVars, boundVars
<1>2. TypeInv
  BY DEF StatisticsInv
<1>3. /\ pc' \in [Threads -> Steps] /\ loaded' \in [Threads -> Nat \cup {Nothing}]
      /\ pc'[t] = n /\ loaded'[t] = Nothing
      /\ \A q \in Threads \ {t} : pc'[q] = pc[q] /\ loaded'[q] = loaded[q]
  BY <1>1, <1>2 DEF TypeInv
<1>4. CASE n # "idle"
  <2>1. UNCHANGED <<size, left, failed, handle>>
    BY <1>1, <1>4 DEF Locals
  <2>2. stats' \in [Daqs -> [Counters -> Nat]] => TypeInv'
    BY <1>1, <1>2, <1>3, <2>1 DEF TypeInv, Prepared
  <2>3. QED
    BY <1>1, <1>3, <1>4, <2>1, <2>2
<1>5. CASE n = "idle"
  <2>1. /\ size' = [size EXCEPT ![t] = 0] /\ left' = [left EXCEPT ![t] = 0]
        /\ failed' = [failed EXCEPT ![t] = 0] /\ handle' = [handle EXCEPT ![t] = FALSE]
    BY <1>1, <1>5 DEF Locals
  <2>2. /\ size' \in [Threads -> Nat] /\ left' \in [Threads -> Nat]
        /\ failed' \in [Threads -> Nat] /\ handle' \in [Threads -> BOOLEAN]
        /\ size'[t] = 0 /\ left'[t] = 0 /\ failed'[t] = 0 /\ ~handle'[t]
        /\ \A q \in Threads \ {t} :
             /\ size'[q] = size[q] /\ left'[q] = left[q] /\ failed'[q] = failed[q]
             /\ handle'[q] = handle[q]
    BY <1>2, <2>1 DEF TypeInv
  <2>3. stats' \in [Daqs -> [Counters -> Nat]] => TypeInv'
    BY <1>1, <1>2, <1>3, <2>2 DEF TypeInv, Prepared
  <2>4. QED
    BY <1>1, <1>3, <1>5, <2>2, <2>3
<1>6. QED
  BY <1>4, <1>5

(* A store keeps the invariant if the counters add up after it and the     *)
(* call is ready for its next step.                                        *)
LEMMA StoreKeeps ==
  ASSUME StatisticsInv, NEW t \in Threads, Store(t),
         NEW c \in Counters, Increments[pc[t]] = c, Amount(t) \in Nat,
         NEW n \in Steps \ {"lookup", "reused", "row_failed"}, After(t) = n,
         n \in Before \ {"idle"} => pc[t] \in Before,
         n = "row" => left[t] > 0,
         n \in {"acquired", "row"} => pc[t] \in {"acquired", "row", "reused", "row_failed"},
         Amid(t) => IF n = "idle" THEN AddsUp(Source[t], 0, 0, 0, 0, 0)'
                    ELSE AddsUp(Source[t], Asked(t), Thrown(t), Rows(t), Bad(t), Again(t))'
  PROVE  StatisticsInv'
<1>1. pc[t] \in DOMAIN Increments /\ Inside(t)
  BY DEF Store, Inside, Increments
<1>2. TypeInv /\ Fits(t)
  BY DEF StatisticsInv
<1>3. /\ stats' \in [Daqs -> [Counters -> Nat]]
      /\ \A d \in Daqs \ {Source[t]} : stats'[d] = stats[d]
  BY Stored
<1>4. /\ pc'[t] = n /\ loaded'[t] = Nothing
      /\ n # "idle" => UNCHANGED <<size, left, failed, handle>>
      /\ n = "idle" => size'[t] = 0 /\ left'[t] = 0 /\ failed'[t] = 0 /\ ~handle'[t]
      /\ \A q \in Threads \ {t} :
           /\ pc'[q] = pc[q] /\ loaded'[q] = loaded[q] /\ conn'[q] = conn[q]
           /\ size'[q] = size[q] /\ left'[q] = left[q] /\ failed'[q] = failed[q]
           /\ handle'[q] = handle[q]
      /\ UNCHANGED <<commands, command, failures, prepared, conn, overlap, cut>>
  BY StoreFrame
<1>5. TypeInv'
  BY <1>3, StoreFrame
<1>6. Fits(t)'
  <2>1. CASE n = "idle"
    BY <1>4, <2>1 DEF Fits
  <2>2. CASE n # "idle"
    <3>1. n \in Before => pc[t] \in Before \ {"idle"}
      BY <1>1, <2>2 DEF Inside
    <3>2. QED
      BY <1>2, <1>4, <2>2, <3>1 DEF Fits
  <2>3. QED
    BY <2>1, <2>2
<1>7. Amid(t) => IF pc'[t] = "idle" THEN AddsUp(Source[t], 0, 0, 0, 0, 0)' ELSE Amid(t)'
  BY <1>4 DEF Amid
<1>8. /\ \A d \in Daqs \ {Source[t]} : Prepared(d)' = Prepared(d)
      /\ \A b \in Connections : prepared[b] \subseteq prepared'[b]
      /\ failures' = 0 => failures = 0
  BY <1>4 DEF Prepared
<1>9. QED
  BY <1>1, <1>3, <1>4, <1>5, <1>6, <1>7, <1>8, InsideStep

(* A counter is written back, incremented.                                 *)
LEMMA StoreStep ==
  ASSUME StatisticsInv, NEW t \in Threads, Store(t)
  PROVE  StatisticsInv'
<1> DEFINE d == Source[t]
<1>1. /\ pc[t] \in DOMAIN Increments /\ Fits(t) /\ TypeInv
      /\ size[t] \in Nat /\ left[t] \in Nat /\ failed[t] \in Nat
      /\ failed[t] <= size[t] /\ size[t] - failed[t] \in Nat
  <2>1. Fits(t) /\ TypeInv /\ pc[t] \in DOMAIN Increments
    BY DEF StatisticsInv, Store
  <2>2. size[t] \in Nat /\ left[t] \in Nat /\ failed[t] \in Nat /\ failed[t] + left[t] <= size[t]
    BY <2>1 DEF TypeInv, Fits
  <2>3. QED
    BY <2>1, <2>2
<1>2. /\ stats[d] \in [Counters -> Nat] /\ Cardinality(Prepared(d)) \in Nat
      /\ Prepared(d)' = Prepared(d) /\ failures' = failures /\ commands' = commands
  <2>1. d \in Daqs /\ IsFiniteSet(Prepared(d))
    BY <1>1, SourceAssumption DEF TypeInv
  <2>2. prepared' = prepared /\ failures' = failures /\ commands' = commands
    BY DEF Store, ioVars, boundVars
  <2>3. QED
    BY <1>1, <2>1, <2>2, FS_CardinalityType DEF TypeInv, Prepared
<1>3. CASE pc[t] = "operations"
  <2>1. /\ Increments[pc[t]] = "operations" /\ "operations" \in Counters
        /\ Amount(t) = 1 /\ After(t) = "to_write"
    BY <1>3 DEF Increments, Counters, Amount, After
  <2>2. "to_write" \in Steps /\ After(t) = "to_write"
    BY <2>1 DEF Steps
  <2>3. pc'[t] = "to_write" /\ UNCHANGED <<size, left, failed, handle>>
    BY <2>2, StoreFrame DEF Steps
  <2>4. Asked(t) = 0 /\ Thrown(t) = 0 /\ Rows(t) = 0 /\ Bad(t) = 0 /\ Again(t) = 0
    BY <1>3, <1>1, Owed
  <2>6. Asked(t)' = 1 /\ Thrown(t)' = 0 /\ Rows(t)' = 0 /\ Bad(t)' = 0 /\ Again(t)' = 0
    BY <2>2, <2>3 DEF Asked, Thrown, Rows, Bad, Again, OneIf
  <2>7. ASSUME Amid(t)
        PROVE  AddsUp(d, Asked(t), Thrown(t), Rows(t), Bad(t), Again(t))'
    <3>1. /\ \A e \in Counters \ {"operations"} : stats'[d][e] = stats[d][e]
          /\ stats'[d]["operations"] = stats[d]["operations"] + 1
      BY <1>1, <2>1, <2>7, Stored
    <3>2. AddsUp(d, 0, 0, 0, 0, 0)
      BY <2>4, <2>7 DEF Amid
    <3>3. QED
      BY <1>1, <1>2, <2>6, <3>1, <3>2 DEF AddsUp, Counters
  <2>8. QED
    BY <1>1, <1>3, <2>1, <2>2, <2>7, StoreKeeps DEF Before, Steps
<1>4. CASE pc[t] = "to_write"
  <2>1. /\ Increments[pc[t]] = "to_write" /\ "to_write" \in Counters
        /\ Amount(t) = size[t] /\ After(t) = "acquire"
    BY <1>4 DEF Increments, Counters, Amount, After
  <2>2. "acquire" \in Steps /\ After(t) = "acquire"
    BY <2>1 DEF Steps
  <2>3. pc'[t] = "acquire" /\ UNCHANGED <<size, left, failed, handle>>
    BY <2>2, StoreFrame DEF Steps
  <2>4. Asked(t) = 1 /\ Thrown(t) = 0 /\ Rows(t) = 0 /\ Bad(t) = 0 /\ Again(t) = 0
    BY <1>4, <1>1, Owed DEF Fits, Before
  <2>6. Asked(t)' = 1 /\ Thrown(t)' = 0 /\ Rows(t)' = size[t] /\ Bad(t)' = 0 /\ Again(t)' = 0
    BY <2>2, <2>3 DEF Asked, Thrown, Rows, Bad, Again, OneIf
  <2>7. ASSUME Amid(t)
        PROVE  AddsUp(d, Asked(t), Thrown(t), Rows(t), Bad(t), Again(t))'
    <3>1. /\ \A e \in Counters \ {"to_write"} : stats'[d][e] = stats[d][e]
          /\ stats'[d]["to_write"] = stats[d]["to_write"] + size[t]
      BY <1>1, <2>1, <2>7, Stored
    <3>2. AddsUp(d, 1, 0, 0, 0, 0)
      BY <2>4, <2>7 DEF Amid
    <3>3. QED
      BY <1>1, <1>2, <2>6, <3>1, <3>2 DEF AddsUp, Counters
  <2>8. QED
    BY <1>1, <1>4, <2>1, <2>2, <2>7, StoreKeeps DEF Before, Steps
<1>5. CASE pc[t] = "acquired"
  <2>1. /\ Increments[pc[t]] = "acquired" /\ "acquired" \in Counters
        /\ Amount(t) = 1 /\ After(t) = Row(t)
    BY <1>5 DEF Increments, Counters, Amount, After
  <2>2. PICK n \in {"row", "written"} : After(t) = n /\ (n = "row" => left[t] > 0)
    BY <2>1 DEF Row
  <2>3. pc'[t] = n /\ UNCHANGED <<size, left, failed, handle>>
    BY <2>2, StoreFrame DEF Steps
  <2>4. Asked(t) = 1 /\ Thrown(t) = 0 /\ Rows(t) = size[t] /\ Bad(t) = 0 /\ Again(t) = 0
    BY <1>5, <1>1, Owed DEF Fits, Before
  <2>5. failed[t] = 0 /\ ~handle[t] /\ left[t] > 0 /\ n = "row"
    BY <1>1, <1>5, <2>1, <2>2 DEF Fits, Before, Row
  <2>6. Asked(t)' = 0 /\ Thrown(t)' = 0 /\ Rows(t)' = size[t] /\ Bad(t)' = 0 /\ Again(t)' = 1
    BY <2>2, <2>3, <2>5 DEF Asked, Thrown, Rows, Bad, Again, OneIf
  <2>7. ASSUME Amid(t)
        PROVE  AddsUp(d, Asked(t), Thrown(t), Rows(t), Bad(t), Again(t))'
    <3>1. /\ \A e \in Counters \ {"acquired"} : stats'[d][e] = stats[d][e]
          /\ stats'[d]["acquired"] = stats[d]["acquired"] + 1
      BY <1>1, <2>1, <2>7, Stored
    <3>2. AddsUp(d, 1, 0, size[t], 0, 0)
      BY <2>4, <2>7 DEF Amid
    <3>3. QED
      BY <1>1, <1>2, <2>6, <3>1, <3>2 DEF AddsUp, Counters
  <2>8. QED
    BY <1>1, <1>5, <2>1, <2>2, <2>5, <2>7, StoreKeeps DEF Before, Steps
<1>6. CASE pc[t] = "acquire_failed"
  <2>1. /\ Increments[pc[t]] = "acquire_failed" /\ "acquire_failed" \in Counters
        /\ Amount(t) = 1 /\ After(t) = "caught"
    BY <1>6 DEF Increments, Counters, Amount, After
  <2>2. "caught" \in Steps /\ After(t) = "caught"
    BY <2>1 DEF Steps
  <2>3. pc'[t] = "caught" /\ UNCHANGED <<size, left, failed, handle>>
    BY <2>2, StoreFrame DEF Steps
  <2>4. Asked(t) = 1 /\ Thrown(t) = 0 /\ Rows(t) = size[t] /\ Bad(t) = 0 /\ Again(t) = 0
    BY <1>6, <1>1, Owed DEF Fits, Before
  <2>6. Asked(t)' = 0 /\ Thrown(t)' = 1 /\ Rows(t)' = 0 /\ Bad(t)' = 0 /\ Again(t)' = 0
    BY <2>2, <2>3 DEF Asked, Thrown, Rows, Bad, Again, OneIf
  <2>7. ASSUME Amid(t)
        PROVE  AddsUp(d, Asked(t), Thrown(t), Rows(t), Bad(t), Again(t))'
    <3>1. /\ \A e \in Counters \ {"acquire_failed"} : stats'[d][e] = stats[d][e]
          /\ stats'[d]["acquire_failed"] = stats[d]["acquire_failed"] + 1
      BY <1>1, <2>1, <2>7, Stored
    <3>2. AddsUp(d, 1, 0, size[t], 0, 0)
      BY <2>4, <2>7 DEF Amid
    <3>3. QED
      BY <1>1, <1>2, <2>6, <3>1, <3>2 DEF AddsUp, Counters
  <2>8. QED
    BY <1>1, <1>6, <2>1, <2>2, <2>7, StoreKeeps DEF Before, Steps
<1>7. CASE pc[t] = "caught"
  <2>1. /\ Increments[pc[t]] = "exceptions" /\ "exceptions" \in Counters
        /\ Amount(t) = 1 /\ After(t) = "idle"
    BY <1>7 DEF Increments, Counters, Amount, After
  <2>2. "idle" \in Steps /\ After(t) = "idle"
    BY <2>1 DEF Steps
  <2>3. pc'[t] = "idle"
    BY <2>2, StoreFrame DEF Steps
  <2>4. Asked(t) = 0 /\ Thrown(t) = 1 /\ Rows(t) = 0 /\ Bad(t) = 0 /\ Again(t) = 0
    BY <1>7, <1>1, Owed
  <2>7. ASSUME Amid(t)
        PROVE  AddsUp(d, 0, 0, 0, 0, 0)'
    <3>1. /\ \A e \in Counters \ {"exceptions"} : stats'[d][e] = stats[d][e]
          /\ stats'[d]["exceptions"] = stats[d]["exceptions"] + 1
      BY <1>1, <2>1, <2>7, Stored
    <3>2. AddsUp(d, 0, 1, 0, 0, 0)
      BY <2>4, <2>7 DEF Amid
    <3>3. QED
      BY <1>1, <1>2, <3>1, <3>2 DEF AddsUp, Counters
  <2>8. QED
    BY <1>1, <1>7, <2>1, <2>2, <2>7, StoreKeeps DEF Before, Steps
<1>8. CASE pc[t] = "reused"
  <2>1. /\ Increments[pc[t]] = "reused" /\ "reused" \in Counters
        /\ Amount(t) = 1 /\ After(t) = Row(t)
    BY <1>8 DEF Increments, Counters, Amount, After
  <2>2. PICK n \in {"row", "written"} : After(t) = n /\ (n = "row" => left[t] > 0)
    BY <2>1 DEF Row
  <2>3. pc'[t] = n /\ UNCHANGED <<size, left, failed, handle>>
    BY <2>2, StoreFrame DEF Steps
  <2>4. Asked(t) = 0 /\ Thrown(t) = 0 /\ Rows(t) = size[t] /\ Bad(t) = failed[t] /\ Again(t) = 1
    BY <1>8, <1>1, Owed
  <2>5. handle[t]
    BY <1>1, <1>8 DEF Fits
  <2>6. Asked(t)' = 0 /\ Thrown(t)' = 0 /\ Rows(t)' = size[t] /\ Bad(t)' = failed[t] /\ Again(t)' = 0
    BY <2>2, <2>3, <2>5 DEF Asked, Thrown, Rows, Bad, Again, OneIf
  <2>7. ASSUME Amid(t)
        PROVE  AddsUp(d, Asked(t), Thrown(t), Rows(t), Bad(t), Again(t))'
    <3>1. /\ \A e \in Counters \ {"reused"} : stats'[d][e] = stats[d][e]
          /\ stats'[d]["reused"] = stats[d]["reused"] + 1
      BY <1>1, <2>1, <2>7, Stored
    <3>2. AddsUp(d, 0, 0, size[t], failed[t], 1)
      BY <2>4, <2>7 DEF Amid
    <3>3. ASSUME NEW a \in Nat, NEW r \in Nat, NEW p \in Nat, a = r + p + 1
          PROVE  a = (r + 1) + p + 0
      BY <3>3
    <3>4. stats[d]["acquired"] \in Nat /\ stats[d]["reused"] \in Nat
      BY <1>2 DEF Counters
    <3>5. failures = 0 /\ commands = 0 =>
            stats'[d]["acquired"] = stats'[d]["reused"] + Cardinality(Prepared(d)) + 0
      BY <1>2, <3>1, <3>2, <3>3, <3>4 DEF AddsUp, Counters
    <3>6. QED
      BY <1>1, <1>2, <2>6, <3>1, <3>2, <3>5 DEF AddsUp, Counters
  <2>8. QED
    BY <1>1, <1>8, <2>1, <2>2, <2>7, StoreKeeps DEF Before, Steps
<1>9. CASE pc[t] = "row_failed"
  <2>1. /\ Increments[pc[t]] = "exceptions" /\ "exceptions" \in Counters
        /\ Amount(t) = 1 /\ After(t) = Row(t)
    BY <1>9 DEF Increments, Counters, Amount, After
  <2>2. PICK n \in {"row", "written"} : After(t) = n /\ (n = "row" => left[t] > 0)
    BY <2>1 DEF Row
  <2>3. pc'[t] = n /\ UNCHANGED <<size, left, failed, handle>>
    BY <2>2, StoreFrame DEF Steps
  <2>4. Asked(t) = 0 /\ Thrown(t) = 1 /\ Rows(t) = size[t] /\ Bad(t) = failed[t] /\ Again(t) = 0
    BY <1>9, <1>1, Owed
  <2>5. failures # 0
    BY <1>1, <1>9 DEF Fits
  <2>6. Asked(t)' = 0 /\ Thrown(t)' = 0 /\ Rows(t)' = size[t] /\ Bad(t)' = failed[t] /\ Again(t)' \in Nat
    BY <2>2, <2>3 DEF Asked, Thrown, Rows, Bad, Again, OneIf
  <2>7. ASSUME Amid(t)
        PROVE  AddsUp(d, Asked(t), Thrown(t), Rows(t), Bad(t), Again(t))'
    <3>1. /\ \A e \in Counters \ {"exceptions"} : stats'[d][e] = stats[d][e]
          /\ stats'[d]["exceptions"] = stats[d]["exceptions"] + 1
      BY <1>1, <2>1, <2>7, Stored
    <3>2. AddsUp(d, 0, 1, size[t], failed[t], 0)
      BY <2>4, <2>7 DEF Amid
    <3>3. QED
      BY <1>1, <1>2, <2>5, <2>6, <3>1, <3>2 DEF AddsUp, Counters
  <2>8. QED
    BY <1>1, <1>9, <2>1, <2>2, <2>7, StoreKeeps DEF Before, Steps
<1>10. CASE pc[t] = "written"
  <2>1. /\ Increments[pc[t]] = "written" /\ "written" \in Counters
        /\ Amount(t) = size[t] - failed[t] /\ After(t) = "write_failed"
    BY <1>10 DEF Increments, Counters, Amount, After
  <2>2. "write_failed" \in Steps /\ After(t) = "write_failed"
    BY <2>1 DEF Steps
  <2>3. pc'[t] = "write_failed" /\ UNCHANGED <<size, left, failed, handle>>
    BY <2>2, StoreFrame DEF Steps
  <2>4. Asked(t) = 0 /\ Thrown(t) = 0 /\ Rows(t) = size[t] /\ Bad(t) = failed[t] /\ Again(t) = 0
    BY <1>10, <1>1, Owed
  <2>6. Asked(t)' = 0 /\ Thrown(t)' = 0 /\ Rows(t)' = failed[t] /\ Bad(t)' = failed[t] /\ Again(t)' = 0
    BY <2>2, <2>3 DEF Asked, Thrown, Rows, Bad, Again, OneIf
  <2>7. ASSUME Amid(t)
        PROVE  AddsUp(d, Asked(t), Thrown(t), Rows(t), Bad(t), Again(t))'
    <3>1. /\ \A e \in Counters \ {"written"} : stats'[d][e] = stats[d][e]
          /\ stats'[d]["written"] = stats[d]["written"] + (size[t] - failed[t])
      BY <1>1, <2>1, <2>7, Stored
    <3>2. AddsUp(d, 0, 0, size[t], failed[t], 0)
      BY <2>4, <2>7 DEF Amid
    <3>3. QED
      BY <1>1, <1>2, <2>6, <3>1, <3>2 DEF AddsUp, Counters
  <2>8. QED
    BY <1>1, <1>10, <2>1, <2>2, <2>7, StoreKeeps DEF Before, Steps
<1>11. CASE pc[t] = "write_failed"
  <2>1. /\ Increments[pc[t]] = "write_failed" /\ "write_failed" \in Counters
        /\ Amount(t) = failed[t] /\ After(t) = "release"
    BY <1>11 DEF Increments, Counters, Amount, After
  <2>2. "release" \in Steps /\ After(t) = "release"
    BY <2>1 DEF Steps
  <2>3. pc'[t] = "release" /\ UNCHANGED <<size, left, failed, handle>>
    BY <2>2, StoreFrame DEF Steps
  <2>4. Asked(t) = 0 /\ Thrown(t) = 0 /\ Rows(t) = failed[t] /\ Bad(t) = failed[t] /\ Again(t) = 0
    BY <1>11, <1>1, Owed
  <2>6. Asked(t)' = 0 /\ Thrown(t)' = 0 /\ Rows(t)' = 0 /\ Bad(t)' = 0 /\ Again(t)' = 0
    BY <2>2, <2>3 DEF Asked, Thrown, Rows, Bad, Again, OneIf
  <2>7. ASSUME Amid(t)
        PROVE  AddsUp(d, Asked(t), Thrown(t), Rows(t), Bad(t), Again(t))'
    <3>1. /\ \A e \in Counters \ {"write_failed"} : stats'[d][e] = stats[d][e]
          /\ stats'[d]["write_failed"] = stats[d]["write_failed"] + failed[t]
      BY <1>1, <2>1, <2>7, Stored
    <3>2. AddsUp(d, 0, 0, failed[t], failed[t], 0)
      BY <2>4, <2>7 DEF Amid
    <3>3. QED
      BY <1>1, <1>2, <2>6, <3>1, <3>2 DEF AddsUp, Counters
  <2>8. QED
    BY <1>1, <1>11, <2>1, <2>2, <2>7, StoreKeeps DEF Before, Steps
<1>12. QED
  BY <1>1, <1>3, <1>4, <1>5, <1>6, <1>7, <1>8, <1>9, <1>10, <1>11 DEF Increments

(* What is inside a call, and what its source's counters are, stays.       *)
LEMMA AmidFrame ==
  ASSUME NEW q \in Threads, Amid(q),
         pc'[q] = pc[q] /\ loaded'[q] = loaded[q] /\ size'[q] = size[q],
         failed'[q] = failed[q] /\ handle'[q] = handle[q],
         UNCHANGED <<stats, prepared, failures>>, commands' = 0 => commands = 0
  PROVE  Amid(q)'
<1>1. /\ Asked(q)' = Asked(q) /\ Thrown(q)' = Thrown(q) /\ Rows(q)' = Rows(q)
      /\ Bad(q)' = Bad(q) /\ Again(q)' = Again(q)
  BY DEF Asked, Thrown, Rows, Bad, Again
<1>2. AddsUp(Source[q], Asked(q), Thrown(q), Rows(q), Bad(q), Again(q))'
  BY <1>1 DEF Amid, AddsUp, Prepared
<1>3. QED
  BY <1>2 DEF Amid

(* A call of insertData begins.                                            *)
LEMMA CallStep ==
  ASSUME StatisticsInv, NEW t \in Threads, Call(t)
  PROVE  StatisticsInv'
<1>1. PICK n \in 1..MaxRows[Source[t]] :
        size' = [size EXCEPT ![t] = n] /\ left' = [left EXCEPT ![t] = n]
  BY DEF Call
<1>2. /\ pc[t] = "idle" /\ pc' = [pc EXCEPT ![t] = "lookup"]
      /\ UNCHANGED <<stats, commands, command, failures, prepared, loaded, conn, failed,
                     handle, overlap, cut>>
  BY DEF Call, mapVars, ioVars
<1>3. TypeInv /\ \A q \in Threads : Fits(q)
  BY DEF StatisticsInv
<1>4. n \in Nat /\ n > 0
  BY <1>1, BoundAssumption, SourceAssumption
<1>5. /\ pc'[t] = "lookup" /\ size'[t] = n /\ left'[t] = n
      /\ \A q \in Threads \ {t} : pc'[q] = pc[q] /\ size'[q] = size[q] /\ left'[q] = left[q]
  BY <1>1, <1>2, <1>3 DEF TypeInv
<1>6. TypeInv'
  BY <1>1, <1>2, <1>3, <1>4 DEF TypeInv, Steps, Prepared
<1>7. \A q \in Threads : Fits(q)'
  <2>1. Fits(t)'
    BY <1>2, <1>3, <1>4, <1>5 DEF Fits, Before, Increments
  <2>2. ASSUME NEW q \in Threads, q # t
        PROVE  Fits(q)'
    BY <1>2, <1>3, <1>5, <2>2 DEF Fits
  <2>3. QED
    BY <2>1, <2>2
<1>8. \A q \in Threads : (Inside(q)' <=> Inside(q)) /\ (Inside(q) => q # t)
  BY <1>2, <1>5 DEF Inside
<1>9. Clean' = Clean /\ \A d \in Daqs : Busy(d)' <=> Busy(d)
  BY <1>2, <1>8 DEF Clean, Busy, Inside
<1>10. \A d \in Clean : ~Busy(d)' => AddsUp(d, 0, 0, 0, 0, 0)'
  <2>1. ASSUME NEW d \in Clean, ~Busy(d)'
        PROVE  AddsUp(d, 0, 0, 0, 0, 0)'
    <3>1. AddsUp(d, 0, 0, 0, 0, 0)
      BY <1>9, <2>1 DEF StatisticsInv, Clean
    <3>2. QED
      BY <1>2, <3>1 DEF AddsUp, Prepared
  <2>2. QED
    BY <2>1
<1>11. ASSUME NEW q \in Threads, Inside(q), Source[q] \in Clean
       PROVE  Amid(q)'
  <2>1. Amid(q)
    BY <1>11 DEF StatisticsInv
  <2>2. QED
    BY <1>2, <1>5, <1>8, <1>11, <2>1, AmidFrame
<1>12. QED
  BY <1>2, <1>6, <1>7, <1>8, <1>9, <1>10, <1>11 DEF StatisticsInv

(* operator[] looks its key up.                                            *)
LEMMA LookupStep ==
  ASSUME StatisticsInv, NEW t \in Threads, Lookup(t)
  PROVE  StatisticsInv'
<1>1. /\ pc[t] = "lookup"
      /\ pc' = [pc EXCEPT ![t] = IF Source[t] \in keys THEN "operations" ELSE "inserting"]
      /\ overlap' = IF Busy(Source[t]) THEN overlap \cup {Source[t]} ELSE overlap
      /\ UNCHANGED <<stats, commands, command, failures, prepared, loaded, conn, size, left,
                     failed, handle, cut>>
  BY DEF Lookup, ioVars, boundVars
<1>2. TypeInv /\ \A q \in Threads : Fits(q)
  BY DEF StatisticsInv
<1>3. /\ pc'[t] \in {"operations", "inserting"}
      /\ \A q \in Threads \ {t} : pc'[q] = pc[q]
  BY <1>1, <1>2 DEF TypeInv
<1>4. TypeInv'
  BY <1>1, <1>2 DEF TypeInv, Steps, Prepared
<1>5. \A q \in Threads : Fits(q)'
  <2>1. Fits(t)'
    BY <1>1, <1>2, <1>3 DEF Fits, Before, Increments
  <2>2. ASSUME NEW q \in Threads, q # t
        PROVE  Fits(q)'
    BY <1>1, <1>2, <1>3, <2>2 DEF Fits
  <2>3. QED
    BY <2>1, <2>2
<1>6. /\ \A q \in Threads \ {t} : Inside(q)' <=> Inside(q)
      /\ ~Inside(t) /\ Inside(t)'
  BY <1>1, <1>3 DEF Inside
<1>7. Clean' \subseteq Clean /\ (Source[t] \in Clean' => ~Busy(Source[t]))
  BY <1>1 DEF Clean
<1>8. ASSUME NEW q \in Threads, Inside(q), Source[q] = Source[t]
      PROVE  Source[t] \notin Clean'
  BY <1>7, <1>8 DEF Busy, Inside
<1>9. \A q, r \in Threads :
        Inside(q)' /\ Inside(r)' /\ Source[q] = Source[r] /\ Source[q] \in Clean' => q = r
  BY <1>6, <1>7, <1>8 DEF StatisticsInv
<1>10. ASSUME NEW d \in Clean', ~Busy(d)'
       PROVE  AddsUp(d, 0, 0, 0, 0, 0)'
  <2>1. ~Busy(d)
    BY <1>6, <1>10 DEF Busy, Inside
  <2>2. AddsUp(d, 0, 0, 0, 0, 0)
    BY <1>7, <2>1 DEF StatisticsInv
  <2>3. QED
    BY <1>1, <2>2 DEF AddsUp, Prepared
<1>11. ASSUME NEW q \in Threads, Inside(q)', Source[q] \in Clean'
       PROVE  Amid(q)'
  <2>1. CASE q = t
    <3>1. AddsUp(Source[t], 0, 0, 0, 0, 0)
      BY <1>7, <1>11, <2>1 DEF StatisticsInv
    <3>2. Asked(t)' = 0 /\ Thrown(t)' = 0 /\ Rows(t)' = 0 /\ Bad(t)' = 0 /\ Again(t)' = 0
      BY <1>3 DEF Asked, Thrown, Rows, Bad, Again, OneIf
    <3>3. loaded'[t] = Nothing
      BY <1>1, <1>2 DEF Fits, Increments
    <3>4. QED
      BY <1>1, <2>1, <3>1, <3>2, <3>3 DEF Amid, AddsUp, Prepared
  <2>2. CASE q # t
    <3>1. Amid(q)
      BY <1>6, <1>7, <1>11, <2>2 DEF StatisticsInv
    <3>2. QED
      BY <1>1, <1>3, <2>2, <3>1, AmidFrame
  <2>3. QED
    BY <2>1, <2>2
<1>12. command' # "none" => commands' > 0
  BY <1>1 DEF StatisticsInv
<1>13. QED
  BY <1>4, <1>5, <1>9, <1>10, <1>11, <1>12 DEF StatisticsInv

(* A step of no thread that resets nothing                                 *)
LEMMA IoStep ==
  ASSUME StatisticsInv, UNCHANGED callVars, UNCHANGED <<stats, failures, prepared, overlap, cut>>,
         commands' \in Nat, commands' = 0 => commands = 0, command' # "none" => commands' > 0
  PROVE  StatisticsInv'
<1> USE DEF callVars
<1>1. TypeInv /\ \A q \in Threads : Fits(q)
  BY DEF StatisticsInv
<1>2. TypeInv'
  BY <1>1 DEF TypeInv, Prepared
<1>3. \A q \in Threads : Fits(q)'
  BY <1>1 DEF Fits
<1>4. Clean' = Clean /\ \A q \in Threads : Inside(q)' <=> Inside(q)
  BY DEF Clean, Inside
<1>5. \A d \in Daqs : Busy(d)' <=> Busy(d)
  BY DEF Busy
<1>6. ASSUME NEW d \in Clean', ~Busy(d)'
      PROVE  AddsUp(d, 0, 0, 0, 0, 0)'
  <2>1. AddsUp(d, 0, 0, 0, 0, 0)
    BY <1>4, <1>5, <1>6 DEF StatisticsInv, Clean
  <2>2. QED
    BY <2>1 DEF AddsUp, Prepared
<1>7. ASSUME NEW q \in Threads, Inside(q)', Source[q] \in Clean'
      PROVE  Amid(q)'
  <2>1. Amid(q)
    BY <1>4, <1>7 DEF StatisticsInv
  <2>2. QED
    BY <2>1, AmidFrame
<1>8. \A q, r \in Threads :
        Inside(q)' /\ Inside(r)' /\ Source[q] = Source[r] /\ Source[q] \in Clean' => q = r
  BY <1>4 DEF StatisticsInv
<1>9. QED
  BY <1>2, <1>3, <1>6, <1>7, <1>8 DEF StatisticsInv

(* reset() sets the counters of a source to zero.                          *)
LEMMA ResetStep ==
  ASSUME StatisticsInv, Reset
  PROVE  StatisticsInv'
<1>1. PICK d \in visit :
        /\ stats' = [stats EXCEPT ![d] = Zero]
        /\ overlap' = IF Busy(d) THEN overlap ELSE overlap \ {d}
        /\ cut' = IF Busy(d) THEN cut \cup {d} ELSE cut \ {d}
  BY DEF Reset
<1>2. /\ command = "reset" /\ UNCHANGED <<command, commands, prepared, failures>>
      /\ UNCHANGED <<pc, loaded, conn, size, left, failed, handle>>
  BY DEF Reset, callVars, boundVars
<1>3. TypeInv /\ \A q \in Threads : Fits(q)
  BY DEF StatisticsInv
<1>4. commands \in Nat /\ commands > 0 /\ commands' # 0
  BY <1>2, <1>3 DEF StatisticsInv, TypeInv
<1>5. Zero \in [Counters -> Nat] /\ \A c \in Counters : Zero[c] = 0
  BY DEF Zero
<1>6. /\ stats' \in [Daqs -> [Counters -> Nat]]
      /\ \A e \in Daqs \ {d} : stats'[e] = stats[e]
      /\ d \in Daqs => stats'[d] = Zero
  BY <1>1, <1>3, <1>5 DEF TypeInv
<1>7. TypeInv' /\ \A q \in Threads : Fits(q)'
  <2>1. TypeInv'
    BY <1>2, <1>3, <1>6 DEF TypeInv, Prepared
  <2>2. QED
    BY <1>2, <1>3, <2>1 DEF Fits
<1>8. /\ \A e \in Daqs \ {d} : e \in Clean' <=> e \in Clean
      /\ d \in Clean' => ~Busy(d)
  BY <1>1 DEF Clean
<1>9. /\ \A q \in Threads : Inside(q)' <=> Inside(q)
      /\ \A e \in Daqs : Busy(e)' <=> Busy(e)
  BY <1>2 DEF Inside, Busy
<1>10. \A q \in Threads : Inside(q) /\ Source[q] = d => d \notin Clean'
  BY <1>8 DEF Busy, Inside
<1>11. \A q \in Threads : Inside(q) /\ Source[q] \in Clean' => Source[q] \in Clean /\ Source[q] # d
  <2>1. Clean' \subseteq Daqs
    BY DEF Clean
  <2>2. QED
    BY <1>8, <1>10, <2>1
<1>12. \A q, r \in Threads :
         Inside(q)' /\ Inside(r)' /\ Source[q] = Source[r] /\ Source[q] \in Clean' => q = r
  BY <1>9, <1>11 DEF StatisticsInv
<1>13. ASSUME NEW e \in Clean', ~Busy(e)'
       PROVE  AddsUp(e, 0, 0, 0, 0, 0)'
  <2>1. e \in Daqs
    BY DEF Clean
  <2>2. CASE e = d
    <3>1. \A c \in Counters : stats'[e][c] = 0
      BY <1>5, <1>6, <2>1, <2>2
    <3>2. QED
      BY <1>4, <3>1 DEF AddsUp, Counters
  <2>3. CASE e # d
    <3>1. AddsUp(e, 0, 0, 0, 0, 0)
      BY <1>8, <1>9, <1>13, <2>1, <2>3 DEF StatisticsInv
    <3>2. QED
      BY <1>4, <1>6, <2>1, <2>3, <3>1, <1>2 DEF AddsUp, Prepared
  <2>4. QED
    BY <2>2, <2>3
<1>14. ASSUME NEW q \in Threads, Inside(q)', Source[q] \in Clean'
       PROVE  Amid(q)'
  <2>1. Source[q] \in Clean /\ Source[q] # d /\ Source[q] \in Daqs /\ Amid(q)
    BY <1>9, <1>11, <1>14, SourceAssumption DEF StatisticsInv
  <2>2. stats'[Source[q]] = stats[Source[q]]
    BY <1>6, <2>1
  <2>3. /\ Asked(q)' = Asked(q) /\ Thrown(q)' = Thrown(q) /\ Rows(q)' = Rows(q)
        /\ Bad(q)' = Bad(q) /\ Again(q)' = Again(q)
    BY <1>2 DEF Asked, Thrown, Rows, Bad, Again
  <2>4. AddsUp(Source[q], Asked(q), Thrown(q), Rows(q), Bad(q), Again(q))'
    BY <1>2, <1>4, <2>1, <2>2, <2>3 DEF Amid, AddsUp
  <2>5. QED
    BY <1>2, <2>1, <2>2, <2>4 DEF Amid
<1>15. command' # "none" => commands' > 0
  BY <1>2, <1>4
<1>16. QED
  BY <1>7, <1>12, <1>13, <1>14, <1>15 DEF StatisticsInv

(* Every step keeps the invariant.                                         *)
LEMMA StatisticsStep == StatisticsInv /\ [Next]_vars => StatisticsInv'
<1> SUFFICES ASSUME StatisticsInv, [Next]_vars
             PROVE  StatisticsInv'
  OBVIOUS
<1>1. commands \in Nat /\ (command # "none" => commands > 0)
  BY DEF StatisticsInv, TypeInv
<1>2. CASE UNCHANGED vars
  BY <1>1, <1>2, IoStep DEF vars, callVars, mapVars, ioVars, boundVars
<1>3. CASE Command
  <2>1. commands' = commands + 1 /\ UNCHANGED callVars
        /\ UNCHANGED <<stats, failures, prepared, overlap, cut>>
    BY <1>3 DEF Command, boundVars
  <2>2. QED
    BY <1>1, <2>1, IoStep
<1>4. CASE Report \/ Return
  BY <1>1, <1>4, IoStep DEF Report, Return, mapVars, boundVars
<1>5. ASSUME NEW t \in Threads, Call(t) \/ InsertData(t)
      PROVE  StatisticsInv'
  BY <1>5, CallStep, LookupStep, InsertKeyStep, LoadStep, StoreStep, AcquireStep,
     AcquireThrowsStep, QueryStep, QueryThrowsStep, ReleaseStep DEF InsertData
<1>6. QED
  BY <1>2, <1>3, <1>4, <1>5, ResetStep DEF Next, Over

(* Between the calls for a source its counters add up, however many        *)
(* threads, rows and connections there are, and however the database       *)
(* fails, unless calls for it overlapped or a reset came in the middle of  *)
(* one; the next reset between the calls mends that.                       *)
THEOREM CountersTheorem == Spec => []CountersAddUp
<1>1. StatisticsInv => CountersAddUp
  <2>1. ASSUME StatisticsInv, NEW d \in Daqs \ (overlap \cup cut), ~Busy(d)
        PROVE  /\ AddsUp(d, 0, 0, 0, 0, 0) /\ stats[d] \in [Counters -> Nat]
               /\ Cardinality(Prepared(d)) \in Nat
    BY <2>1, FS_CardinalityType DEF StatisticsInv, Clean, TypeInv
  <2>2. QED
    BY <2>1 DEF CountersAddUp, AddsUp, Counters, Prepared
<1>2. QED
  BY <1>1, StatisticsInit, StatisticsStep, PTL DEF Spec

=============================================================================
