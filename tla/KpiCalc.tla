------------------------------- MODULE KpiCalc -------------------------------
(***************************************************************************)
(* KpiCalc and the tables and stored procedures it reads.                  *)
(*                                                                         *)
(* energy_data holds readings of a counter that only rises until it is     *)
(* reset; production_data what was produced.  The state is the two tables, *)
(* which upserts fill in any order; what the procedures and the            *)
(* calculation make of them are operators, compared with a definition of   *)
(* the energy that is used in a period.  Arithmetic is exact: the readings *)
(* are multiples of every distance in time.  tp - 24h and tp - 7 * 24h are *)
(* two choices of a period.  A calculation reads both tables at one        *)
(* moment: a ping that overlaps another can change them between its two    *)
(* queries, which Application tells as `overlap`.                          *)
(***************************************************************************)
EXTENDS Integers, Sequences, FiniteSets, FiniteSetsExt

CONSTANTS
  EnergyTimes, ProductionTimes,    \* the times of rows
  EnergyValues, ProductionValues,  \* their values
  Null,                            \* NULL, of a row without a value
  AbnormalKpi                      \* 30

ASSUME TimesAssumption == EnergyTimes \subseteq Nat /\ ProductionTimes \subseteq Nat
ASSUME ValuesAssumption ==
  /\ EnergyValues \subseteq Nat /\ ProductionValues \subseteq Nat
  /\ \A e \in EnergyValues, t, u \in EnergyTimes : t < u => e % (u - t) = 0
ASSUME NullAssumption == Null \notin Nat
ASSUME AbnormalAssumption == AbnormalKpi \in Nat

VARIABLES
  energy_data,     \* the value of each row by its time
  production_data

vars == <<energy_data, production_data>>

EmptyTable == [t \in {} |-> Null]

Init == energy_data = EmptyTable /\ production_data = EmptyTable

-----------------------------------------------------------------------------
(* The tables                                                              *)

(* INSERT ... ON DUPLICATE KEY UPDATE                                      *)
Upserted(table, t, v) ==
  [u \in DOMAIN table \cup {t} |-> IF u = t THEN v ELSE table[u]]

UpsertEnergy(t, v) ==
  /\ energy_data' = Upserted(energy_data, t, v)
  /\ UNCHANGED production_data

UpsertProduction(t, v) ==
  /\ production_data' = Upserted(production_data, t, v)
  /\ UNCHANGED energy_data

(* cleanDatabase                                                           *)
Clean ==
  /\ energy_data' = EmptyTable
  /\ production_data' = EmptyTable

Next ==
  \/ \E t \in EnergyTimes, v \in EnergyValues \cup {Null} : UpsertEnergy(t, v)
  \/ \E t \in ProductionTimes, v \in ProductionValues \cup {Null} : UpsertProduction(t, v)
  \/ Clean

Spec == Init /\ [][Next]_vars

-----------------------------------------------------------------------------
(* The stored procedures.  They return sequences of times: what a row is   *)
(* worth is in the table.                                                  *)

NotNull(table) == {t \in DOMAIN table : table[t] # Null}

(* The readings within the period come in no stated order: the optimizer   *)
(* takes the primary key or the index on energy, which covers the query.   *)
Scans == {"by time", "by energy"}

Precedes(t, u, scan) ==
  \/ scan = "by energy" /\ energy_data[t] < energy_data[u]
  \/ (scan = "by energy" => energy_data[t] = energy_data[u]) /\ t < u

(* As many readings precede one in the result as do in this order.         *)
Scanned(S, scan) ==
  LET rank(t) == Cardinality({u \in S : Precedes(u, t, scan)})
  IN  [k \in 1..Cardinality(S) |-> CHOOSE t \in S : rank(t) = k - 1]

(* ORDER BY time DESC LIMIT 1, ORDER BY time ASC LIMIT 1                   *)
LatestOf(S) == IF S = {} THEN <<>> ELSE <<Max(S)>>
EarliestOf(S) == IF S = {} THEN <<>> ELSE <<Min(S)>>

(* Fault: all the readings after the period are returned.                  *)
GetEnergyWithoutLimit(from, to, scan) ==
  LET readings == NotNull(energy_data)
  IN  LatestOf({t \in readings : t < from})
        \o Scanned({t \in readings : from <= t /\ t <= to}, scan)
        \o Scanned({t \in readings : t > to}, "by time")

(* get_energy: the last reading before the period, those within, and the   *)
(* first after it.                                                         *)
GetEnergy(from, to, scan) ==
  LET readings == NotNull(energy_data)
  IN  LatestOf({t \in readings : t < from})
        \o Scanned({t \in readings : from <= t /\ t <= to}, scan)
        \o EarliestOf({t \in readings : t > to})

(* Fault: the period includes both of its ends.                            *)
GetProductionClosed(from, to) ==
  {t \in NotNull(production_data) : from <= t /\ t <= to}

(* get_production: without the beginning of the period, with its end       *)
GetProduction(from, to) ==
  {t \in NotNull(production_data) : from < t /\ t <= to}

-----------------------------------------------------------------------------
(* calculate                                                               *)

LinInterpolate(x, x1, x2, y1, y2) == ((y2 - y1) \div (x2 - x1)) * (x - x1) + y1

(* Fault: a reset is not noticed in the first and the last interval.       *)
IntervalEnergyAcrossReset(rows, i, from, to) ==
  LET t1 == rows[i]
      t2 == rows[i + 1]
      E1 == energy_data[t1]
      E2 == energy_data[t2]
  IN  IF i = 1 /\ t1 < from THEN E2 - LinInterpolate(from, t1, t2, E1, E2)
      ELSE IF i # 1 /\ i = Len(rows) - 1 /\ t2 > to
           THEN LinInterpolate(to, t1, t2, E1, E2) - E1
      ELSE IF i \notin {1, Len(rows) - 1} /\ E2 < E1 THEN E2 ELSE E2 - E1

(* The energy of the interval from row i to the next: after a reset all of *)
(* the second reading; the first interval is clipped to the period, else   *)
(* the last is.                                                            *)
IntervalEnergy(rows, i, from, to) ==
  LET t1 == rows[i]
      t2 == rows[i + 1]
      E1 == energy_data[t1]
      E2 == energy_data[t2]
  IN  IF E2 < E1 THEN E2
      ELSE IF i = 1 /\ t1 < from THEN E2 - LinInterpolate(from, t1, t2, E1, E2)
      ELSE IF i # 1 /\ i = Len(rows) - 1 /\ t2 > to
           THEN LinInterpolate(to, t1, t2, E1, E2) - E1
      ELSE E2 - E1

Esum(rows, from, to) ==
  MapThenSumSet(LAMBDA i : IntervalEnergy(rows, i, from, to), 1..Len(rows) - 1)

ProductionSum(from, to) ==
  MapThenSumSet(LAMBDA t : production_data[t], GetProduction(from, to))

InvalidKPI == "invalid"

(* Fault: the production is not tested before the division.                *)
CalculateWithoutTest(from, to, scan) ==
  LET rows == GetEnergy(from, to, scan)
      E    == Esum(rows, from, to)
      P    == ProductionSum(from, to)
  IN  IF Len(rows) < 2 \/ GetProduction(from, to) = {} \/ E > AbnormalKpi * P
      THEN InvalidKPI
      ELSE <<E, P>>

(* Esum / P as a pair; a KPI above AbnormalKpi is invalid.                 *)
Calculate(from, to, scan) ==
  LET rows == GetEnergy(from, to, scan)
      E    == Esum(rows, from, to)
      P    == ProductionSum(from, to)
  IN  IF Len(rows) < 2 \/ GetProduction(from, to) = {} \/ P <= 0 \/ E > AbnormalKpi * P
      THEN InvalidKPI
      ELSE <<E, P>>

-----------------------------------------------------------------------------
(* Properties                                                              *)

Periods == {p \in EnergyTimes \X EnergyTimes : p[1] < p[2]}

(* Two readings are neighbours if there is none between them.              *)
Neighbours ==
  {p \in NotNull(energy_data) \X NotNull(energy_data) :
     p[1] < p[2] /\ \A t \in NotNull(energy_data) : ~(p[1] < t /\ t < p[2])}

IsReset(p) == energy_data[p[2]] < energy_data[p[1]]

(* The energy used from `from` to `to`: what neighbouring readings say was *)
(* used between them, spread evenly over the time, none where no reading   *)
(* precedes or follows.                                                    *)
EnergyUsed(from, to) ==
  LET used(p) == energy_data[p[2]] - (IF IsReset(p) THEN 0 ELSE energy_data[p[1]])
      common(p) == Max({0, Min({to, p[2]}) - Max({from, p[1]})})
  IN  MapThenSumSet(LAMBDA p : (used(p) \div (p[2] - p[1])) * common(p), Neighbours)

(* The counter is not reset in an interval that crosses or touches an end  *)
(* of the period from outside.                                             *)
NoResetAtEnds(from, to) ==
  \A p \in Neighbours : IsReset(p) => ~(p[1] < from /\ from <= p[2])
                                      /\ ~(p[1] <= to /\ to < p[2])

NoResetWithin(from, to) ==
  \A p \in Neighbours : IsReset(p) => p[2] <= from \/ to <= p[1]

(* The tables hold what was put in, and a KPI is invalid or that of a      *)
(* positive production, not abnormal and never negative.                   *)
TypeOK ==
  /\ DOMAIN energy_data \subseteq EnergyTimes
  /\ DOMAIN production_data \subseteq ProductionTimes
  /\ \A p \in Periods, s \in Scans :
       LET kpi == Calculate(p[1], p[2], s)
       IN  kpi = InvalidKPI \/ (kpi[2] > 0 /\ kpi[1] \in 0..AbnormalKpi * kpi[2])

(* calculate() sums up exactly the energy that was used in the period.     *)
(* What it takes: no reset at the ends of the period, none within if the   *)
(* database scans by energy, and a third reading if the last lies after    *)
(* the period, for of two readings only the first end is clipped.          *)
EnergyIsExact ==
  \A p \in Periods, s \in Scans :
    LET rows == GetEnergy(p[1], p[2], s) IN
    /\ Len(rows) >= 3 \/ (Len(rows) = 2 /\ rows[2] <= p[2])
    /\ NoResetAtEnds(p[1], p[2])
    /\ s = "by energy" => NoResetWithin(p[1], p[2])
    => Esum(rows, p[1], p[2]) = EnergyUsed(p[1], p[2])

(* Days that follow one another share out the production of the period     *)
(* they make up: a row at 06:00 counts for one of them.                    *)
ProductionCountsOnce ==
  \A p, q \in Periods :
    p[2] = q[1] => ProductionSum(p[1], p[2]) + ProductionSum(q[1], q[2]) =
                     ProductionSum(p[1], q[2])

(* Once there is a reading after a period, readings that are stored later  *)
(* and are later do not change the energy of that period: until then the   *)
(* KPI may be calculated too early.                                        *)
KpiIsFinal ==
  [][\A p \in Periods, s \in Scans :
       /\ \E t \in NotNull(energy_data) : t > p[2]
       /\ \E t \in EnergyTimes :
            /\ \A u \in NotNull(energy_data) : u < t
            /\ \E v \in EnergyValues : UpsertEnergy(t, v)
       => GetEnergy(p[1], p[2], s)' = GetEnergy(p[1], p[2], s)
          /\ Esum(GetEnergy(p[1], p[2], s), p[1], p[2])' =
               Esum(GetEnergy(p[1], p[2], s), p[1], p[2])]_vars

=============================================================================
