SPECIFICATION Spec
CONSTANTS
  EnergyTimes      = {1, 2, 3, 4}
  ProductionTimes  = {1, 2, 3}
  EnergyValues     = {0, 6, 12}
  ProductionValues = {0, 1}
  Null             = Null
  AbnormalKpi      = 9
INVARIANTS
  TypeOK
  EnergyIsExact
  ProductionCountsOnce
PROPERTIES
  KpiIsFinal
