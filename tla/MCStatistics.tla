---------------------------- MODULE MCStatistics ----------------------------
(* Model checking of Statistics: the threads of two pings for one source   *)
(* and of one for the other.                                               *)
EXTENDS Statistics

CONSTANTS e1, e2, p1

MCThreads == {e1, e2, p1}
MCSource == [t \in MCThreads |-> IF t = p1 THEN "DaqProduction" ELSE "DaqEnergy"]
MCMaxRows == [DaqEnergy |-> 1, DaqProduction |-> 2]
=============================================================================
