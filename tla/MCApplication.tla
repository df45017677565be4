-------------------------- MODULE MCApplication --------------------------
(* Model checking of Application on a few rows of data.                    *)
EXTENDS Application, TLC

Both == <<"energy", "production">>
EnergyOnly == <<"energy">>

MCData == [d \in {"energy", "production"} |-> IF d = "energy" THEN <<1, 2, 3, 5>> ELSE <<1, 4>>]

MCShortData == [d \in {"energy", "production"} |->
                 IF d = "energy" THEN <<1, 2, 3>> ELSE <<1, 3>>]

Symmetry == Permutations(Pings)

(* Runs that no ping of an earlier one meets: in the others none of the    *)
(* invariants that are checked with several pings says anything.           *)
FreshNext == IF stale THEN UNCHANGED vars ELSE Next

FreshSpec == Init /\ [][FreshNext]_vars
=============================================================================
