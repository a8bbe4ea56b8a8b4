------------------------------ MODULE MCRental ------------------------------
(* A small instance of Rental. *)
EXTENDS Rental, TLC

CONSTANTS s1, s2, v1

(* Two periods that touch, one over both, one that is none. *)
SomeRanges == {<<0, 2>>, <<2, 4>>, <<1, 3>>, <<3, 3>>}
(* Back on time as it left; back late, dirty, short of fuel and damaged. *)
SomeReadings == {[at |-> 2, km |-> 1, fuel |-> 8, dirty |-> FALSE, damage |-> 0],
                 [at |-> 5, km |-> 9, fuel |-> 6, dirty |-> TRUE, damage |-> 7]}
SomeTerms == [dailyRate |-> 2, includedKm |-> 2, perKm |-> 1, perFuelEighth |-> 1,
              lateFee |-> 1, cleaningFee |-> 2, deposit |-> 6, casco |-> TRUE, deductible |-> 3]
Symmetry == Permutations(Sessions)
=============================================================================
