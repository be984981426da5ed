---------------------------- MODULE MCBaseline ----------------------------
(* Instances of Baseline for TLC.  The samples are trimmed from the third   *)
(* window on, and the rules of two windows are more than are remembered.    *)
EXTENDS Baseline

CONSTANTS r1, r2, r3

RulesOf == [o \in Observations |-> IF o[2] % 2 = 0 THEN {r1, r2} ELSE {r2, r3}]
ManyEpochs == 1..4
=============================================================================
