--------------------------- MODULE MCChaosSession ---------------------------
(* Small sessions: one or two tests with a few faults and retries.           *)
EXTENDS ChaosSession, TLC

CONSTANTS f1, f2, f3, f4

Ids == {f1, f2, f3, f4}
IdSymmetry == Permutations(Ids)
=============================================================================
