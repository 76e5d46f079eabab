-------------------------- MODULE MCFailureTracker --------------------------
(* FailureTracker for TLC: two goroutines on a model of one provider.         *)
EXTENDS FailureTracker, TLC

CONSTANTS c1, c2, k1, k2, p1

MCProviderOf == [k \in Keys |-> p1]

(* Within the bounds no backoff overflows and no year passes, and the bound   *)
(* on the level never stops a failure that is under way.                      *)
ASSUME MCHorizon ==
    /\ Horizon
    /\ MaxFailures + Cardinality(Callers) <= MaxLevel

CallerSymmetry == Permutations(Callers)
=============================================================================
