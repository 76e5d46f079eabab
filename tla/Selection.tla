----------------------------- MODULE Selection -----------------------------
(* One selection of candidates: what getAllCandidates (proxy/selector.go)     *)
(* makes of one input, and the order that the README promises of it.          *)
EXTENDS Selector

CONSTANT Inputs     \* configurations, with what the breaker says of them

SelectionStatuses == {"Active", "Degraded", "BlockedTemp", "BlockedFatal"}

ASSUME SelectionAssumption ==
    \A in \in Inputs :
        /\ IsConfig(in.cfg)
        /\ NamesAreDistinct(in.cfg)
        /\ \A k \in Pairs(in.cfg) : in.status[k] \in SelectionStatuses /\ in.latency[k] \in Nat

VARIABLES
    input,
    chosen,         \* getAllCandidates has returned
    candidates

selectionVars == <<input, chosen, candidates>>

SelectionInit ==
    /\ input \in Inputs
    /\ chosen = FALSE
    /\ candidates = << >>

Choose ==
    /\ ~chosen
    /\ candidates' \in GetAllCandidates(input.cfg, input.status, input.latency, input.last)
    /\ chosen' = TRUE
    /\ UNCHANGED input

(* The caller has its candidates: an input that had none would be a deadlock. *)
Chosen ==
    /\ chosen
    /\ UNCHANGED selectionVars

SelectionNext == Choose \/ Chosen

SelectionSpec == SelectionInit /\ [][SelectionNext]_selectionVars

-----------------------------------------------------------------------------
EnabledPairs(cfg) == UNION {PairsOf(provider) : provider \in Enabled(cfg)}

TierOf(in, k) ==
    CASE in.status[k] = "Active" -> 1
      [] in.status[k] = "Degraded" -> 2
      [] OTHER -> 3

(* In the round robin, k comes before l: it has an earlier place among the    *)
(* models of its provider, or the same one and a provider of a higher rank.   *)
TurnIsBefore(cfg, k, l) ==
    \E p, q \in Range(cfg) :
        \E i \in DOMAIN p.models, j \in DOMAIN q.models :
            /\ k = <<p.name, p.models[i]>> /\ l = <<q.name, q.models[j]>>
            /\ i < j \/ (i = j /\ p.priority < q.priority)

(* k has to come before l. *)
Precedes(in, k, l) ==
    \/ TierOf(in, k) < TierOf(in, l)
    \/ /\ TierOf(in, k) = TierOf(in, l) /\ TierOf(in, k) # 1
       /\ in.latency[k] < in.latency[l]
    \/ /\ TierOf(in, k) = 1 /\ TierOf(in, l) = 1
       /\ l # in.last
       /\ k = in.last \/ TurnIsBefore(in.cfg, k, l)

(* The order of getAllCandidates is the one README describes: no usable model *)
(* is lost or repeated, a fatally blocked one and a disabled provider are     *)
(* left out, the tiers come in their order, the last successful model first   *)
(* if it is active, the others round robin by priority, the slow and the      *)
(* blocked ones by latency.                                                   *)
IsTiered(in, s) ==
    /\ Range(s) = {k \in EnabledPairs(in.cfg) : in.status[k] # "BlockedFatal"}
    /\ \A i, j \in DOMAIN s : s[i] = s[j] => i = j
    /\ \A i, j \in DOMAIN s : Precedes(in, s[i], s[j]) => i < j

SelectionIsTiered == chosen => IsTiered(input, candidates)
=============================================================================
