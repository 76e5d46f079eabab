----------------------------- MODULE MCSelector -----------------------------
(* Selection for TLC: every assignment of a status and a latency to the       *)
(* models of a small configuration and every last successful model, one of    *)
(* which a configuration update has removed: a request that was under way has *)
(* set it behind the reset.  And the fallback, on a breaker with the same.    *)
EXTENDS Selection, ModelTrack

CONSTANTS MaxLatency

MCProvider(name, enabled, priority, models) ==
    [name |-> name, enabled |-> enabled, priority |-> priority,
     limited |-> FALSE, models |-> models]

(* Two providers of one priority, the second with two models, and one of a    *)
(* higher rank that is enabled in the first configuration only.               *)
MCConfigs ==
    {<<MCProvider("p1", TRUE, 1, <<"a">>),
       MCProvider("p2", TRUE, 1, <<"b", "c">>),
       MCProvider("p3", on, 0, <<"a">>)>> : on \in BOOLEAN}

NoLast == <<"", "">>

MCInputs ==
    UNION {[cfg     : {cfg},
            status  : [Pairs(cfg) -> SelectionStatuses],
            latency : [Pairs(cfg) -> 0 .. MaxLatency],
            last    : Pairs(cfg) \cup {NoLast, <<"p4", "a">>}] : cfg \in MCConfigs}

-----------------------------------------------------------------------------
(* The breaker, as one that would say of the models what the input does, at   *)
(* time 0: a block ends at 1.                                                 *)
MCKeys == UNION {Pairs(cfg) : cfg \in MCConfigs}

MCTracks ==
    [k \in MCKeys |->
        [NewTrack EXCEPT
            !.status       = input.status[k],
            !.ewmaLatency  = input.latency[k],
            !.blockedUntil =
                IF input.status[k] \in {"BlockedTemp", "BlockedFatal"} THEN 1 ELSE @]]

Breaker ==
    INSTANCE FailureTracker WITH
        failures <- MCTracks, providerFailures <- << >>, latencyThreshold <- 0,
        failureCooldown <- 0, now <- 0, caller <- << >>, StatusEvents <- << >>,
        Keys <- MCKeys, Providers <- {}, ProviderOf <- << >>, Callers <- {},
        Codes <- {}, Latencies <- {}, Thresholds <- {}, Cooldowns <- {},
        PersistentFailures <- 3, EventCap <- 0, MaxTime <- 0, MaxFailures <- 0,
        MaxLevel <- 0

(* What GetBestFallbackModel, which the request turns to when no candidate is *)
(* left, promises of these tracks (FallbackIsFastest of FailureTracker).  It  *)
(* does not look at the last successful model, of which one value will do.    *)
FallbackIsFastest == chosen /\ input.last = NoLast => Breaker!FallbackIsFastest
=============================================================================
