----------------------------- MODULE MCFailover -----------------------------
(* Failover for TLC. *)
EXTENDS Failover, TLC

CONSTANTS r1, b1

MCProvider(name, limited, models) ==
    [name |-> name, enabled |-> TRUE, priority |-> 1, limited |-> limited,
     models |-> models]

(* Two providers.  One of them alone and over its rate limit: its model is    *)
(* left to the fallback, which also meets the models of the provider that has *)
(* been removed.                                                              *)
MCTwo     == <<MCProvider("p1", FALSE, <<"a">>), MCProvider("p2", FALSE, <<"b">>)>>
MCLimited == <<MCProvider("p1", TRUE, <<"a">>)>>

MCKeys       == Pairs(MCTwo)
MCProviderOf == [k \in MCKeys |-> k[1]]

MCKind(stream, probe, warmup, provider, model) ==
    [stream |-> stream, probe |-> probe, warmup |-> warmup,
     provider |-> provider, model |-> model]

MCAny    == MCKind(FALSE, FALSE, FALSE, "auto", "auto")
MCStream == MCKind(TRUE, FALSE, FALSE, "auto", "auto")
MCProbe  == MCKind(FALSE, TRUE, FALSE, "p1", "a")
MCWarmup == MCKind(FALSE, FALSE, TRUE, "p1", "a")

MCAsk(kinds, cfg, retries) == [kind : kinds, cfg : {cfg}, retries : {retries}]

MCAsks ==
    MCAsk({MCAny}, MCTwo, 2) \cup MCAsk({MCStream}, MCTwo, 1)
      \cup MCAsk({MCAny, MCStream, MCProbe, MCWarmup}, MCLimited, 1)

MCPlain == MCAsk({MCAny}, MCLimited, 1)

(* The bounds on the failures never stop a request that records one. *)
ASSUME MCEnough == Horizon /\ MaxFailures + Cardinality(Callers) <= MaxLevel

(* What the theorems ask of the configurations holds of these. *)
ASSUME MCDistinct == ConfigsAreDistinct
-----------------------------------------------------------------------------
(* failover_test.go: "A client disconnect must not be charged to the          *)
(* provider".  The loops look at the context before they record anything, the *)
(* fallbacks do not: the call they make for a client that is gone fails, and  *)
(* that failure blocks the model.  (The code does not keep this one.)         *)
CancelIsNotCharged ==
    [][\A r \in Requests :
         req[r].canceled /\ req[r].pc = "upstream" => req'[r].pc # "failed"]_allVars
=============================================================================
