------------------------------ MODULE Selector ------------------------------
(* The order in which a request tries the models (proxy/selector.go and       *)
(* getCandidates of proxy.go).  Pure: a configuration is a sequence of        *)
(* providers, the breaker is read through two functions on the pairs of a     *)
(* provider and a model.  sort.Slice promises no order among equals, so the   *)
(* result is a set of sequences.                                              *)
EXTENDS Integers, SequencesExt, Sequencing

(* A provider: [name, enabled, priority, limited, models], where limited      *)
(* stands for isRateLimited, which only compares two numbers of the config.   *)
PairsOf(provider) == {<<provider.name, m>> : m \in Range(provider.models)}

Pairs(cfg) == UNION {PairsOf(provider) : provider \in Range(cfg)}

(* What the configuration of the program is made of. *)
IsConfig(cfg) ==
    /\ cfg \in Seq(Range(cfg))
    /\ \A provider \in Range(cfg) :
         /\ provider.enabled \in BOOLEAN
         /\ provider.priority \in Int
         /\ provider.models \in Seq(Range(provider.models))

(* No provider is listed twice, nor a model of a provider.  The program does  *)
(* not check it, and takes such a configuration.                              *)
NamesAreDistinct(cfg) ==
    /\ \A i, j \in DOMAIN cfg : cfg[i].name = cfg[j].name => i = j
    /\ \A provider \in Range(cfg) :
         \A i, j \in DOMAIN provider.models :
            provider.models[i] = provider.models[j] => i = j

(* The sequences sort.Slice may make of s, whose elements are distinct. *)
SortedBy(s, rank) ==
    {t \in SetToSeqs(Range(s)) :
        \A i, j \in DOMAIN t : i < j => rank[t[i]] <= rank[t[j]]}

Enabled(cfg) == {provider \in Range(cfg) : provider.enabled}

SortedProviders(cfg) ==
    SortedBy(Only(cfg, Enabled(cfg)), [provider \in Range(cfg) |-> provider.priority])

FindMaxModels(providers) == Max({0} \cup {Len(p.models) : p \in Range(providers)})

(* Model i of every provider that has so many. *)
Round(providers, i) ==
    LET having == Only(providers, {p \in Range(providers) : i <= Len(p.models)})
    IN  [n \in DOMAIN having |-> <<having[n].name, having[n].models[i]>>]

(* Model 1 of every provider, then model 2 of every provider that has one...  *)
RoundRobin(providers) ==
    FlattenSeq([i \in 1 .. FindMaxModels(providers) |-> Round(providers, i)])

(* A faulty variant: the last successful model keeps its old place as well. *)
LastFirstTwice(active, last) ==
    IF last \in Range(active) THEN <<last>> \o active ELSE active

(* The last successful model, if it is among the active ones, goes first. *)
LastFirst(active, last) ==
    IF last \in Range(active)
    THEN <<last>> \o Only(active, Range(active) \ {last})
    ELSE active

Tier(all, status, st) == Only(all, {k \in Range(all) : status[k] = st})

GetAllCandidates(cfg, status, latency, last) ==
    UNION {
        LET all == RoundRobin(providers)
        IN  {LastFirst(Tier(all, status, "Active"), last) \o degraded \o blocked :
                degraded \in SortedBy(Tier(all, status, "Degraded"), latency),
                blocked  \in SortedBy(Tier(all, status, "BlockedTemp"), latency)}
        : providers \in SortedProviders(cfg)}

(* A request names a provider, a model, both or none ("auto").  A named       *)
(* provider bypasses the tiers, and is used even if it is disabled.           *)
GetCandidates(cfg, status, latency, last, provider, model) ==
    IF provider # "auto"
    THEN LET named  == Only(cfg, {p \in Range(cfg) : p.name = provider})
             models == named[1].models
         IN  CASE named = << >> -> {<< >>}
               [] named # << >> /\ model = "auto" ->
                    {[i \in DOMAIN models |-> <<provider, models[i]>>]}
               [] OTHER -> {IF model \in Range(models) THEN <<<<provider, model>>>> ELSE << >>}
    ELSE {Only(s, {k \in Range(s) : model \in {"auto", k[2]}}) :
             s \in GetAllCandidates(cfg, status, latency, last)}
=============================================================================
