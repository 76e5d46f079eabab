--------------------------- MODULE FailureTracker ---------------------------
(* The circuit breaker of proxy/failures.go: the map of model tracks and the  *)
(* count of consecutive failures per provider, shared under one mutex by      *)
(* every request, the warm-up, the cleanup ticker and the MCP tools.          *)
(*                                                                            *)
(* A step is a critical section.  RecordFailure has one or two of them: from  *)
(* the third consecutive failure of a provider on it releases the mutex to    *)
(* run OnPersistentFailure and goes on, after it, with the pointer it read    *)
(* before.  The status change is sent to StatusEvents after the mutex is      *)
(* released, in a step of its own.                                            *)
EXTENDS ModelTrack, SequencesExt

CONSTANTS
    Callers,            \* goroutines that record outcomes
    Keys,               \* "provider:model"
    Providers,
    ProviderOf,         \* [Keys -> Providers]
    Codes,              \* HTTP codes of the failures that are recorded
    Latencies,          \* latencies of the successes that are recorded
    Thresholds,         \* values given to latencyThreshold
    Cooldowns,          \* values given to failureCooldown
    PersistentFailures, \* 3: consecutive failures that trigger the callback
    EventCap,           \* 100: capacity of StatusEvents
    MaxTime,            \* bound: the clock stops here
    MaxFailures,        \* bound: no failure starts on a model or a provider
                        \* that has had so many in a row
    MaxLevel            \* bound on backoffLevel, MaxFailures and the failures
                        \* under way

ASSUME TrackerAssumption ==
    /\ IsFiniteSet(Keys)
    /\ ProviderOf \in [Keys -> Providers]
    /\ Codes \subseteq Nat
    /\ Latencies \subseteq Nat
    /\ Thresholds \subseteq Nat
    /\ Cooldowns \subseteq Nat
    /\ PersistentFailures \in Nat
    /\ EventCap \in Nat
    /\ MaxTime \in Nat
    /\ MaxFailures \in Nat
    /\ MaxLevel \in Nat
    /\ MaxFailures <= MaxLevel

VARIABLES
    failures,           \* tracker.failures: NoTrack where the map has no entry
    providerFailures,   \* tracker.providerFailures
    latencyThreshold,
    failureCooldown,
    now,                \* time.Now()
    caller,             \* where each goroutine is inside a recorder
    StatusEvents        \* the channel of status changes

trackerVars == <<failures, providerFailures>>
settings    == <<latencyThreshold, failureCooldown>>
vars == <<failures, providerFailures, latencyThreshold, failureCooldown,
          now, caller, StatusEvents>>

-----------------------------------------------------------------------------
(* "callback": between the two critical sections of RecordFailure, holding    *)
(* the pointer to the track of key; attached tells whether the map still      *)
(* holds that track.  "emit": mutex released, the event still to be sent.     *)
IdleCaller == [pc |-> "idle"]

CallerState ==
    {IdleCaller}
    \cup [pc : {"callback"}, key : Keys, code : Codes, old : Statuses,
          attached : BOOLEAN]
    \cup [pc : {"emit"}, key : Keys, old : Statuses, new : Statuses]

StatusEvent == [key : Keys, old : Statuses, new : Statuses]

TypeOK ==
    /\ failures \in [Keys -> Track \cup {NoTrack}]
    /\ providerFailures \in [Providers -> Nat]
    /\ latencyThreshold \in Nat
    /\ failureCooldown \in Nat
    /\ now \in 0 .. MaxTime
    /\ caller \in [Callers -> CallerState]
    /\ StatusEvents \in Seq(StatusEvent)
    /\ Len(StatusEvents) <= EventCap

Init ==
    /\ failures = [k \in Keys |-> NoTrack]
    /\ providerFailures = [p \in Providers |-> 0]
    /\ latencyThreshold \in Thresholds
    /\ failureCooldown \in Cooldowns
    /\ now = 0
    /\ caller = [c \in Callers |-> IdleCaller]
    /\ StatusEvents = << >>

-----------------------------------------------------------------------------
(* The views of the tracker. *)

GetModelStatus(k) == ModelStatus(failures[k], now, latencyThreshold)

GetModelLatency(k) == ModelLatency(failures[k])

GetBlockedModels == {k \in Keys : ListedAsBlocked(failures[k], now)}

(* A faulty variant: the latency of the best entry is not kept. *)
PickLast(best, k) ==
    IF FallbackEligible(failures[k], now) THEN {k} ELSE best

(* GetBestFallbackModel keeps the first eligible entry the iteration meets    *)
(* and replaces it by a faster one that has been measured.  best is the empty *)
(* set or holds one key.                                                      *)
PickFaster(best, k) ==
    IF /\ FallbackEligible(failures[k], now)
       /\ \A b \in best : /\ failures[k].ewmaLatency > 0
                          /\ failures[k].ewmaLatency < failures[b].ewmaLatency
    THEN {k} ELSE best

(* Go iterates a map in any order. *)
BestOf(order) ==
    LET best[i \in 0 .. Len(order)] ==
          IF i = 0 THEN {} ELSE PickFaster(best[i - 1], order[i])
    IN  best[Len(order)]

FallbackChoices == {k \in Keys : \E order \in SetToSeqs(Keys) : BestOf(order) = {k}}

NoFallback == \E order \in SetToSeqs(Keys) : BestOf(order) = {}

-----------------------------------------------------------------------------
(* What a replaced or deleted entry does to a pointer held across a callback. *)
Detach(gone) ==
    [c \in Callers |->
        IF caller[c].pc = "callback" /\ caller[c].key \in gone
        THEN [caller[c] EXCEPT !.attached = FALSE]
        ELSE caller[c]]

EmitNext(k, old, new) == [pc |-> "emit", key |-> k, old |-> old, new |-> new]

(* The first critical section: the failure is dated and counted.  It is also  *)
(* the only one unless the provider has failed too often in a row.            *)
RecordFailure(c, k, code) ==
    LET p       == ProviderOf[k]
        touched == [Entry(failures[k]) EXCEPT !.lastFailure = now]
        blocked == ClassifyFailure(touched, code, now)
    IN  /\ caller[c].pc = "idle"
        /\ providerFailures[p] < MaxFailures
        /\ touched.backoffLevel < MaxFailures
        /\ providerFailures' = [providerFailures EXCEPT ![p] = @ + 1]
        /\ IF providerFailures[p] + 1 >= PersistentFailures
           THEN /\ failures' = [failures EXCEPT ![k] = touched]
                /\ caller' = [caller EXCEPT ![c] =
                     [pc |-> "callback", key |-> k, code |-> code,
                      old |-> touched.status, attached |-> TRUE]]
           ELSE /\ failures' = [failures EXCEPT ![k] = blocked]
                /\ caller' = [caller EXCEPT ![c] =
                     EmitNext(k, touched.status, blocked.status)]
        /\ UNCHANGED <<settings, now, StatusEvents>>

(* The second critical section.  A track that has left the map meanwhile is   *)
(* classified all the same, where nobody will read it.                        *)
ResumeRecordFailure(c) ==
    LET k       == caller[c].key
        track   == IF caller[c].attached THEN failures[k] ELSE NewTrack
        blocked == ClassifyFailure(track, caller[c].code, now)
    IN  /\ caller[c].pc = "callback"
        /\ track.backoffLevel < MaxLevel
        /\ failures' = IF caller[c].attached
                       THEN [failures EXCEPT ![k] = blocked]
                       ELSE failures
        /\ caller' = [caller EXCEPT ![c] =
                        EmitNext(k, caller[c].old, blocked.status)]
        /\ UNCHANGED <<providerFailures, settings, now, StatusEvents>>

RecordSuccess(c, k, latency) ==
    LET track == Entry(failures[k])
    IN  /\ caller[c].pc = "idle"
        /\ providerFailures' = [providerFailures EXCEPT ![ProviderOf[k]] = 0]
        /\ \E ewma \in NextEWMA(track.ewmaLatency, latency) :
             LET done == SucceedTrack(track, ewma, latencyThreshold)
             IN  /\ failures' = [failures EXCEPT ![k] = done]
                 /\ caller' = [caller EXCEPT ![c] =
                                 EmitNext(k, track.status, done.status)]
        /\ UNCHANGED <<settings, now, StatusEvents>>

(* ResetFailures of one model: exported, called by the package's tests only.  *)
ResetFailures(c, k) ==
    /\ caller[c].pc = "idle"
    /\ providerFailures' = [providerFailures EXCEPT ![ProviderOf[k]] = 0]
    /\ IF failures[k] = NoTrack
       THEN UNCHANGED <<failures, caller>>
       ELSE /\ failures' = [failures EXCEPT ![k] = ResetTrack(@)]
            /\ caller' = [caller EXCEPT ![c] =
                            EmitNext(k, failures[k].status, "Active")]
    /\ UNCHANGED <<settings, now, StatusEvents>>

(* A faulty variant: one event too many is buffered. *)
EmitStatusChangeBeyondCap(c) ==
    /\ caller[c].pc = "emit"
    /\ StatusEvents' =
         IF caller[c].old = caller[c].new \/ Len(StatusEvents) > EventCap
         THEN StatusEvents
         ELSE Append(StatusEvents, [key |-> caller[c].key, old |-> caller[c].old,
                                    new |-> caller[c].new])
    /\ caller' = [caller EXCEPT ![c] = IdleCaller]
    /\ UNCHANGED <<trackerVars, settings, now>>

(* The send never blocks: a full channel drops the event, and an event that   *)
(* changes nothing is not sent.                                               *)
EmitStatusChange(c) ==
    LET event == [key |-> caller[c].key, old |-> caller[c].old,
                  new |-> caller[c].new]
    IN  /\ caller[c].pc = "emit"
        /\ StatusEvents' =
             IF event.old = event.new \/ Len(StatusEvents) >= EventCap
             THEN StatusEvents
             ELSE Append(StatusEvents, event)
        /\ caller' = [caller EXCEPT ![c] = IdleCaller]
        /\ UNCHANGED <<trackerVars, settings, now>>

(* The warm-up goroutine receives. *)
ReceiveStatusEvent ==
    /\ StatusEvents # << >>
    /\ StatusEvents' = Tail(StatusEvents)
    /\ UNCHANGED <<trackerVars, settings, now, caller>>

(* The cleanup ticker of main.go. *)
CleanupOldEntries ==
    LET stale == {k \in Keys : IsStale(failures[k], now, failureCooldown)}
    IN  /\ failures' = [k \in Keys |-> IF k \in stale THEN NoTrack
                                       ELSE failures[k]]
        /\ caller' = Detach(stale)
        /\ UNCHANGED <<providerFailures, settings, now, StatusEvents>>

(* The reset_failures tool and every configuration update. *)
ResetAllFailures ==
    /\ failures' = [k \in Keys |-> NoTrack]
    /\ providerFailures' = [p \in Providers |-> 0]
    /\ caller' = Detach(Keys)
    /\ UNCHANGED <<settings, now, StatusEvents>>

SetLatencyThreshold(threshold) ==
    /\ latencyThreshold' = threshold
    /\ UNCHANGED <<trackerVars, failureCooldown, now, caller, StatusEvents>>

SetBlockDuration(duration) ==
    /\ failureCooldown' = duration
    /\ UNCHANGED <<trackerVars, latencyThreshold, now, caller, StatusEvents>>

Tick ==
    /\ now < MaxTime
    /\ now' = now + 1
    /\ UNCHANGED <<trackerVars, settings, caller, StatusEvents>>

-----------------------------------------------------------------------------
CallerStep(c) ==
    \/ \E k \in Keys, code \in Codes : RecordFailure(c, k, code)
    \/ ResumeRecordFailure(c)
    \/ \E k \in Keys, latency \in Latencies : RecordSuccess(c, k, latency)
    \/ \E k \in Keys : ResetFailures(c, k)
    \/ EmitStatusChange(c)

Next ==
    \/ \E c \in Callers : CallerStep(c)
    \/ ReceiveStatusEvent
    \/ CleanupOldEntries
    \/ ResetAllFailures
    \/ \E threshold \in Thresholds : SetLatencyThreshold(threshold)
    \/ \E duration \in Cooldowns : SetBlockDuration(duration)
    \/ Tick

Spec == Init /\ [][Next]_vars

-----------------------------------------------------------------------------
(* The horizon of the safety properties below: the durations of the backoff   *)
(* levels in reach are positive, and the clock stays within a year.           *)
Horizon ==
    /\ \A level \in 1 .. MaxLevel : BackoffDuration(level) \in Nat \ {0}
    /\ MaxTime < FatalBlock

(* What the readers see as blocked. *)
Blocked(k) == GetModelStatus(k) \in {"BlockedTemp", "BlockedFatal"}

(* A track is in one of three shapes, however the failures and the successes  *)
(* of the goroutines were interleaved.  A healthy one (RecordSuccess,         *)
(* ResetFailures) carries nothing of an earlier outage: no deadline, no count,*)
(* no backoff level, so that the next outage starts at the first level.  A    *)
(* blocked one has a deadline and a reason of its kind.  The backoff level    *)
(* never lags behind the failures counted.                                    *)
ConsistentTrack(t) ==
    /\ t.status \in {"Active", "Degraded"} =>
         /\ t.blockedUntil = ZeroTime
         /\ t.failureCount = 0
         /\ t.backoffLevel = 0
         /\ t.reason = IF t.status = "Active" THEN "None" ELSE "Slow"
    /\ t.status = "BlockedTemp" =>
         /\ t.blockedUntil > 0
         /\ t.reason \in {"RateLimit", "ServerError", "Timeout"}
    /\ t.status = "BlockedFatal" =>
         /\ t.blockedUntil >= FatalBlock
         /\ t.reason = "Fatal"
    /\ t.failureCount <= t.backoffLevel

TrackConsistent ==
    \A k \in Keys : failures[k] # NoTrack => ConsistentTrack(failures[k])

(* The two views of the breaker agree: except at the very instant a deadline  *)
(* falls due, the models GetModelStatus calls blocked (the selection of       *)
(* candidates) are those GetBlockedModels lists (the statistics and the MCP   *)
(* tool).                                                                     *)
ViewsAgree ==
    \A k \in Keys :
        (failures[k] # NoTrack => now # failures[k].blockedUntil) =>
            (Blocked(k) <=> k \in GetBlockedModels)

(* A pointer held across the callback is attached only while the map holds    *)
(* the track the goroutine dated: the second critical section of              *)
(* RecordFailure never brings back an entry that was cleaned up or reset      *)
(* while it was in the callback.                                              *)
AttachedIsInMap ==
    \A c \in Callers :
        caller[c].pc = "callback" /\ caller[c].attached =>
            /\ failures[caller[c].key] # NoTrack
            /\ failures[caller[c].key].lastFailure # ZeroTime

(* A blocked model gets back among the others only because time passes, a     *)
(* success is recorded or the failures are reset: no further failure of this  *)
(* or another model, whatever its code, no cleanup of old entries and no      *)
(* change of a setting unblocks it.                                           *)
NotARecovery ==
    \/ \E c \in Callers, k \in Keys, code \in Codes : RecordFailure(c, k, code)
    \/ \E c \in Callers : ResumeRecordFailure(c)
    \/ CleanupOldEntries
    \/ \E threshold \in Thresholds : SetLatencyThreshold(threshold)
    \/ \E duration \in Cooldowns : SetBlockDuration(duration)

StaysBlocked ==
    [][NotARecovery => \A k \in Keys : Blocked(k) => Blocked(k)']_vars

(* What GetBestFallbackModel promises of the models it has latency data of:   *)
(* if one of those it may return has been measured it returns a model,        *)
(* whatever the order in which the map is iterated, only one it may return,   *)
(* and if that one has been measured then no other is faster.  (Its comment   *)
(* says that it returns none that has not been measured.  The code does: one  *)
(* that the iteration meets first is kept, and hides all others.)             *)
FallbackIsFastest ==
    LET eligible == {k \in Keys : FallbackEligible(failures[k], now)}
        measured == {k \in eligible : failures[k].ewmaLatency > 0}
    IN  /\ measured # {} => ~NoFallback
        /\ FallbackChoices \subseteq eligible
        /\ \A k \in FallbackChoices \cap measured, l \in measured :
             failures[k].ewmaLatency <= failures[l].ewmaLatency
=============================================================================
