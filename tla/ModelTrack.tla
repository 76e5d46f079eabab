----------------------------- MODULE ModelTrack -----------------------------
(* The per-model record of the circuit breaker (proxy/failures.go): what one  *)
(* failure and one success do to it, and how the rest of the program reads    *)
(* it.  Pure definitions; FailureTracker gives them a state.                  *)
(*                                                                            *)
(* Time is an integer.  The zero time.Time of Go lies some 2000 years before  *)
(* any clock reading, farther than a time.Duration (292 years) can reach, so  *)
(* ZeroTime is a number below every deadline the program can compute.         *)
EXTENDS Integers

CONSTANTS
    FixedBlock,     \* 5 minutes: the block after 429, 400 and other errors
    FatalBlock,     \* 365 days: the block after 401 and 404
    BackoffUnit,    \* 2 minutes: the unit of the exponential backoff
    DurationMod,    \* 2^64 in the code: time.Duration is a 64-bit integer
    NoTrack         \* the absence of an entry in the map

ASSUME DurationsAssumption ==
    /\ FixedBlock \in Nat \ {0}
    /\ FatalBlock \in Nat \ {0}
    /\ BackoffUnit \in Nat \ {0}
    /\ DurationMod \in Nat \ {0}

Statuses == {"Active", "Degraded", "BlockedTemp", "BlockedFatal"}
Reasons  == {"None", "Slow", "RateLimit", "ServerError", "Timeout", "Fatal"}

failureThreshold == 1

ZeroTime == -DurationMod

Track == [lastFailure  : Int,
          blockedUntil : Int,
          status       : Statuses,
          reason       : Reasons,
          failureCount : Nat,
          ewmaLatency  : Nat,
          backoffLevel : Nat]

ASSUME NoTrackAssumption == NoTrack \notin Track

NewTrack == [lastFailure  |-> ZeroTime,
             blockedUntil |-> ZeroTime,
             status       |-> "Active",
             reason       |-> "None",
             failureCount |-> 0,
             ewmaLatency  |-> 0,
             backoffLevel |-> 0]

(* The entry of the map, or the one both recorders create when it is missing. *)
Entry(t) == IF t = NoTrack THEN NewTrack ELSE t

-----------------------------------------------------------------------------
(* Failures *)

(* Two's complement: the value of x in a signed integer of DurationMod values. *)
Signed(x) == ((x + DurationMod \div 2) % DurationMod) - DurationMod \div 2

BackoffDuration(level) == Signed(2^level * BackoffUnit)

(* A 5xx answer, or code 0: a timeout or an error of the network. *)
ServerFailure(t, code, at) ==
    LET counted == [t EXCEPT
                      !.failureCount = @ + 1,
                      !.reason = IF code = 0 THEN "Timeout" ELSE "ServerError"]
    IN  IF t.failureCount + 1 >= failureThreshold
        THEN [counted EXCEPT
                !.status       = "BlockedTemp",
                !.backoffLevel = @ + 1,
                !.blockedUntil = at + BackoffDuration(t.backoffLevel + 1)]
        ELSE counted

(* The classification of a failure by its HTTP status. *)
ClassifyFailure(t, code, at) ==
    CASE code \in {401, 404} ->
           [t EXCEPT !.status       = "BlockedFatal",
                     !.reason       = "Fatal",
                     !.blockedUntil = at + FatalBlock]
      [] code = 429 ->
           [t EXCEPT !.status       = "BlockedTemp",
                     !.reason       = "RateLimit",
                     !.blockedUntil = at + FixedBlock,
                     !.failureCount = 0]
      [] code = 400 ->
           [t EXCEPT !.status       = "BlockedTemp",
                     !.reason       = "ServerError",
                     !.blockedUntil = at + FixedBlock,
                     !.failureCount = 0]
      [] code >= 500 \/ code = 0 ->
           ServerFailure(t, code, at)
      [] OTHER ->
           [t EXCEPT !.status       = "BlockedTemp",
                     !.reason       = "ServerError",
                     !.blockedUntil = at + FixedBlock]

-----------------------------------------------------------------------------
(* Successes *)

IsSlow(t, threshold) == threshold > 0 /\ t.ewmaLatency > threshold

(* The moving average 0.8 * old + 0.2 * sample, in coarse units of latency:   *)
(* the first sample replaces an average of 0, a later one moves the average   *)
(* to a value between the two that is never 0 again.                          *)
NextEWMA(old, sample) ==
    CASE old = 0      -> {sample}
      [] old > sample -> (sample .. old) \ {0}
      [] OTHER        -> old .. sample

(* A faulty variant: the level of the backoff survives the recovery. *)
SucceedTrackKeepsLevel(t, ewma, threshold) ==
    LET slow == IsSlow([t EXCEPT !.ewmaLatency = ewma], threshold)
    IN  [t EXCEPT !.ewmaLatency  = ewma,
                  !.failureCount = 0,
                  !.blockedUntil = ZeroTime,
                  !.status       = IF slow THEN "Degraded" ELSE "Active",
                  !.reason       = IF slow THEN "Slow" ELSE "None"]

SucceedTrack(t, ewma, threshold) ==
    LET slow == IsSlow([t EXCEPT !.ewmaLatency = ewma], threshold)
    IN  [t EXCEPT !.ewmaLatency  = ewma,
                  !.failureCount = 0,
                  !.backoffLevel = 0,
                  !.blockedUntil = ZeroTime,
                  !.status       = IF slow THEN "Degraded" ELSE "Active",
                  !.reason       = IF slow THEN "Slow" ELSE "None"]

(* ResetFailures of an existing entry keeps its latency and its last failure. *)
ResetTrack(t) ==
    [t EXCEPT !.failureCount = 0,
              !.blockedUntil = ZeroTime,
              !.status       = "Active",
              !.reason       = "None",
              !.backoffLevel = 0]

-----------------------------------------------------------------------------
(* Readers.  A temporary block that has run out is not written back: every    *)
(* reader decides for itself, and GetBlockedModels does not ask the same      *)
(* question as GetModelStatus.                                                *)

(* A faulty variant: a temporary block that has run out is still reported. *)
ModelStatusStale(t, at, threshold) == IF t = NoTrack THEN "Active" ELSE t.status

ModelStatus(t, at, threshold) ==
    CASE t = NoTrack -> "Active"
      [] t # NoTrack /\ t.status = "BlockedTemp" /\ at > t.blockedUntil ->
           IF IsSlow(t, threshold) THEN "Degraded" ELSE "Active"
      [] OTHER -> t.status

ModelLatency(t) == IF t = NoTrack THEN 0 ELSE t.ewmaLatency

ListedAsBlocked(t, at) ==
    /\ t # NoTrack
    /\ at < t.blockedUntil \/ t.status = "BlockedFatal"

(* What makes an entry a candidate of GetBestFallbackModel. *)
FallbackEligible(t, at) ==
    /\ t # NoTrack
    /\ t.status # "BlockedFatal"
    /\ at < t.blockedUntil \/ t.status = "Degraded"

(* A faulty variant: the block is not looked at. *)
IsStaleWhileBlocked(t, at, cooldown) ==
    /\ t # NoTrack
    /\ t.lastFailure = ZeroTime \/ at - t.lastFailure > cooldown

(* Whether CleanupOldEntries removes the entry. *)
IsStale(t, at, cooldown) ==
    /\ t # NoTrack
    /\ at > t.blockedUntil
    /\ t.lastFailure = ZeroTime \/ at - t.lastFailure > cooldown
=============================================================================
