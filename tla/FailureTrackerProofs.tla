------------------------ MODULE FailureTrackerProofs ------------------------
(* Proofs about FailureTracker.  The inductive invariant is                   *)
(* TypeOK /\ AttachedIsInMap /\ TrackConsistent; Horizon is what keeps the    *)
(* deadlines of the blocks ahead of the clock.                                *)
EXTENDS FailureTracker, SequenceProofs, TLAPS

-----------------------------------------------------------------------------
(* Lemmas about the operators of ModelTrack. *)

(* The statuses and reasons the recorders write; the leaves below use these   *)
(* facts with the two sets unexpanded.                                        *)
LEMMA Literals ==
    /\ {"Active", "Degraded", "BlockedTemp", "BlockedFatal"} \subseteq Statuses
    /\ {"None", "Slow", "RateLimit", "ServerError", "Timeout", "Fatal"}
         \subseteq Reasons
  BY DEF Statuses, Reasons

(* Updates with values of the right kind keep a track a track. *)
LEMMA TrackUpdate ==
    ASSUME NEW t \in Track, NEW s \in Statuses, NEW r \in Reasons,
           NEW d \in Int, NEW n \in Nat, NEW l \in Nat, NEW e \in Nat
    PROVE  /\ [t EXCEPT !.lastFailure = d] \in Track
           /\ [t EXCEPT !.status = s, !.reason = r, !.blockedUntil = d] \in Track
           /\ [t EXCEPT !.status = s, !.reason = r, !.blockedUntil = d,
                        !.failureCount = n] \in Track
           /\ [t EXCEPT !.ewmaLatency = e, !.failureCount = n,
                        !.backoffLevel = l, !.blockedUntil = d,
                        !.status = s, !.reason = r] \in Track
           /\ [t EXCEPT !.failureCount = n, !.blockedUntil = d, !.status = s,
                        !.reason = r, !.backoffLevel = l] \in Track
           /\ [[t EXCEPT !.failureCount = n, !.reason = r]
                 EXCEPT !.status = s, !.backoffLevel = l,
                        !.blockedUntil = d] \in Track
  BY DEF Track

(* The entry both recorders work on is a track, and a consistent one. *)
LEMMA EntryIsTrack ==
    ASSUME NEW t \in Track \cup {NoTrack},
           t # NoTrack => ConsistentTrack(t)
    PROVE  /\ Entry(t) \in Track
           /\ ConsistentTrack(Entry(t))
  <1>1. ZeroTime \in Int
    BY DurationsAssumption DEF ZeroTime
  <1>2. NewTrack \in Track
    BY <1>1, Literals DEF NewTrack, Track
  <1>3. ConsistentTrack(NewTrack)
    BY DEF NewTrack, ConsistentTrack
  <1> QED BY <1>2, <1>3 DEF Entry

(* Dating a failure changes nothing a consistent track depends on. *)
LEMMA DatedTrack ==
    ASSUME NEW t \in Track, ConsistentTrack(t), NEW at \in Int
    PROVE  LET d == [t EXCEPT !.lastFailure = at]
           IN  /\ d \in Track
               /\ ConsistentTrack(d)
               /\ d.lastFailure = at
               /\ d.status = t.status
               /\ d.blockedUntil = t.blockedUntil
               /\ d.backoffLevel = t.backoffLevel
               /\ d.ewmaLatency = t.ewmaLatency
  <1>1. [t EXCEPT !.lastFailure = at] \in Track
    BY TrackUpdate DEF Statuses, Reasons
  <1> QED BY <1>1 DEF Track, ConsistentTrack

(* b is what a failure at an instant leaves of a track t: a consistent track  *)
(* that is blocked from that instant on.                                      *)
BlockedFrom(b, t, at) ==
    /\ b \in Track
    /\ ConsistentTrack(b)
    /\ b.status \in {"BlockedTemp", "BlockedFatal"}
    /\ at < b.blockedUntil
    /\ b.lastFailure = t.lastFailure

(* A block for a duration, with a reason of its kind. *)
LEMMA TimedBlock ==
    ASSUME NEW t \in Track, ConsistentTrack(t),
           NEW r \in {"RateLimit", "ServerError"},
           NEW at \in Nat, NEW d, d = at + FixedBlock
    PROVE  /\ BlockedFrom([t EXCEPT !.status = "BlockedTemp", !.reason = r,
                                    !.blockedUntil = d], t, at)
           /\ BlockedFrom([t EXCEPT !.status = "BlockedTemp", !.reason = r,
                                    !.blockedUntil = d,
                                    !.failureCount = 0], t, at)
  <1>1. d \in Int /\ d > at /\ d > 0
    BY DurationsAssumption
  <1>2. r \in Reasons /\ "BlockedTemp" \in Statuses
    BY Literals
  <1> DEFINE b1 == [t EXCEPT !.status = "BlockedTemp", !.reason = r,
                             !.blockedUntil = d]
             b2 == [t EXCEPT !.status = "BlockedTemp", !.reason = r,
                             !.blockedUntil = d, !.failureCount = 0]
  <1>3. b1 \in Track /\ b2 \in Track
    BY <1>1, <1>2, TrackUpdate
  <1>4. ConsistentTrack(b1) /\ ConsistentTrack(b2)
    BY <1>1 DEF Track, ConsistentTrack
  <1> QED BY <1>1, <1>3, <1>4 DEF BlockedFrom, Track

(* Within the horizon every failure, whatever its code, blocks the model. *)
LEMMA ClassifiedTrack ==
    ASSUME Horizon,
           NEW t \in Track, ConsistentTrack(t),
           NEW code \in Nat, NEW at \in Nat,
           t.backoffLevel < MaxLevel
    PROVE  BlockedFrom(ClassifyFailure(t, code, at), t, at)
  <1> DEFINE b == ClassifyFailure(t, code, at)
  <1>1. CASE code \in {401, 404}
    <2> DEFINE d == at + FatalBlock
    <2>1. b = [t EXCEPT !.status = "BlockedFatal", !.reason = "Fatal",
                        !.blockedUntil = d]
      BY <1>1 DEF ClassifyFailure
    <2>2. d \in Int /\ d > at /\ d >= FatalBlock
      BY DurationsAssumption
    <2> HIDE DEF d, b
    <2>3. b \in Track
      BY <2>1, <2>2, TrackUpdate, Literals
    <2>4. ConsistentTrack(b)
      BY <2>1, <2>2 DEF Track, ConsistentTrack
    <2>5. BlockedFrom(b, t, at)
      BY <2>1, <2>2, <2>3, <2>4 DEF BlockedFrom, Track
    <2> QED BY <2>5 DEF b
  <1>2. CASE code = 429
    <2>1. b = [t EXCEPT !.status = "BlockedTemp", !.reason = "RateLimit",
                        !.blockedUntil = at + FixedBlock, !.failureCount = 0]
      BY <1>2 DEF ClassifyFailure
    <2> HIDE DEF b
    <2>2. BlockedFrom(b, t, at)
      BY <2>1, TimedBlock
    <2> QED BY <2>2 DEF b
  <1>3. CASE code = 400
    <2>1. b = [t EXCEPT !.status = "BlockedTemp", !.reason = "ServerError",
                        !.blockedUntil = at + FixedBlock, !.failureCount = 0]
      BY <1>3 DEF ClassifyFailure
    <2> HIDE DEF b
    <2>2. BlockedFrom(b, t, at)
      BY <2>1, TimedBlock
    <2> QED BY <2>2 DEF b
  <1>4. CASE code >= 500 \/ code = 0
    <2> DEFINE r == IF code = 0 THEN "Timeout" ELSE "ServerError"
               n == t.failureCount + 1
               l == t.backoffLevel + 1
               d == at + BackoffDuration(l)
    <2>1. b = [[t EXCEPT !.failureCount = n, !.reason = r]
                 EXCEPT !.status = "BlockedTemp", !.backoffLevel = l,
                        !.blockedUntil = d]
      <3>1. t.failureCount + 1 >= failureThreshold
        BY DEF failureThreshold, Track
      <3>2. b = ServerFailure(t, code, at)
        BY <1>4 DEF ClassifyFailure
      <3> QED BY <3>1, <3>2 DEF ServerFailure
    <2>2. n \in Nat /\ l \in Nat /\ n <= l
      BY DEF Track, ConsistentTrack
    <2>3. BackoffDuration(l) \in Nat \ {0}
      <3>1. l \in 1 .. MaxLevel
        BY TrackerAssumption DEF Track
      <3> QED BY <3>1 DEF Horizon
    <2>4. d \in Int /\ d > at /\ d > 0
      BY <2>3
    <2>5. r \in Reasons /\ r \in {"Timeout", "ServerError"}
      BY Literals
    <2> HIDE DEF b, r, n, l, d
    <2>6. b \in Track
      BY <2>1, <2>2, <2>4, <2>5, TrackUpdate, Literals
    <2>7. ConsistentTrack(b)
      BY <2>1, <2>2, <2>4, <2>5 DEF Track, ConsistentTrack
    <2>8. BlockedFrom(b, t, at)
      BY <2>1, <2>4, <2>6, <2>7 DEF BlockedFrom, Track
    <2> QED BY <2>8 DEF b
  <1>5. CASE code \notin {401, 404, 429, 400, 0} /\ ~(code >= 500)
    BY <1>5, TimedBlock DEF ClassifyFailure
  <1> QED BY <1>1, <1>2, <1>3, <1>4, <1>5

(* A success leaves a consistent track, whatever it was before. *)
LEMMA SucceededTrack ==
    ASSUME NEW t \in Track, NEW ewma \in Nat, NEW threshold
    PROVE  /\ SucceedTrack(t, ewma, threshold) \in Track
           /\ ConsistentTrack(SucceedTrack(t, ewma, threshold))
           /\ SucceedTrack(t, ewma, threshold).lastFailure = t.lastFailure
           /\ SucceedTrack(t, ewma, threshold).status \in Statuses
  <1> DEFINE slow == IsSlow([t EXCEPT !.ewmaLatency = ewma], threshold)
             s == IF slow THEN "Degraded" ELSE "Active"
             r == IF slow THEN "Slow" ELSE "None"
             d == [t EXCEPT !.ewmaLatency = ewma, !.failureCount = 0,
                            !.backoffLevel = 0, !.blockedUntil = ZeroTime,
                            !.status = s, !.reason = r]
  <1>1. SucceedTrack(t, ewma, threshold) = d
    BY DEF SucceedTrack
  <1>2. /\ s \in {"Active", "Degraded"}
        /\ r = IF s = "Active" THEN "None" ELSE "Slow"
    OBVIOUS
  <1>3. s \in Statuses /\ r \in Reasons
    BY Literals
  <1>4. ZeroTime \in Int
    BY DurationsAssumption DEF ZeroTime
  <1> HIDE DEF s, r
  <1>5. d \in Track
    BY <1>3, <1>4, TrackUpdate
  <1>6. ConsistentTrack(d)
    BY <1>2, <1>3, <1>4 DEF Track, ConsistentTrack
  <1> QED BY <1>1, <1>3, <1>5, <1>6 DEF Track

(* So does a reset of one model. *)
LEMMA ResetTrackIsTrack ==
    ASSUME NEW t \in Track
    PROVE  /\ ResetTrack(t) \in Track
           /\ ConsistentTrack(ResetTrack(t))
           /\ ResetTrack(t).lastFailure = t.lastFailure
  <1>1. ZeroTime \in Int
    BY DurationsAssumption DEF ZeroTime
  <1>2. ResetTrack(t) \in Track
    BY <1>1, TrackUpdate, Literals DEF ResetTrack
  <1>3. ConsistentTrack(ResetTrack(t))
    BY <1>1 DEF ResetTrack, Track, ConsistentTrack
  <1> QED BY <1>2, <1>3 DEF ResetTrack, Track

(* The average of natural latencies is a natural number. *)
LEMMA NextEWMAIsNat ==
    ASSUME NEW old \in Nat, NEW sample \in Nat, NEW e \in NextEWMA(old, sample)
    PROVE  e \in Nat
  BY DEF NextEWMA

-----------------------------------------------------------------------------
(* The states of a goroutine. *)

(* What a goroutine inside the callback holds, and what it becomes. *)
LEMMA CallbackCaller ==
    ASSUME NEW r \in CallerState, r.pc = "callback"
    PROVE  /\ r \in [pc : {"callback"}, key : Keys, code : Codes,
                     old : Statuses, attached : BOOLEAN]
           /\ r.key \in Keys
           /\ r.code \in Nat
           /\ r.old \in Statuses
           /\ r.attached \in BOOLEAN
           /\ [r EXCEPT !.attached = FALSE] \in CallerState
           /\ [r EXCEPT !.attached = FALSE].attached = FALSE
           /\ [r EXCEPT !.attached = FALSE].pc = "callback"
  <1>1. r \in [pc : {"callback"}, key : Keys, code : Codes,
               old : Statuses, attached : BOOLEAN]
    BY DEF CallerState, IdleCaller
  <1>2. [r EXCEPT !.attached = FALSE]
          \in [pc : {"callback"}, key : Keys, code : Codes,
               old : Statuses, attached : BOOLEAN]
    BY <1>1
  <1> QED BY <1>1, <1>2, TrackerAssumption DEF CallerState

(* What a goroutine that has an event to send carries. *)
LEMMA EmitCaller ==
    ASSUME NEW r \in CallerState, r.pc = "emit"
    PROVE  r.key \in Keys /\ r.old \in Statuses /\ r.new \in Statuses
  BY DEF CallerState, IdleCaller

(* The states a recorder puts its goroutine in. *)
LEMMA NewCaller ==
    ASSUME NEW k \in Keys, NEW old \in Statuses, NEW new \in Statuses,
           NEW code \in Codes
    PROVE  /\ IdleCaller \in CallerState
           /\ IdleCaller.pc = "idle"
           /\ EmitNext(k, old, new) \in CallerState
           /\ EmitNext(k, old, new).pc = "emit"
           /\ [pc |-> "callback", key |-> k, code |-> code,
               old |-> old, attached |-> TRUE] \in CallerState
  BY DEF CallerState, IdleCaller, EmitNext

(* Detaching leaves no goroutine attached to an entry that is gone, and       *)
(* attaches none.                                                             *)
LEMMA DetachedCallers ==
    ASSUME caller \in [Callers -> CallerState], NEW gone
    PROVE  /\ Detach(gone) \in [Callers -> CallerState]
           /\ \A c \in Callers :
                Detach(gone)[c].pc = "callback" /\ Detach(gone)[c].attached =>
                    /\ caller[c].pc = "callback"
                    /\ caller[c].attached
                    /\ Detach(gone)[c] = caller[c]
                    /\ caller[c].key \notin gone
  <1>1. \A c \in Callers : caller[c].pc = "callback" =>
            /\ [caller[c] EXCEPT !.attached = FALSE] \in CallerState
            /\ [caller[c] EXCEPT !.attached = FALSE].attached = FALSE
    BY CallbackCaller
  <1>2. \A c \in Callers : Detach(gone)[c] \in CallerState
    BY <1>1 DEF Detach
  <1> QED BY <1>1, <1>2 DEF Detach

-----------------------------------------------------------------------------
(* The inductive invariant and its steps. *)

IInv == TypeOK /\ AttachedIsInMap /\ TrackConsistent

(* The empty tracker satisfies the invariant. *)
LEMMA InitIInv == Init => IInv
  <1> SUFFICES ASSUME Init PROVE IInv
    OBVIOUS
  <1>1. TypeOK
    <2>1. caller \in [Callers -> CallerState]
      BY DEF Init, CallerState
    <2>2. latencyThreshold \in Nat /\ failureCooldown \in Nat
      BY TrackerAssumption DEF Init
    <2>3. StatusEvents \in Seq(StatusEvent) /\ Len(StatusEvents) <= EventCap
      BY TrackerAssumption DEF Init
    <2> QED BY <2>1, <2>2, <2>3, TrackerAssumption DEF Init, TypeOK
  <1>2. AttachedIsInMap
    BY DEF Init, IdleCaller, AttachedIsInMap
  <1>3. TrackConsistent
    BY DEF Init, TrackConsistent
  <1> QED BY <1>1, <1>2, <1>3 DEF IInv

(* One entry changes to a consistent track that was dated: all three parts    *)
(* of the invariant that speak of the map go on to hold.                      *)
LEMMA PutTrack ==
    ASSUME IInv, NEW k \in Keys, NEW b \in Track, ConsistentTrack(b),
           failures' = [failures EXCEPT ![k] = b]
    PROVE  /\ failures' \in [Keys -> Track \cup {NoTrack}]
           /\ TrackConsistent'
           /\ failures'[k] = b /\ b # NoTrack
           /\ \A j \in Keys : j # k => failures'[j] = failures[j]
  <1>1. ConsistentTrack(b)'
    BY DEF ConsistentTrack
  <1> QED BY <1>1, NoTrackAssumption
          DEF IInv, TypeOK, TrackConsistent, ConsistentTrack

(* No clock reading is the zero time. *)
LEMMA NowIsNotZeroTime == TypeOK => now \in Nat /\ now # ZeroTime
  BY DurationsAssumption, TrackerAssumption DEF TypeOK, ZeroTime

(* The goroutines attached to an entry before it is put stay attached to one  *)
(* that was dated.                                                            *)
LEMMA AttachedAfterPut ==
    ASSUME IInv, NEW k \in Keys, NEW b \in Track, ConsistentTrack(b),
           failures' = [failures EXCEPT ![k] = b],
           \/ b.lastFailure = now
           \/ failures[k] # NoTrack => b.lastFailure = failures[k].lastFailure,
           NEW d \in Callers,
           caller[d].pc = "callback" /\ caller[d].attached
    PROVE  /\ failures'[caller[d].key] # NoTrack
           /\ failures'[caller[d].key].lastFailure # ZeroTime
  <1>1. caller[d].key \in Keys
    BY CallbackCaller DEF IInv, TypeOK
  <1>2. /\ failures[caller[d].key] # NoTrack
        /\ failures[caller[d].key].lastFailure # ZeroTime
    BY DEF IInv, AttachedIsInMap
  <1>3. now # ZeroTime
    BY NowIsNotZeroTime DEF IInv
  <1>4. CASE caller[d].key = k
    BY <1>2, <1>3, <1>4, PutTrack
  <1>5. CASE caller[d].key # k
    BY <1>1, <1>2, <1>5, PutTrack
  <1> QED BY <1>4, <1>5

(* The entry a recorder reads, dated or not, satisfies what the lemmas on     *)
(* tracks ask for.                                                            *)
LEMMA EntryOfMap ==
    ASSUME IInv, NEW k \in Keys
    PROVE  /\ Entry(failures[k]) \in Track
           /\ ConsistentTrack(Entry(failures[k]))
           /\ failures[k] # NoTrack => Entry(failures[k]) = failures[k]
  <1>1. failures[k] \in Track \cup {NoTrack}
    BY DEF IInv, TypeOK
  <1>2. failures[k] # NoTrack => ConsistentTrack(failures[k])
    BY DEF IInv, TrackConsistent
  <1> QED BY <1>1, <1>2, EntryIsTrack DEF Entry

(* The end of every recorder: it puts a track that keeps the date of the last *)
(* failure, or renews it, and goes on to send its event.                      *)
LEMMA PutAndEmit ==
    ASSUME IInv, NEW c \in Callers, NEW k \in Keys,
           NEW b \in Track, ConsistentTrack(b),
           \/ b.lastFailure = now
           \/ failures[k] # NoTrack => b.lastFailure = failures[k].lastFailure,
           NEW old \in Statuses, NEW new \in Statuses,
           failures' = [failures EXCEPT ![k] = b],
           caller' = [caller EXCEPT ![c] = EmitNext(k, old, new)],
           providerFailures' \in [Providers -> Nat],
           UNCHANGED <<settings, now, StatusEvents>>
    PROVE  IInv'
  <1> DEFINE emitting == EmitNext(k, old, new)
  <1>1. emitting \in CallerState /\ emitting.pc = "emit"
    BY DEF CallerState, EmitNext
  <1>2. caller \in [Callers -> CallerState]
    BY DEF IInv, TypeOK
  <1> HIDE DEF emitting
  <1>3. caller' = [caller EXCEPT ![c] = emitting]
    BY DEF emitting
  <1>4. TrackConsistent' /\ failures' \in [Keys -> Track \cup {NoTrack}]
    BY PutTrack
  <1>5. TypeOK'
    BY <1>1, <1>2, <1>3, <1>4 DEF IInv, TypeOK, settings
  <1>6. AttachedIsInMap'
    <2> SUFFICES ASSUME NEW d \in Callers,
                        caller'[d].pc = "callback", caller'[d].attached
                 PROVE  /\ failures'[caller'[d].key] # NoTrack
                        /\ failures'[caller'[d].key].lastFailure # ZeroTime
      BY DEF AttachedIsInMap
    <2>1. caller'[d] = caller[d]
      BY <1>1, <1>2, <1>3
    <2> QED BY <2>1, AttachedAfterPut
  <1> QED BY <1>4, <1>5, <1>6 DEF IInv

(* The first critical section of RecordFailure, with or without the callback. *)
LEMMA RecordFailureStep ==
    ASSUME Horizon, IInv, NEW c \in Callers, NEW k \in Keys, NEW code \in Codes,
           RecordFailure(c, k, code)
    PROVE  IInv'
  <1> DEFINE touched == [Entry(failures[k]) EXCEPT !.lastFailure = now]
             blocked == ClassifyFailure(touched, code, now)
  <1>1. now \in Nat /\ now # ZeroTime
    BY NowIsNotZeroTime DEF IInv
  <1>2. /\ touched \in Track
        /\ ConsistentTrack(touched)
        /\ touched.lastFailure = now
    BY <1>1, EntryOfMap, DatedTrack
  <1>3. touched.status \in Statuses
    BY <1>2 DEF Track
  <1>4. touched.backoffLevel < MaxLevel
    <2>1. touched.backoffLevel < MaxFailures
      BY DEF RecordFailure
    <2> QED BY <2>1, <1>2, TrackerAssumption DEF Track
  <1>5. code \in Nat
    BY TrackerAssumption
  <1> HIDE DEF touched
  <1>6. BlockedFrom(blocked, touched, now)
    BY <1>1, <1>2, <1>4, <1>5, ClassifiedTrack
  <1>7. providerFailures' \in [Providers -> Nat]
    BY TrackerAssumption DEF RecordFailure, IInv, TypeOK
  <1>8. /\ caller \in [Callers -> CallerState]
        /\ UNCHANGED <<latencyThreshold, failureCooldown, now, StatusEvents>>
    BY DEF RecordFailure, settings, IInv, TypeOK
  <1> HIDE DEF blocked
  <1>9. CASE providerFailures[ProviderOf[k]] + 1 >= PersistentFailures
    <2> DEFINE inCallback == [pc |-> "callback", key |-> k, code |-> code,
                              old |-> touched.status, attached |-> TRUE]
    <2>1. /\ failures' = [failures EXCEPT ![k] = touched]
          /\ caller' = [caller EXCEPT ![c] = inCallback]
      BY <1>9 DEF RecordFailure, touched
    <2>2. inCallback \in CallerState
      BY <1>3, NewCaller
    <2>3. TrackConsistent' /\ failures' \in [Keys -> Track \cup {NoTrack}]
      BY <1>2, <2>1, PutTrack
    <2>4. TypeOK'
      BY <1>7, <1>8, <2>1, <2>2, <2>3 DEF IInv, TypeOK
    <2>5. AttachedIsInMap'
      <3> SUFFICES ASSUME NEW d \in Callers,
                          caller'[d].pc = "callback", caller'[d].attached
                   PROVE  /\ failures'[caller'[d].key] # NoTrack
                          /\ failures'[caller'[d].key].lastFailure # ZeroTime
        BY DEF AttachedIsInMap
      <3>1. CASE d = c
        <4>1. caller'[d].key = k
          BY <1>8, <2>1, <3>1
        <4> QED BY <4>1, <1>1, <1>2, <2>1, PutTrack
      <3>2. CASE d # c
        <4>1. caller'[d] = caller[d]
          BY <1>8, <2>1, <3>2
        <4> QED BY <4>1, <1>2, <2>1, AttachedAfterPut
      <3> QED BY <3>1, <3>2
    <2> QED BY <2>3, <2>4, <2>5 DEF IInv
  <1>10. CASE ~(providerFailures[ProviderOf[k]] + 1 >= PersistentFailures)
    <2>1. /\ failures' = [failures EXCEPT ![k] = blocked]
          /\ caller' = [caller EXCEPT ![c] =
                          EmitNext(k, touched.status, blocked.status)]
      BY <1>10 DEF RecordFailure, touched, blocked
    <2>2. /\ blocked \in Track
          /\ ConsistentTrack(blocked)
          /\ blocked.lastFailure = now
          /\ blocked.status \in Statuses
      BY <1>2, <1>6 DEF BlockedFrom, Track
    <2> QED BY <1>3, <1>7, <1>8, <2>1, <2>2, PutAndEmit DEF settings
  <1> QED BY <1>9, <1>10

(* The second one, on the track of the map or on one that has left it. *)
LEMMA ResumeRecordFailureStep ==
    ASSUME Horizon, IInv, NEW c \in Callers, ResumeRecordFailure(c)
    PROVE  IInv'
  <1> DEFINE k       == caller[c].key
             track   == IF caller[c].attached THEN failures[k] ELSE NewTrack
             blocked == ClassifyFailure(track, caller[c].code, now)
  <1>1. /\ caller \in [Callers -> CallerState]
        /\ providerFailures \in [Providers -> Nat]
        /\ now \in Nat
    BY NowIsNotZeroTime DEF IInv, TypeOK
  <1>2. /\ caller[c].pc = "callback"
        /\ track.backoffLevel < MaxLevel
        /\ UNCHANGED <<providerFailures, settings, now, StatusEvents>>
        /\ caller' = [caller EXCEPT ![c] =
                        EmitNext(k, caller[c].old, blocked.status)]
        /\ failures' = IF caller[c].attached
                       THEN [failures EXCEPT ![k] = blocked] ELSE failures
    BY DEF ResumeRecordFailure
  <1>3. /\ k \in Keys
        /\ caller[c].code \in Nat
        /\ caller[c].old \in Statuses
        /\ caller[c].attached \in BOOLEAN
    BY <1>1, <1>2, CallbackCaller
  <1>4. CASE caller[c].attached
    <2>1. track = failures[k] /\ track # NoTrack
      BY <1>2, <1>4 DEF IInv, AttachedIsInMap
    <2>2. track \in Track /\ ConsistentTrack(track)
      BY <1>3, <2>1 DEF IInv, TypeOK, TrackConsistent
    <2> HIDE DEF track
    <2>3. BlockedFrom(blocked, track, now)
      BY <1>1, <1>2, <1>3, <2>2, ClassifiedTrack
    <2> HIDE DEF blocked, k
    <2>4. /\ blocked \in Track
          /\ ConsistentTrack(blocked)
          /\ blocked.lastFailure = failures[k].lastFailure
          /\ blocked.status \in Statuses
      BY <2>1, <2>3 DEF BlockedFrom, Track
    <2>5. failures' = [failures EXCEPT ![k] = blocked]
      BY <1>2, <1>4
    <2> QED BY <1>1, <1>2, <1>3, <2>4, <2>5, PutAndEmit
  <1>5. CASE ~caller[c].attached
    <2>1. track = NewTrack /\ track \in Track /\ ConsistentTrack(track)
      BY <1>5, EntryIsTrack DEF Entry
    <2> HIDE DEF track
    <2>2. BlockedFrom(blocked, track, now)
      BY <1>1, <1>2, <1>3, <2>1, ClassifiedTrack
    <2> HIDE DEF blocked, k
    <2> DEFINE emitting == EmitNext(k, caller[c].old, blocked.status)
    <2>3. emitting \in CallerState /\ emitting.pc = "emit"
      BY <1>3, <2>2 DEF BlockedFrom, Track, CallerState, EmitNext
    <2>4. failures' = failures /\ caller' = [caller EXCEPT ![c] = emitting]
      BY <1>2, <1>5
    <2> HIDE DEF emitting
    <2>5. TypeOK'
      BY <1>1, <1>2, <2>3, <2>4 DEF IInv, TypeOK, settings
    <2>6. AttachedIsInMap'
      BY <1>1, <2>3, <2>4 DEF IInv, AttachedIsInMap
    <2>7. TrackConsistent'
      BY <2>4 DEF IInv, TrackConsistent, ConsistentTrack
    <2> QED BY <2>5, <2>6, <2>7 DEF IInv
  <1> QED BY <1>4, <1>5

(* RecordSuccess, which creates a missing entry. *)
LEMMA RecordSuccessStep ==
    ASSUME IInv, NEW c \in Callers, NEW k \in Keys, NEW latency \in Latencies,
           RecordSuccess(c, k, latency)
    PROVE  IInv'
  <1> DEFINE track == Entry(failures[k])
  <1>1. PICK ewma \in NextEWMA(track.ewmaLatency, latency) :
            /\ failures' = [failures EXCEPT ![k] =
                              SucceedTrack(track, ewma, latencyThreshold)]
            /\ caller' = [caller EXCEPT ![c] =
                 EmitNext(k, track.status,
                          SucceedTrack(track, ewma, latencyThreshold).status)]
    BY DEF RecordSuccess
  <1> DEFINE done == SucceedTrack(track, ewma, latencyThreshold)
  <1>2. /\ track \in Track
        /\ failures[k] # NoTrack => track = failures[k]
    BY EntryOfMap
  <1> HIDE DEF track
  <1>3. track.ewmaLatency \in Nat /\ track.status \in Statuses
    BY <1>2 DEF Track
  <1>4. ewma \in Nat
    BY <1>3, NextEWMAIsNat, TrackerAssumption
  <1>5. /\ done \in Track
        /\ ConsistentTrack(done)
        /\ done.lastFailure = track.lastFailure
        /\ done.status \in Statuses
    BY <1>2, <1>4, SucceededTrack
  <1>6. /\ providerFailures' \in [Providers -> Nat]
        /\ UNCHANGED <<settings, now, StatusEvents>>
    BY DEF RecordSuccess, IInv, TypeOK
  <1> HIDE DEF done
  <1>7. /\ failures' = [failures EXCEPT ![k] = done]
        /\ caller' = [caller EXCEPT ![c] = EmitNext(k, track.status, done.status)]
    BY <1>1 DEF done
  <1>8. failures[k] # NoTrack => done.lastFailure = failures[k].lastFailure
    BY <1>2, <1>5
  <1> QED BY <1>3, <1>5, <1>6, <1>7, <1>8, PutAndEmit

(* ResetFailures of one model. *)
LEMMA ResetFailuresStep ==
    ASSUME IInv, NEW c \in Callers, NEW k \in Keys, ResetFailures(c, k)
    PROVE  IInv'
  <1>1. /\ providerFailures' \in [Providers -> Nat]
        /\ UNCHANGED <<settings, now, StatusEvents>>
    BY DEF ResetFailures, IInv, TypeOK
  <1>2. CASE failures[k] = NoTrack
    <2>1. UNCHANGED <<failures, caller>>
      BY <1>2 DEF ResetFailures
    <2> QED BY <1>1, <2>1
            DEF IInv, TypeOK, AttachedIsInMap, TrackConsistent,
                ConsistentTrack, settings
  <1>3. CASE failures[k] # NoTrack
    <2> DEFINE b == ResetTrack(failures[k])
    <2>1. failures[k] \in Track
      BY <1>3 DEF IInv, TypeOK
    <2>2. /\ b \in Track
          /\ ConsistentTrack(b)
          /\ b.lastFailure = failures[k].lastFailure
      BY <2>1, ResetTrackIsTrack
    <2>3. failures[k].status \in Statuses /\ "Active" \in Statuses
      BY <2>1, Literals DEF Track
    <2> HIDE DEF b
    <2>4. /\ failures' = [failures EXCEPT ![k] = b]
          /\ caller' = [caller EXCEPT ![c] =
                          EmitNext(k, failures[k].status, "Active")]
      BY <1>3 DEF ResetFailures, b
    <2> QED BY <1>1, <2>2, <2>3, <2>4, PutAndEmit
  <1> QED BY <1>2, <1>3

(* The send of the status event, with room in the channel or without. *)
LEMMA EmitStatusChangeStep ==
    ASSUME IInv, NEW c \in Callers, EmitStatusChange(c)
    PROVE  IInv'
  <1> DEFINE event == [key |-> caller[c].key, old |-> caller[c].old,
                       new |-> caller[c].new]
  <1>1. event \in StatusEvent
    BY EmitCaller DEF EmitStatusChange, IInv, TypeOK, StatusEvent
  <1> HIDE DEF event
  <1>2. \/ StatusEvents' = StatusEvents
        \/ StatusEvents' = Append(StatusEvents, event) /\ Len(StatusEvents) < EventCap
    <2>1. Len(StatusEvents) \in Nat
      BY DEF IInv, TypeOK
    <2>2. StatusEvents' = IF event.old = event.new \/ Len(StatusEvents) >= EventCap
                          THEN StatusEvents
                          ELSE Append(StatusEvents, event)
      BY Zenon DEF EmitStatusChange, event
    <2>3. EventCap \in Nat
      BY TrackerAssumption
    <2>4. CASE event.old = event.new \/ Len(StatusEvents) >= EventCap
      BY <2>2, <2>4
    <2>5. CASE ~(event.old = event.new \/ Len(StatusEvents) >= EventCap)
      <3>1. Len(StatusEvents) < EventCap
        BY <2>1, <2>3, <2>5
      <3> QED BY <2>2, <2>5, <3>1
    <2> QED BY <2>4, <2>5
  <1>3. StatusEvents' \in Seq(StatusEvent) /\ Len(StatusEvents') <= EventCap
    <2>1. /\ StatusEvents \in Seq(StatusEvent)
          /\ Len(StatusEvents) <= EventCap
          /\ Len(StatusEvents) \in Nat
          /\ EventCap \in Nat
      BY TrackerAssumption DEF IInv, TypeOK
    <2>2. CASE StatusEvents' = StatusEvents
      BY <2>1, <2>2
    <2>3. CASE StatusEvents' = Append(StatusEvents, event)
               /\ Len(StatusEvents) < EventCap
      <3>1. /\ StatusEvents' \in Seq(StatusEvent)
            /\ Len(StatusEvents') = Len(StatusEvents) + 1
        BY <1>1, <2>1, <2>3
      <3> QED BY <2>1, <2>3, <3>1
    <2> QED BY <1>2, <2>2, <2>3
  <1>4. IdleCaller \in CallerState /\ IdleCaller.pc = "idle"
    BY DEF CallerState, IdleCaller
  <1>5. /\ caller' = [caller EXCEPT ![c] = IdleCaller]
        /\ UNCHANGED <<trackerVars, settings, now>>
    BY DEF EmitStatusChange
  <1>6. TypeOK'
    BY <1>3, <1>4, <1>5 DEF IInv, TypeOK, trackerVars, settings
  <1>7. AttachedIsInMap'
    BY <1>4, <1>5 DEF IInv, TypeOK, AttachedIsInMap, trackerVars
  <1>8. TrackConsistent'
    BY <1>5 DEF IInv, TrackConsistent, ConsistentTrack, trackerVars
  <1> QED BY <1>6, <1>7, <1>8 DEF IInv

(* The receive of the warm-up goroutine. *)
LEMMA ReceiveStatusEventStep ==
    ASSUME IInv, ReceiveStatusEvent
    PROVE  IInv'
  <1>1. StatusEvents' \in Seq(StatusEvent) /\ Len(StatusEvents') <= EventCap
    <2>1. /\ StatusEvents \in Seq(StatusEvent)
          /\ StatusEvents # << >>
          /\ StatusEvents' = Tail(StatusEvents)
          /\ Len(StatusEvents) <= EventCap
      BY DEF ReceiveStatusEvent, IInv, TypeOK
    <2> QED BY <2>1, TrackerAssumption
  <1>2. UNCHANGED <<trackerVars, settings, now, caller>>
    BY DEF ReceiveStatusEvent
  <1> QED BY <1>1, <1>2
          DEF IInv, TypeOK, AttachedIsInMap, TrackConsistent, ConsistentTrack,
              trackerVars, settings

(* The cleanup detaches the goroutines whose entries it deletes. *)
LEMMA CleanupOldEntriesStep ==
    ASSUME IInv, CleanupOldEntries
    PROVE  IInv'
  <1> DEFINE stale == {k \in Keys : IsStale(failures[k], now, failureCooldown)}
  <1>1. /\ failures' = [k \in Keys |-> IF k \in stale THEN NoTrack ELSE failures[k]]
        /\ caller' = Detach(stale)
        /\ UNCHANGED <<providerFailures, settings, now, StatusEvents>>
    BY DEF CleanupOldEntries
  <1> HIDE DEF stale
  <1>2. caller \in [Callers -> CallerState]
    BY DEF IInv, TypeOK
  <1>3. TypeOK'
    <2>1. failures' \in [Keys -> Track \cup {NoTrack}]
      BY <1>1 DEF IInv, TypeOK
    <2>2. caller' \in [Callers -> CallerState]
      BY <1>1, <1>2, DetachedCallers
    <2> QED BY <1>1, <2>1, <2>2 DEF IInv, TypeOK, settings
  <1>4. AttachedIsInMap'
    <2> SUFFICES ASSUME NEW d \in Callers,
                        caller'[d].pc = "callback", caller'[d].attached
                 PROVE  /\ failures'[caller'[d].key] # NoTrack
                        /\ failures'[caller'[d].key].lastFailure # ZeroTime
      BY DEF AttachedIsInMap
    <2>1. /\ caller'[d] = caller[d]
          /\ caller[d].pc = "callback"
          /\ caller[d].attached
          /\ caller[d].key \notin stale
      BY <1>1, <1>2, DetachedCallers
    <2>2. caller[d].key \in Keys
      BY <1>2, <2>1, CallbackCaller
    <2>3. failures'[caller[d].key] = failures[caller[d].key]
      BY <1>1, <2>1, <2>2
    <2> QED BY <2>1, <2>3 DEF IInv, AttachedIsInMap
  <1>5. TrackConsistent'
    BY <1>1 DEF IInv, TrackConsistent, ConsistentTrack
  <1> QED BY <1>3, <1>4, <1>5 DEF IInv

(* The reset empties the map and detaches every goroutine. *)
LEMMA ResetAllFailuresStep ==
    ASSUME IInv, ResetAllFailures
    PROVE  IInv'
  <1>1. /\ failures' = [k \in Keys |-> NoTrack]
        /\ providerFailures' = [p \in Providers |-> 0]
        /\ caller' = Detach(Keys)
        /\ UNCHANGED <<settings, now, StatusEvents>>
    BY DEF ResetAllFailures
  <1>2. caller \in [Callers -> CallerState]
    BY DEF IInv, TypeOK
  <1>3. TypeOK'
    <2>1. caller' \in [Callers -> CallerState]
      BY <1>1, <1>2, DetachedCallers
    <2> QED BY <1>1, <2>1 DEF IInv, TypeOK, settings
  <1>4. AttachedIsInMap'
    <2> SUFFICES ASSUME NEW d \in Callers,
                        caller'[d].pc = "callback", caller'[d].attached
                 PROVE  FALSE
      BY DEF AttachedIsInMap
    <2>1. caller[d].pc = "callback" /\ caller[d].key \notin Keys
      BY <1>1, <1>2, DetachedCallers
    <2> QED BY <1>2, <2>1, CallbackCaller
  <1>5. TrackConsistent'
    BY <1>1 DEF TrackConsistent
  <1> QED BY <1>3, <1>4, <1>5 DEF IInv

(* The steps that leave the map and the goroutines alone. *)
LEMMA QuietStep ==
    ASSUME IInv, UNCHANGED <<trackerVars, caller, StatusEvents>>,
           latencyThreshold' \in Nat, failureCooldown' \in Nat,
           now' \in 0 .. MaxTime
    PROVE  IInv'
  BY DEF IInv, TypeOK, AttachedIsInMap, TrackConsistent, ConsistentTrack,
         trackerVars

(* Every step of the tracker keeps the invariant. *)
LEMMA NextIInv == ASSUME Horizon PROVE IInv /\ [Next]_vars => IInv'
  <1> SUFFICES ASSUME IInv, [Next]_vars PROVE IInv'
    OBVIOUS
  <1>1. ASSUME NEW c \in Callers, CallerStep(c) PROVE IInv'
    <2>1. ASSUME NEW k \in Keys, NEW code \in Codes, RecordFailure(c, k, code)
          PROVE  IInv'
      BY <2>1, RecordFailureStep
    <2>2. CASE ResumeRecordFailure(c)
      BY <2>2, ResumeRecordFailureStep
    <2>3. ASSUME NEW k \in Keys, NEW latency \in Latencies,
                 RecordSuccess(c, k, latency)
          PROVE  IInv'
      BY <2>3, RecordSuccessStep
    <2>4. ASSUME NEW k \in Keys, ResetFailures(c, k) PROVE IInv'
      BY <2>4, ResetFailuresStep
    <2>5. CASE EmitStatusChange(c)
      BY <2>5, EmitStatusChangeStep
    <2> QED BY <1>1, <2>1, <2>2, <2>3, <2>4, <2>5 DEF CallerStep
  <1>2. CASE ReceiveStatusEvent
    BY <1>2, ReceiveStatusEventStep
  <1>3. CASE CleanupOldEntries
    BY <1>3, CleanupOldEntriesStep
  <1>4. CASE ResetAllFailures
    BY <1>4, ResetAllFailuresStep
  <1>5. ASSUME NEW threshold \in Thresholds, SetLatencyThreshold(threshold)
        PROVE  IInv'
    BY <1>5, QuietStep, TrackerAssumption
       DEF SetLatencyThreshold, IInv, TypeOK, trackerVars
  <1>6. ASSUME NEW duration \in Cooldowns, SetBlockDuration(duration)
        PROVE  IInv'
    BY <1>6, QuietStep, TrackerAssumption
       DEF SetBlockDuration, IInv, TypeOK, trackerVars
  <1>7. CASE Tick
    <2>1. now' \in 0 .. MaxTime
      BY <1>7, TrackerAssumption DEF Tick, IInv, TypeOK
    <2> QED BY <1>7, <2>1, QuietStep DEF Tick, IInv, TypeOK, trackerVars, settings
  <1>8. CASE UNCHANGED vars
    BY <1>8, QuietStep DEF vars, IInv, TypeOK, trackerVars
  <1> QED BY <1>1, <1>2, <1>3, <1>4, <1>5, <1>6, <1>7, <1>8 DEF Next

-----------------------------------------------------------------------------
(* The theorems. *)

(* The inductive invariant holds in every state: the tracks, the pointers     *)
(* held across OnPersistentFailure and the types, for any number of goroutines.*)
THEOREM Invariance == ASSUME Horizon PROVE Spec => []IInv
  <1>1. IInv /\ [Next]_vars => IInv'
    BY NextIInv
  <1> QED BY <1>1, InitIInv, PTL DEF Spec

(* Every recorder leaves the tracker in a state of the declared types,        *)
(* however the goroutines interleave.                                         *)
THEOREM TypeCorrect == ASSUME Horizon PROVE Spec => []TypeOK
  <1>1. IInv => TypeOK
    BY DEF IInv
  <1> QED BY <1>1, Invariance, PTL

(* RecordFailure, RecordSuccess, the resets and the cleanup keep every track  *)
(* in one of its three shapes, through the gap of the callback too.           *)
THEOREM TracksStayConsistent == ASSUME Horizon PROVE Spec => []TrackConsistent
  <1>1. IInv => TrackConsistent
    BY DEF IInv
  <1> QED BY <1>1, Invariance, PTL

(* A pointer held across OnPersistentFailure is only used while it is in the  *)
(* map.                                                                       *)
THEOREM PointersStayInMap == ASSUME Horizon PROVE Spec => []AttachedIsInMap
  <1>1. IInv => AttachedIsInMap
    BY DEF IInv
  <1> QED BY <1>1, Invariance, PTL

(* GetModelStatus and GetBlockedModels agree on who is blocked.               *)
THEOREM ViewsStayInAgreement == ASSUME Horizon PROVE Spec => []ViewsAgree
  <1>1. IInv => ViewsAgree
    <2> SUFFICES ASSUME IInv, NEW k \in Keys,
                        failures[k] # NoTrack => now # failures[k].blockedUntil
                 PROVE  Blocked(k) <=> k \in GetBlockedModels
      BY DEF ViewsAgree
    <2>1. CASE failures[k] = NoTrack
      BY <2>1 DEF Blocked, GetModelStatus, ModelStatus, GetBlockedModels,
                  ListedAsBlocked
    <2>2. CASE failures[k] # NoTrack
      <3> DEFINE t == failures[k]
      <3>1. t \in Track /\ ConsistentTrack(t) /\ now \in Nat
        BY <2>2, NowIsNotZeroTime DEF IInv, TypeOK, TrackConsistent
      <3>2. ZeroTime \in Int /\ ZeroTime < 0
        BY DurationsAssumption DEF ZeroTime
      <3>3. Blocked(k) <=> \/ t.status = "BlockedFatal"
                           \/ t.status = "BlockedTemp" /\ ~(now > t.blockedUntil)
        BY <2>2, <3>1 DEF Blocked, GetModelStatus, ModelStatus, Track, Statuses
      <3>4. k \in GetBlockedModels <=> \/ now < t.blockedUntil
                                       \/ t.status = "BlockedFatal"
        BY <2>2 DEF GetBlockedModels, ListedAsBlocked
      <3>5. now # t.blockedUntil
        BY <2>2
      <3> QED BY <3>1, <3>2, <3>3, <3>4, <3>5
              DEF ConsistentTrack, Track, Statuses
    <2> QED BY <2>1, <2>2
  <1> QED BY <1>1, Invariance, PTL

(* Any step but a success, a reset or the clock keeps a blocked model         *)
(* blocked.                                                                   *)
LEMMA PutKeepsBlocked ==
    ASSUME IInv, NEW k \in Keys, NEW b,
           failures' = [failures EXCEPT ![k] = b],
           UNCHANGED <<settings, now>>,
           \/ b.status \in {"BlockedTemp", "BlockedFatal"} /\ b # NoTrack
                /\ (b.status = "BlockedTemp" => ~(now > b.blockedUntil))
           \/ /\ b # NoTrack
              /\ b.status = Entry(failures[k]).status
              /\ b.blockedUntil = Entry(failures[k]).blockedUntil,
           NEW j \in Keys, Blocked(j)
    PROVE  Blocked(j)'
  <1>1. failures \in [Keys -> Track \cup {NoTrack}]
    BY DEF IInv, TypeOK
  <1>2. CASE j # k
    BY <1>1, <1>2 DEF Blocked, GetModelStatus, settings
  <1>3. CASE j = k
    <2>1. failures'[j] = b
      BY <1>1, <1>3
    <2>2. failures[j] # NoTrack
      BY DEF Blocked, GetModelStatus, ModelStatus
    <2>3. Entry(failures[k]) = failures[j]
      BY <1>3, <2>2 DEF Entry
    <2>4. /\ failures[j].status \in {"BlockedTemp", "BlockedFatal"}
          /\ failures[j].status = "BlockedTemp" => ~(now > failures[j].blockedUntil)
      BY <2>2 DEF Blocked, GetModelStatus, ModelStatus
    <2>5. /\ b # NoTrack
          /\ b.status \in {"BlockedTemp", "BlockedFatal"}
          /\ b.status = "BlockedTemp" => ~(now > b.blockedUntil)
      BY <2>3, <2>4
    <2>6. now' = now
      OBVIOUS
    <2> QED BY <2>1, <2>5, <2>6 DEF Blocked, GetModelStatus, ModelStatus
  <1> QED BY <1>2, <1>3

(* No step that is not a recovery unblocks a model. *)
LEMMA KeptBlocked ==
    ASSUME Horizon, IInv, NotARecovery, NEW j \in Keys, Blocked(j)
    PROVE  Blocked(j)'
  <1>1. now \in Nat /\ now <= MaxTime
    BY NowIsNotZeroTime, TrackerAssumption DEF IInv, TypeOK
  <1>2. ASSUME NEW c \in Callers, NEW k \in Keys, NEW code \in Codes,
               RecordFailure(c, k, code)
        PROVE  Blocked(j)'
    <2> DEFINE touched == [Entry(failures[k]) EXCEPT !.lastFailure = now]
               blocked == ClassifyFailure(touched, code, now)
    <2>1. /\ touched \in Track
          /\ ConsistentTrack(touched)
          /\ touched.status = Entry(failures[k]).status
          /\ touched.blockedUntil = Entry(failures[k]).blockedUntil
      BY <1>1, EntryOfMap, DatedTrack
    <2>2. touched.backoffLevel < MaxLevel
      <3>1. touched.backoffLevel < MaxFailures
        BY <1>2 DEF RecordFailure
      <3> QED BY <2>1, <3>1, TrackerAssumption DEF Track
    <2>3. UNCHANGED <<settings, now>>
      BY <1>2 DEF RecordFailure
    <2>4. \/ failures' = [failures EXCEPT ![k] = touched]
          \/ failures' = [failures EXCEPT ![k] = blocked]
      BY <1>2 DEF RecordFailure
    <2> HIDE DEF touched
    <2>5. BlockedFrom(blocked, touched, now)
      BY <1>1, <2>1, <2>2, ClassifiedTrack, TrackerAssumption
    <2> HIDE DEF blocked
    <2>6. CASE failures' = [failures EXCEPT ![k] = touched]
      BY <2>1, <2>3, <2>6, PutKeepsBlocked, NoTrackAssumption
    <2>7. CASE failures' = [failures EXCEPT ![k] = blocked]
      <3>1. /\ blocked # NoTrack
            /\ blocked.status \in {"BlockedTemp", "BlockedFatal"}
            /\ ~(now > blocked.blockedUntil)
        BY <1>1, <2>5, NoTrackAssumption DEF BlockedFrom, Track
      <3> QED BY <2>3, <2>7, <3>1, PutKeepsBlocked
    <2> QED BY <2>4, <2>6, <2>7
  <1>3. ASSUME NEW c \in Callers, ResumeRecordFailure(c)
        PROVE  Blocked(j)'
    <2> DEFINE k       == caller[c].key
               track   == IF caller[c].attached THEN failures[k] ELSE NewTrack
               blocked == ClassifyFailure(track, caller[c].code, now)
    <2>1. /\ caller[c].pc = "callback"
          /\ track.backoffLevel < MaxLevel
          /\ UNCHANGED <<settings, now>>
          /\ failures' = IF caller[c].attached
                         THEN [failures EXCEPT ![k] = blocked] ELSE failures
      BY <1>3 DEF ResumeRecordFailure
    <2>2. /\ k \in Keys
          /\ caller[c].code \in Nat
      BY <2>1, CallbackCaller DEF IInv, TypeOK
    <2>3. CASE ~caller[c].attached
      BY <2>1, <2>3 DEF Blocked, GetModelStatus, settings
    <2>4. CASE caller[c].attached
      <3>1. track = failures[k] /\ track # NoTrack
        BY <2>1, <2>4 DEF IInv, AttachedIsInMap
      <3>2. track \in Track /\ ConsistentTrack(track)
        BY <2>2, <3>1 DEF IInv, TypeOK, TrackConsistent
      <3> HIDE DEF track
      <3>3. BlockedFrom(blocked, track, now)
        BY <1>1, <2>1, <2>2, <3>2, ClassifiedTrack
      <3>4. failures' = [failures EXCEPT ![k] = blocked]
        BY <2>1, <2>4
      <3> HIDE DEF blocked, k
      <3>5. /\ blocked # NoTrack
            /\ blocked.status \in {"BlockedTemp", "BlockedFatal"}
            /\ ~(now > blocked.blockedUntil)
        BY <1>1, <3>3, NoTrackAssumption DEF BlockedFrom, Track
      <3> QED BY <2>1, <2>2, <3>4, <3>5, PutKeepsBlocked
    <2> QED BY <2>3, <2>4
  <1>4. /\ failures[j] # NoTrack
        /\ failures[j].status \in {"BlockedTemp", "BlockedFatal"}
        /\ failures[j].status = "BlockedTemp" => ~(now > failures[j].blockedUntil)
    BY DEF Blocked, GetModelStatus, ModelStatus
  <1>5. CASE CleanupOldEntries
    <2>1. failures[j] \in Track /\ ConsistentTrack(failures[j])
      BY <1>4 DEF IInv, TypeOK, TrackConsistent
    <2>2. ~(now > failures[j].blockedUntil)
      BY <1>1, <1>4, <2>1, TrackerAssumption, DurationsAssumption
         DEF ConsistentTrack, Track, Horizon
    <2>3. ~IsStale(failures[j], now, failureCooldown)
      BY <2>2 DEF IsStale
    <2>4. failures'[j] = failures[j] /\ UNCHANGED <<settings, now>>
      BY <1>5, <2>3 DEF CleanupOldEntries
    <2> QED BY <2>4 DEF Blocked, GetModelStatus, settings
  <1>6. ASSUME failures' = failures, now' = now
        PROVE  Blocked(j)'
    BY <1>4, <1>6 DEF Blocked, GetModelStatus, ModelStatus
  <1>7. ASSUME NEW threshold \in Thresholds, SetLatencyThreshold(threshold)
        PROVE  Blocked(j)'
    BY <1>6, <1>7 DEF SetLatencyThreshold, trackerVars
  <1>8. ASSUME NEW duration \in Cooldowns, SetBlockDuration(duration)
        PROVE  Blocked(j)'
    BY <1>6, <1>8 DEF SetBlockDuration, trackerVars
  <1> QED BY <1>2, <1>3, <1>5, <1>7, <1>8 DEF NotARecovery

(* Within the horizon, a blocked model recovers only through a success, a     *)
(* reset or the passing of time: whatever failures are recorded, in one or    *)
(* two critical sections, they never shorten a block to nothing.              *)
THEOREM BlockedModelsStayBlocked == ASSUME Horizon PROVE Spec => StaysBlocked
  <1>1. IInv /\ [Next]_vars
          => [NotARecovery => \A k \in Keys : Blocked(k) => Blocked(k)']_vars
    BY KeptBlocked
  <1> QED BY <1>1, Invariance, PTL DEF Spec, StaysBlocked

-----------------------------------------------------------------------------
(* The fallback *)

(* The loop of GetBestFallbackModel over one order of the map. *)
LEMMA BestIterates ==
    ASSUME NEW order \in Seq(Keys)
    PROVE  \E g : /\ BestOf(order) = g[Len(order)]
                  /\ g[0] = {}
                  /\ \A i \in 1 .. Len(order) : g[i] = PickFaster(g[i - 1], order[i])
  <1> DEFINE n == Len(order)
             S == SUBSET Keys
             step == [p \in S \X (1 .. n) |-> PickFaster(p[1], order[p[2]])]
             IsBest(g) == g = [i \in 0 .. Len(order) |->
                                 IF i = 0 THEN {} ELSE PickFaster(g[i - 1], order[i])]
  <1>1. n \in Nat /\ {} \in S /\ \A i \in 1 .. n : order[i] \in Keys
    OBVIOUS
  <1>2. ASSUME NEW b \in S, NEW i \in 1 .. n PROVE PickFaster(b, order[i]) \in S
    BY <1>1 DEF PickFaster
  <1>3. step \in [S \X (1 .. n) -> S]
    BY <1>2
  <1>4. \A b \in S, i \in 1 .. n : step[<<b, i>>] = PickFaster(b, order[i])
    OBVIOUS
  <1> HIDE DEF step, S
  <1>5. PICK g : Iterates(S, n, {}, step, g)
    BY <1>1, <1>3, IteratesExist
  <1>6. g \in [0 .. n -> S] /\ g[0] = {}
    BY <1>5 DEF Iterates
  <1>7. ASSUME NEW i \in 1 .. n PROVE g[i] = PickFaster(g[i - 1], order[i])
    <2>1. i - 1 \in 0 .. n - 1 /\ i - 1 \in 0 .. n /\ (i - 1) + 1 = i
      BY <1>1
    <2>2. g[i] = step[<<g[i - 1], i>>] /\ g[i - 1] \in S
      BY <1>5, <1>6, <2>1 DEF Iterates
    <2> QED BY <1>4, <2>2
  <1>8. IsBest(g)
    <2>1. ASSUME NEW i \in 0 .. n
          PROVE  g[i] = IF i = 0 THEN {} ELSE PickFaster(g[i - 1], order[i])
      <3>1. i = 0 \/ i \in 1 .. n
        BY <1>1
      <3> QED BY <1>6, <1>7, <3>1
    <2> QED BY <1>6, <2>1
  <1> DEFINE h == CHOOSE f : IsBest(f)
  <1>9. IsBest(h)
    <2> HIDE DEF IsBest
    <2> QED BY <1>8, Zenon
  <1>10. BestOf(order) = h[n]
    BY DEF BestOf
  <1> HIDE DEF h
  <1>11. h[0] = {}
    BY <1>1, <1>9
  <1>12. ASSUME NEW i \in 1 .. n PROVE h[i] = PickFaster(h[i - 1], order[i])
    <2>1. i \in 0 .. n /\ i # 0
      BY <1>1
    <2> QED BY <1>9, <2>1
  <1> QED BY <1>10, <1>11, <1>12

(* It returns nothing only if it meets no model it may return. *)
LEMMA BestIsFound ==
    ASSUME NEW order \in Seq(Keys), NEW j \in 1 .. Len(order),
           FallbackEligible(failures[order[j]], now)
    PROVE  BestOf(order) # {}
  <1> DEFINE n == Len(order)
  <1>1. PICK g : /\ BestOf(order) = g[n]
                 /\ g[0] = {}
                 /\ \A i \in 1 .. n : g[i] = PickFaster(g[i - 1], order[i])
    BY BestIterates
  <1>2. n \in Nat
    OBVIOUS
  <1> DEFINE P == {i \in 0 .. n : j <= i => g[i] # {}}
  <1>3. 0 \in P
    BY <1>2
  <1>4. ASSUME NEW i \in 0 .. n - 1, i \in P PROVE i + 1 \in P
    <2>1. i + 1 \in 1 .. n /\ (i + 1) - 1 = i /\ i + 1 \in 0 .. n
      BY <1>2
    <2>2. g[i + 1] = PickFaster(g[i], order[i + 1])
      BY <1>1, <2>1
    <2>3. j <= i + 1 => j <= i \/ j = i + 1
      BY <1>2
    <2>4. g[i] # {} => g[i + 1] # {}
      BY <2>2 DEF PickFaster
    <2>5. g[i] = {} /\ j = i + 1 => g[i + 1] # {}
      BY <2>2 DEF PickFaster
    <2> QED BY <1>4, <2>1, <2>3, <2>4, <2>5
  <1>5. \A i \in 0 .. n - 1 : i \in P => i + 1 \in P
    BY <1>4
  <1>6. n \in 0 .. n /\ j <= n
    BY <1>2
  <1> HIDE DEF P, n
  <1>7. 0 .. n \subseteq P
    BY <1>2, <1>3, <1>5, Induction
  <1>8. g[n] # {}
    BY <1>6, <1>7 DEF P
  <1> QED BY <1>1, <1>8

(* The loop over one order of the map returns a model that may be returned,   *)
(* and the latency of no measured one of the order is smaller than its own.   *)
LEMMA BestIsFast ==
    ASSUME TypeOK, NEW order \in Seq(Keys), NEW k, BestOf(order) = {k}
    PROVE  /\ FallbackEligible(failures[k], now)
           /\ \A j \in 1 .. Len(order) :
                FallbackEligible(failures[order[j]], now)
                  /\ failures[order[j]].ewmaLatency > 0
                  => failures[k].ewmaLatency <= failures[order[j]].ewmaLatency
  <1> DEFINE n == Len(order)
             Measured(l) == FallbackEligible(failures[l], now) /\ failures[l].ewmaLatency > 0
             Beats(b, i) == \A j \in 1 .. i : Measured(order[j]) =>
                              failures[b].ewmaLatency <= failures[order[j]].ewmaLatency
  <1>1. PICK g : /\ BestOf(order) = g[n]
                 /\ g[0] = {}
                 /\ \A i \in 1 .. n : g[i] = PickFaster(g[i - 1], order[i])
    BY BestIterates
  <1>2. n \in Nat /\ \A i \in 1 .. n : order[i] \in Keys
    OBVIOUS
  <1>3. \A l \in Keys : FallbackEligible(failures[l], now) => failures[l].ewmaLatency \in Nat
    BY DEF FallbackEligible, TypeOK, Track
  <1> DEFINE P == {i \in 0 .. n :
                     /\ \A b \in g[i] : /\ b \in Keys /\ FallbackEligible(failures[b], now)
                                        /\ Beats(b, i)
                     /\ \A x, y \in g[i] : x = y
                     /\ g[i] = {} => \A j \in 1 .. i : ~FallbackEligible(failures[order[j]], now)}
  <1>4. 0 \in P
    BY <1>1, <1>2
  <1>5. ASSUME NEW i \in 0 .. n - 1, i \in P PROVE i + 1 \in P
    <2> DEFINE e == order[i + 1]
    <2>1. /\ i + 1 \in 1 .. n /\ (i + 1) - 1 = i /\ i + 1 \in 0 .. n
          /\ \A j \in 1 .. i + 1 : j \in 1 .. i \/ j = i + 1
          /\ \A j \in 1 .. i : j \in 1 .. n
      BY <1>2
    <2>2. g[i + 1] = PickFaster(g[i], e) /\ e \in Keys
      BY <1>1, <1>2, <2>1
    <2>3. /\ \A b \in g[i] : /\ b \in Keys /\ FallbackEligible(failures[b], now)
                             /\ Beats(b, i)
          /\ \A x, y \in g[i] : x = y
          /\ g[i] = {} => \A j \in 1 .. i : ~FallbackEligible(failures[order[j]], now)
      BY <1>5
    <2>4. CASE /\ FallbackEligible(failures[e], now)
               /\ \A b \in g[i] : /\ failures[e].ewmaLatency > 0
                                  /\ failures[e].ewmaLatency < failures[b].ewmaLatency
      <3>1. g[i + 1] = {e}
        BY <2>2, <2>4 DEF PickFaster
      <3>2. Beats(e, i + 1)
        <4> SUFFICES ASSUME NEW j \in 1 .. i + 1, Measured(order[j])
                     PROVE  failures[e].ewmaLatency <= failures[order[j]].ewmaLatency
          OBVIOUS
        <4>1. /\ failures[e].ewmaLatency \in Nat
              /\ failures[order[j]].ewmaLatency \in Nat
          BY <1>2, <1>3, <2>1, <2>2, <2>4
        <4>2. CASE j = i + 1
          BY <4>1, <4>2
        <4>3. CASE j \in 1 .. i
          <5>1. PICK b \in g[i] : TRUE
            BY <2>3, <4>3
          <5>2. /\ failures[b].ewmaLatency <= failures[order[j]].ewmaLatency
                /\ failures[e].ewmaLatency < failures[b].ewmaLatency
                /\ failures[b].ewmaLatency \in Nat
            BY <1>3, <2>3, <2>4, <4>3, <5>1
          <5> QED BY <4>1, <5>2
        <4> QED BY <2>1, <4>2, <4>3
      <3> HIDE DEF Beats, e
      <3> QED BY <2>1, <2>2, <2>4, <3>1, <3>2
    <2>5. CASE ~ /\ FallbackEligible(failures[e], now)
                 /\ \A b \in g[i] : /\ failures[e].ewmaLatency > 0
                                    /\ failures[e].ewmaLatency < failures[b].ewmaLatency
      <3>1. g[i + 1] = g[i]
        BY <2>2, <2>5 DEF PickFaster
      <3>2. g[i] = {} => ~FallbackEligible(failures[e], now)
        BY <2>5
      <3>3. ASSUME NEW b \in g[i] PROVE Beats(b, i + 1)
        <4>1. CASE Measured(e)
          <5>1. PICK c \in g[i] : ~(failures[e].ewmaLatency < failures[c].ewmaLatency)
            BY <2>5, <4>1
          <5>2. c = b
            BY <2>3, <5>1
          <5>3. failures[e].ewmaLatency \in Nat /\ failures[b].ewmaLatency \in Nat
            BY <1>3, <2>2, <2>3, <4>1
          <5> QED BY <2>1, <2>3, <5>1, <5>2, <5>3
        <4>2. CASE ~Measured(e)
          BY <2>1, <2>3, <4>2
        <4> QED BY <4>1, <4>2
      <3>4. g[i] = {} => \A j \in 1 .. i + 1 : ~FallbackEligible(failures[order[j]], now)
        BY <2>1, <2>3, <3>2
      <3> HIDE DEF Beats
      <3> QED BY <2>1, <2>3, <3>1, <3>3, <3>4
    <2> QED BY <2>4, <2>5
  <1>6. \A i \in 0 .. n - 1 : i \in P => i + 1 \in P
    BY <1>5
  <1>7. n \in 0 .. n
    BY <1>2
  <1> HIDE DEF P, n
  <1>8. 0 .. n \subseteq P
    BY <1>2, <1>4, <1>6, Induction
  <1>9. FallbackEligible(failures[k], now) /\ Beats(k, n)
    <2>1. k \in g[n]
      BY <1>1
    <2> QED BY <1>7, <1>8, <2>1 DEF P
  <1> QED BY <1>9 DEF n

(* Whatever the order of the map: if one of the models the fallback may       *)
(* return has been measured it returns one, it returns no other, and one that *)
(* has been measured only if none is faster.                                  *)
THEOREM FallbackStaysFastest == ASSUME Horizon PROVE Spec => []FallbackIsFastest
  <1> DEFINE Eligible(k) == FallbackEligible(failures[k], now)
  <1>1. ASSUME NEW order \in SetToSeqs(Keys)
        PROVE  /\ order \in Seq(Keys)
               /\ \A l \in Keys : \E j \in 1 .. Len(order) : order[j] = l
    <2>1. order \in Seq(Keys) /\ Range(order) = Keys
      BY SetToSeqsIs, TrackerAssumption
    <2> QED BY <2>1, RangeIs
  <1>2. ASSUME NEW l \in Keys, Eligible(l) PROVE ~NoFallback
    <2> SUFFICES ASSUME NEW order \in SetToSeqs(Keys) PROVE BestOf(order) # {}
      BY DEF NoFallback
    <2>1. PICK j \in 1 .. Len(order) : order[j] = l
      BY <1>1
    <2> QED BY <1>1, <1>2, <2>1, BestIsFound
  <1>3. ASSUME TypeOK, NEW k \in FallbackChoices
        PROVE  /\ k \in Keys /\ Eligible(k)
               /\ \A l \in Keys : Eligible(l) /\ failures[l].ewmaLatency > 0
                    => failures[k].ewmaLatency <= failures[l].ewmaLatency
    <2>1. k \in Keys
      BY DEF FallbackChoices
    <2>2. PICK order \in SetToSeqs(Keys) : BestOf(order) = {k}
      BY DEF FallbackChoices
    <2>3. /\ FallbackEligible(failures[k], now)
          /\ \A j \in 1 .. Len(order) :
               FallbackEligible(failures[order[j]], now)
                 /\ failures[order[j]].ewmaLatency > 0
                 => failures[k].ewmaLatency <= failures[order[j]].ewmaLatency
      BY <1>1, <1>3, <2>2, BestIsFast
    <2> QED BY <1>1, <2>1, <2>3
  <1>4. TypeOK => FallbackIsFastest
    <2> HIDE DEF Eligible
    <2> SUFFICES ASSUME TypeOK PROVE FallbackIsFastest
      OBVIOUS
    <2> QED BY <1>2, <1>3 DEF FallbackIsFastest, Eligible
  <1> QED BY <1>4, TypeCorrect, PTL
=============================================================================
