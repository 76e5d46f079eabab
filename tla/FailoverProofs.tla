--------------------------- MODULE FailoverProofs ---------------------------
(* Proofs about Failover: what requests do to the circuit breaker is what     *)
(* FailureTracker allows, so that the theorems about the breaker hold below   *)
(* every request; and one model at most writes to a client.                   *)
EXTENDS Failover, Selection, FailureTrackerProofs, SequenceProofs

-----------------------------------------------------------------------------
(* The inductive invariant of the requests: their types, a model called where *)
(* one has to answer or has answered, and OneWriter.                          *)
RequestsTyped ==
    /\ req \in [Requests -> RequestState]
    /\ lastModel \in Keys \cup {NoModel}

HasCalled ==
    \A r \in Requests :
        req[r].pc \in {"upstream", "failed", "succeeded"} => req[r].calls # << >>

RInv == RequestsTyped /\ HasCalled /\ OneWriter

(* The last model called is a model. *)
LEMMA LastIsElement ==
    ASSUME NEW S, NEW s \in Seq(S), s # << >>
    PROVE  Last(s) \in S
  BY DEF Last

(* A model appended to the calls is the last one. *)
LEMMA LastOfAppend ==
    ASSUME NEW S, NEW s \in Seq(S), NEW e \in S
    PROVE  /\ Append(s, e) \in Seq(S)
           /\ Append(s, e) # << >>
           /\ Last(Append(s, e)) = e
  BY DEF Last

(* The model a request is talking to is a key of the map. *)
LEMMA CurrentIsKey ==
    ASSUME RInv, NEW r \in Requests,
           req[r].pc \in {"upstream", "failed", "succeeded"}
    PROVE  Current(r) \in Keys
  <1>1. req[r].calls \in Seq(Keys) /\ req[r].calls # << >>
    BY DEF RInv, RequestsTyped, HasCalled, RequestState
  <1> QED BY <1>1, LastIsElement DEF Current

(* No request has begun. *)
LEMMA InitRInv == FailoverInit => RInv
  <1> SUFFICES ASSUME FailoverInit PROVE RInv
    OBVIOUS
  <1>1. PICK asked \in [Requests -> Asks] :
          req = [r \in Requests |->
                  [pc |-> "idle", kind |-> asked[r].kind, cfg |-> asked[r].cfg,
                   retries |-> asked[r].retries,
                   cands |-> << >>,
                   attempts |-> 0, skipped |-> FALSE, last |-> FALSE,
                   canceled |-> FALSE, result |-> "none",
                   calls |-> << >>, wrote |-> {}, unfit |-> {}]]
    BY DEF FailoverInit
  <1>2. RequestsTyped
    BY <1>1, FailoverAssumption
       DEF FailoverInit, RequestsTyped, RequestState, PCs, Results, Kinds, Configs
  <1>3. HasCalled /\ OneWriter
    BY <1>1 DEF HasCalled, OneWriter
  <1> QED BY <1>2, <1>3 DEF RInv

(* The state of one request changes to one that satisfies the invariant.      *)
LEMMA PutRequest ==
    ASSUME RInv, NEW r \in Requests, NEW s \in RequestState,
           req' = [req EXCEPT ![r] = s],
           lastModel' \in Keys \cup {NoModel},
           s.pc \in {"upstream", "failed", "succeeded"} => s.calls # << >>,
           s.wrote # {} => /\ s.wrote = {Last(s.calls)}
                           /\ s.pc \in {"failed", "succeeded", "done"},
           s.pc = "failed" /\ s.wrote # {} => s.last
    PROVE  RInv'
  <1>1. /\ req'[r] = s
        /\ \A q \in Requests \ {r} : req'[q] = req[q]
    BY DEF RInv, RequestsTyped
  <1>2. RequestsTyped'
    BY DEF RInv, RequestsTyped
  <1>3. HasCalled'
    BY <1>1 DEF RInv, HasCalled
  <1>4. OneWriter'
    BY <1>1 DEF RInv, OneWriter, Current
  <1> QED BY <1>2, <1>3, <1>4 DEF RInv

(* A request that returns keeps what it has written. *)
LEMMA ReturnStep ==
    ASSUME RInv, NEW r \in Requests, NEW result \in Results,
           Return(r, result), lastModel' \in Keys \cup {NoModel}
    PROVE  RInv'
  <1> DEFINE s == [req[r] EXCEPT !.pc = "done", !.result = result]
  <1>1. req[r] \in RequestState /\ req' = [req EXCEPT ![r] = s]
    BY DEF RInv, RequestsTyped, Return
  <1>2. /\ s \in RequestState
        /\ s.pc = "done" /\ s.calls = req[r].calls /\ s.wrote = req[r].wrote
    BY <1>1 DEF RequestState, PCs
  <1>3. s.wrote # {} => s.wrote = {Last(s.calls)}
    BY <1>2 DEF RInv, OneWriter, Current
  <1> QED BY <1>1, <1>2, <1>3, PutRequest

(* A request that calls a model has written nothing before, and writes        *)
(* nothing by the call.                                                       *)
LEMMA CallStep ==
    ASSUME RInv, NEW r \in Requests, req[r].pc \in {"loop", "fallback"},
           NEW k \in Keys, NEW cands \in Seq(Keys), NEW n \in Nat, NEW b \in BOOLEAN,
           req' = [req EXCEPT ![r] = [Call(r, k) EXCEPT !.cands = cands,
                                        !.attempts = n, !.last = b]],
           UNCHANGED lastModel
    PROVE  RInv'
  <1> DEFINE s == [Call(r, k) EXCEPT !.cands = cands, !.attempts = n, !.last = b]
  <1>1. req[r] \in RequestState /\ req[r].wrote = {}
    BY DEF RInv, RequestsTyped, OneWriter
  <1>2. req[r].calls \in Seq(Keys)
    BY <1>1 DEF RequestState
  <1>3. /\ Append(req[r].calls, k) \in Seq(Keys)
        /\ Append(req[r].calls, k) # << >>
    BY <1>2, LastOfAppend
  <1>4. s \in RequestState
    BY <1>1, <1>3 DEF Call, RequestState, PCs
  <1>5. s.pc = "upstream" /\ s.calls # << >> /\ s.wrote = {}
    BY <1>1, <1>3 DEF Call, RequestState
  <1> QED BY <1>4, <1>5, PutRequest DEF RInv, RequestsTyped

(* A request that is in its loop before or after the step, and writes nothing.*)
LEMMA LoopStep ==
    ASSUME RInv, NEW r \in Requests, req[r].wrote = {},
           NEW s \in RequestState, s.pc \in {"loop", "fallback"}, s.wrote = {},
           req' = [req EXCEPT ![r] = s], UNCHANGED lastModel
    PROVE  RInv'
  BY PutRequest DEF RInv, RequestsTyped

(* The steps of a request before it has called the model: none of them        *)
(* touches the breaker.                                                       *)
LEMMA ChooseStep ==
    ASSUME RInv, NEW r \in Requests,
           Start(r) \/ CanceledInLoop(r) \/ SkipCandidate(r) \/ TryCandidate(r)
             \/ LeaveLoop(r) \/ TryFallback(r) \/ CanceledUpstream(r)
    PROVE  RInv' /\ UNCHANGED vars
  <1> USE DEF Results
  <1>1. req[r] \in RequestState
    BY DEF RInv, RequestsTyped
  <1>2. lastModel \in Keys \cup {NoModel}
    BY DEF RInv, RequestsTyped
  <1>3. req[r].pc \in {"idle", "loop", "upstream", "fallback"} => req[r].wrote = {}
    BY DEF RInv, OneWriter
  <1>4. CASE Start(r)
    <2>1. PICK cands \in Seq(Keys) :
            IF cands = << >>
            THEN Return(r, "failed")
            ELSE req' = [req EXCEPT
                   ![r].pc = "loop", ![r].cands = cands,
                   ![r].unfit = {k \in Keys : GetModelStatus(k) = "BlockedFatal"}]
      BY <1>4 DEF Start
    <2>2. UNCHANGED <<vars, lastModel>> /\ req[r].pc = "idle"
      BY <1>4 DEF Start
    <2>3. CASE cands = << >>
      BY <1>2, <2>1, <2>2, <2>3, ReturnStep
    <2>4. CASE cands # << >>
      <3> DEFINE u == {k \in Keys : GetModelStatus(k) = "BlockedFatal"}
                 s == [req[r] EXCEPT !.pc = "loop", !.cands = cands, !.unfit = u]
      <3>1. u \in SUBSET Keys
        OBVIOUS
      <3>2. req' = [req EXCEPT ![r] = s]
        BY <2>1, <2>4 DEF RInv, RequestsTyped
      <3>3. s \in RequestState /\ s.pc = "loop" /\ s.wrote = req[r].wrote
        <4> HIDE DEF u
        <4> QED BY <1>1, <3>1 DEF RequestState, PCs
      <3> HIDE DEF s
      <3> QED BY <1>3, <2>2, <3>2, <3>3, LoopStep
    <2> QED BY <2>3, <2>4
  <1>5. CASE CanceledInLoop(r)
    BY <1>2, <1>5, ReturnStep DEF CanceledInLoop
  <1>6. CASE CanceledUpstream(r)
    BY <1>2, <1>6, ReturnStep DEF CanceledUpstream
  <1>7. CASE SkipCandidate(r)
    <2> DEFINE s == [req[r] EXCEPT !.cands = Tail(@), !.skipped = TRUE,
                                   !.unfit = @ \cup {Head(req[r].cands)}]
    <2>1. req[r].cands \in Seq(Keys) /\ req[r].cands # << >>
      BY <1>1, <1>7 DEF SkipCandidate, RequestState
    <2>2. Head(req[r].cands) \in Keys /\ Tail(req[r].cands) \in Seq(Keys)
      BY <2>1
    <2>3. req' = [req EXCEPT ![r] = s]
      BY <1>7 DEF SkipCandidate, RInv, RequestsTyped
    <2>4. s \in RequestState /\ s.pc = req[r].pc /\ s.wrote = req[r].wrote
      BY <1>1, <2>2 DEF RequestState
    <2>5. req[r].pc = "loop" /\ UNCHANGED <<vars, lastModel>>
      BY <1>7 DEF SkipCandidate
    <2> HIDE DEF s
    <2> QED BY <1>3, <2>3, <2>4, <2>5, LoopStep
  <1>8. CASE TryCandidate(r)
    <2>1. req[r].cands \in Seq(Keys) /\ req[r].cands # << >>
      BY <1>1, <1>8 DEF TryCandidate, RequestState
    <2>2. Head(req[r].cands) \in Keys /\ Tail(req[r].cands) \in Seq(Keys)
      BY <2>1
    <2>3. req[r].attempts \in Nat /\ req[r].last \in BOOLEAN
      BY <1>1 DEF RequestState
    <2>4. [Call(r, Head(req[r].cands)) EXCEPT !.cands = Tail(@), !.attempts = @ + 1]
          = [Call(r, Head(req[r].cands)) EXCEPT !.cands = Tail(req[r].cands),
                !.attempts = req[r].attempts + 1, !.last = req[r].last]
      BY <1>1 DEF Call, RequestState
    <2>5. req[r].attempts + 1 \in Nat
      BY <2>3
    <2>6. req[r].pc = "loop" /\ UNCHANGED <<vars, lastModel>>
      BY <1>8 DEF TryCandidate
    <2>7. req' = [req EXCEPT ![r] =
                    [Call(r, Head(req[r].cands)) EXCEPT !.cands = Tail(req[r].cands),
                      !.attempts = req[r].attempts + 1, !.last = req[r].last]]
      BY <1>8, <2>4 DEF TryCandidate
    <2> QED BY <2>2, <2>3, <2>5, <2>6, <2>7, CallStep
  <1>9. CASE LeaveLoop(r)
    <2>1. req[r].pc = "loop" /\ UNCHANGED <<vars, lastModel>>
      BY <1>9 DEF LeaveLoop
    <2>2. CASE Return(r, "failed")
      BY <1>2, <2>1, <2>2, ReturnStep
    <2>3. CASE req' = [req EXCEPT ![r].pc = "fallback"]
      <3> DEFINE s == [req[r] EXCEPT !.pc = "fallback"]
      <3>1. req' = [req EXCEPT ![r] = s]
        BY <2>3 DEF RInv, RequestsTyped
      <3>2. s \in RequestState /\ s.pc = "fallback" /\ s.wrote = req[r].wrote
        BY <1>1 DEF RequestState, PCs
      <3> HIDE DEF s
      <3> QED BY <1>3, <2>1, <3>1, <3>2, LoopStep
    <2> QED BY <1>9, <2>2, <2>3 DEF LeaveLoop
  <1>10. CASE TryFallback(r)
    <2>1. req[r].pc = "fallback" /\ UNCHANGED <<vars, lastModel>>
      BY <1>10 DEF TryFallback
    <2>2. CASE Return(r, "failed")
      BY <1>2, <2>1, <2>2, ReturnStep
    <2>3. ASSUME NEW k \in FallbackChoices,
                 req' = [req EXCEPT ![r] = [Call(r, k) EXCEPT !.last = TRUE]]
          PROVE  RInv' /\ UNCHANGED vars
      <3>1. k \in Keys
        BY DEF FallbackChoices
      <3>2. req[r].cands \in Seq(Keys) /\ req[r].attempts \in Nat
        BY <1>1 DEF RequestState
      <3>3. [Call(r, k) EXCEPT !.last = TRUE]
            = [Call(r, k) EXCEPT !.cands = req[r].cands,
                 !.attempts = req[r].attempts, !.last = TRUE]
        BY <1>1 DEF Call, RequestState
      <3>4. req' = [req EXCEPT ![r] = [Call(r, k) EXCEPT !.cands = req[r].cands,
                      !.attempts = req[r].attempts, !.last = TRUE]]
        BY <2>3, <3>3
      <3> QED BY <2>1, <3>1, <3>2, <3>4, CallStep
    <2> QED BY <1>10, <2>2, <2>3 DEF TryFallback
  <1> QED BY <1>4, <1>5, <1>6, <1>7, <1>8, <1>9, <1>10

(* Every answer of an upstream keeps the invariant, and records its outcome   *)
(* in the breaker through one of the two recorders or not at all.             *)
LEMMA AnswerStep ==
    ASSUME RInv, NEW r \in Requests, Answer(r)
    PROVE  RInv' /\ [Next]_vars
  <1> USE DEF Results
  <1>1. req[r] \in RequestState /\ lastModel \in Keys \cup {NoModel}
    BY DEF RInv, RequestsTyped
  <1>2. req[r].pc = "upstream"
    BY DEF Answer, UpstreamAnswers, UpstreamIsEmpty, UpstreamFails, StreamBreaks,
           ClientWriteFails, Listening
  <1>3. req[r].wrote = {} /\ req[r].calls # << >>
    BY <1>2 DEF RInv, OneWriter, HasCalled
  <1>4. Current(r) \in Keys /\ Current(r) = Last(req[r].calls)
    BY <1>2, CurrentIsKey DEF Current
  <1>5. r \in Callers /\ 200 \in Codes
    BY FailoverAssumption
  <1>6. ASSUME NEW pc \in {"failed", "succeeded", "done"}, NEW last \in BOOLEAN,
               NEW result \in Results,
               NEW wrote \in SUBSET {Current(r)}, pc = "failed" /\ wrote # {} => last,
               req' = [req EXCEPT ![r] = [req[r] EXCEPT !.pc = pc, !.last = last,
                                            !.result = result, !.wrote = wrote]],
               UNCHANGED lastModel
        PROVE  RInv'
    <2> DEFINE s == [req[r] EXCEPT !.pc = pc, !.last = last, !.result = result,
                                   !.wrote = wrote]
    <2>1. /\ s \in RequestState
          /\ s.pc = pc /\ s.last = last /\ s.wrote = wrote /\ s.calls = req[r].calls
      BY <1>1, <1>4 DEF RequestState, PCs
    <2>2. s.wrote # {} => s.wrote = {Last(s.calls)}
      BY <1>4, <2>1
    <2>3. req' = [req EXCEPT ![r] = s]
      BY <1>6
    <2>4. s.pc = "failed" /\ s.wrote # {} => s.last
      BY <1>6, <2>1
    <2> HIDE DEF s
    <2> QED BY <1>1, <1>3, <1>6, <2>1, <2>2, <2>3, <2>4, PutRequest
  <1>7. ASSUME NEW latency \in Latencies, UpstreamAnswers(r, latency)
        PROVE  RInv' /\ [Next]_vars
    <2>1. Next
      BY <1>4, <1>5, <1>7 DEF UpstreamAnswers, Next, CallerStep
    <2>2. req' = [req EXCEPT ![r] = [req[r] EXCEPT !.pc = "succeeded",
                    !.last = req[r].last, !.result = req[r].result,
                    !.wrote = {Current(r)}]]
      BY <1>1, <1>3, <1>7 DEF UpstreamAnswers, RInv, RequestsTyped, RequestState
    <2>3. req[r].last \in BOOLEAN /\ req[r].result \in Results
      BY <1>1 DEF RequestState
    <2> QED BY <1>6, <1>7, <2>1, <2>2, <2>3 DEF UpstreamAnswers
  <1>8. CASE UpstreamIsEmpty(r)
    <2>1. UNCHANGED <<vars, lastModel>>
      BY <1>8 DEF UpstreamIsEmpty
    <2>2. CASE Return(r, "failed")
      BY <1>1, <2>1, <2>2, ReturnStep
    <2>3. CASE req' = [req EXCEPT ![r].pc = "loop"]
      <3> DEFINE s == [req[r] EXCEPT !.pc = "loop"]
      <3>1. req' = [req EXCEPT ![r] = s]
        BY <2>3 DEF RInv, RequestsTyped
      <3>2. s \in RequestState /\ s.pc = "loop" /\ s.wrote = req[r].wrote
        BY <1>1 DEF RequestState, PCs
      <3> HIDE DEF s
      <3> QED BY <1>3, <2>1, <3>1, <3>2, LoopStep
    <2> QED BY <1>8, <2>2, <2>3 DEF UpstreamIsEmpty
  <1>9. ASSUME NEW code \in Codes, UpstreamFails(r, code)
        PROVE  RInv' /\ [Next]_vars
    <2>1. Next
      BY <1>4, <1>5, <1>9 DEF UpstreamFails, Next, CallerStep
    <2> DEFINE last == req[r].last \/ req[r].kind.probe
    <2>2. last \in BOOLEAN
      OBVIOUS
    <2>3. req' = [req EXCEPT ![r].pc = "failed", ![r].last = last]
      BY <1>9 DEF UpstreamFails
    <2>4. UNCHANGED lastModel
      BY <1>9 DEF UpstreamFails
    <2> HIDE DEF last
    <2>5. req' = [req EXCEPT ![r] = [req[r] EXCEPT !.pc = "failed", !.last = last,
                    !.result = req[r].result, !.wrote = {}]]
      BY <1>1, <1>3, <2>2, <2>3 DEF RInv, RequestsTyped, RequestState
    <2>6. req[r].result \in Results /\ {} \in SUBSET {Current(r)}
      BY <1>1 DEF RequestState
    <2>7. RInv'
      BY <1>6, <2>2, <2>4, <2>5, <2>6
    <2> QED BY <2>1, <2>7
  <1>10. CASE StreamBreaks(r)
    <2>1. Next
      BY <1>4, <1>5, <1>10 DEF StreamBreaks, Next, CallerStep
    <2>2. req' = [req EXCEPT ![r] = [req[r] EXCEPT !.pc = "failed", !.last = TRUE,
                    !.result = req[r].result, !.wrote = {Current(r)}]]
      BY <1>1, <1>3, <1>10 DEF StreamBreaks, RInv, RequestsTyped, RequestState
    <2>3. req[r].result \in Results
      BY <1>1 DEF RequestState
    <2> QED BY <1>6, <1>10, <2>1, <2>2, <2>3 DEF StreamBreaks
  <1>11. CASE ClientWriteFails(r)
    <2>1. req' = [req EXCEPT ![r] = [req[r] EXCEPT !.pc = "done", !.last = req[r].last,
                    !.result = "clientWrite", !.wrote = {Current(r)}]]
      BY <1>1, <1>3, <1>11 DEF ClientWriteFails, RInv, RequestsTyped, RequestState
    <2>2. req[r].last \in BOOLEAN
      BY <1>1 DEF RequestState
    <2> QED BY <1>6, <1>11, <2>1, <2>2 DEF ClientWriteFails
  <1> QED BY <1>7, <1>8, <1>9, <1>10, <1>11 DEF Answer

(* The steps behind an answer, and the disconnection of a client: none of     *)
(* them touches the breaker.                                                  *)
LEMMA AfterStep ==
    ASSUME RInv, NEW r \in Requests,
           AfterFailure(r) \/ AfterSuccess(r) \/ ClientCancel(r)
    PROVE  RInv' /\ UNCHANGED vars
  <1> USE DEF Results
  <1>1. req[r] \in RequestState /\ lastModel \in Keys \cup {NoModel}
    BY DEF RInv, RequestsTyped
  <1>2. CASE AfterSuccess(r)
    <2>1. lastModel' \in Keys \cup {NoModel}
      BY <1>1, <1>2, CurrentIsKey DEF AfterSuccess
    <2> QED BY <1>2, <2>1, ReturnStep DEF AfterSuccess
  <1>3. CASE AfterFailure(r)
    <2>1. UNCHANGED <<vars, lastModel>> /\ req[r].pc = "failed"
      BY <1>3 DEF AfterFailure
    <2>2. CASE req[r].last
      BY <1>1, <1>3, <2>1, <2>2, ReturnStep DEF AfterFailure
    <2>3. CASE ~req[r].last
      <3> DEFINE s == [req[r] EXCEPT !.pc = "loop"]
      <3>1. req' = [req EXCEPT ![r] = s]
        BY <1>3, <2>3 DEF AfterFailure, RInv, RequestsTyped
      <3>2. s \in RequestState /\ s.pc = "loop" /\ s.wrote = req[r].wrote
        BY <1>1 DEF RequestState, PCs
      <3>3. req[r].wrote = {}
        BY <2>1, <2>3 DEF RInv, OneWriter
      <3> HIDE DEF s
      <3> QED BY <2>1, <3>1, <3>2, <3>3, LoopStep
    <2> QED BY <2>2, <2>3
  <1>4. CASE ClientCancel(r)
    <2> DEFINE s == [req[r] EXCEPT !.canceled = TRUE]
    <2>1. req' = [req EXCEPT ![r] = s] /\ UNCHANGED <<vars, lastModel>>
      BY <1>4 DEF ClientCancel, RInv, RequestsTyped
    <2>2. /\ s \in RequestState
          /\ s.pc = req[r].pc /\ s.last = req[r].last
          /\ s.wrote = req[r].wrote /\ s.calls = req[r].calls
      BY <1>1 DEF RequestState
    <2>3. /\ s.pc \in {"upstream", "failed", "succeeded"} => s.calls # << >>
          /\ s.wrote # {} => /\ s.wrote = {Last(s.calls)}
                              /\ s.pc \in {"failed", "succeeded", "done"}
          /\ s.pc = "failed" /\ s.wrote # {} => s.last
      <3> HIDE DEF s
      <3> QED BY <2>2 DEF RInv, HasCalled, OneWriter, Current
    <2> HIDE DEF s
    <2> QED BY <1>1, <2>1, <2>2, <2>3, PutRequest
  <1> QED BY <1>2, <1>3, <1>4

(* The steps that leave every request alone. *)
LEMMA RequestsAlone ==
    ASSUME RInv, UNCHANGED req, lastModel' \in Keys \cup {NoModel}
    PROVE  RInv'
  BY DEF RInv, RequestsTyped, HasCalled, OneWriter, Current

(* What the recorders go on to do and what the rest of the traffic does are   *)
(* steps of the tracker.                                                      *)
LEMMA OtherStep ==
    ASSUME Others PROVE Next
  <1>1. ASSUME NEW c \in Background, Record(c) PROVE Next
    <2>1. c \in Callers
      BY FailoverAssumption
    <2> QED BY <1>1, <2>1 DEF Record, Recorder, Next, CallerStep
  <1> QED BY <1>1 DEF Others, Next

(* Every step keeps the invariant of the requests and is a step of the        *)
(* tracker or none.                                                           *)
LEMMA NextRInv == RInv /\ [FailoverNext]_allVars => RInv' /\ [Next]_vars
  <1> SUFFICES ASSUME RInv, [FailoverNext]_allVars PROVE RInv' /\ [Next]_vars
    OBVIOUS
  <1>1. lastModel \in Keys \cup {NoModel}
    BY DEF RInv, RequestsTyped
  <1>2. ASSUME NEW r \in Requests, Advance(r) PROVE RInv' /\ [Next]_vars
    <2>1. ASSUME Recorder(r), UNCHANGED <<req, lastModel>>
          PROVE  RInv' /\ [Next]_vars
      <3>1. r \in Callers
        BY FailoverAssumption
      <3> QED BY <1>1, <2>1, <3>1, RequestsAlone DEF Recorder, Next, CallerStep
    <2> QED BY <1>2, <2>1, ChooseStep, AfterStep DEF Advance
  <1>3. ASSUME NEW r \in Requests, ClientCancel(r) PROVE RInv' /\ [Next]_vars
    BY <1>3, AfterStep
  <1>4. CASE ClearLastSuccessfulModel
    BY <1>4, RequestsAlone DEF ClearLastSuccessfulModel
  <1>5. CASE Others
    BY <1>1, <1>5, OtherStep, RequestsAlone DEF Others
  <1>6. CASE UNCHANGED allVars
    BY <1>1, <1>6, RequestsAlone DEF allVars
  <1> QED BY <1>2, <1>3, <1>4, <1>5, <1>6, AnswerStep DEF FailoverNext

-----------------------------------------------------------------------------
(* The theorems. *)

(* The inductive invariant of the requests holds in every state, for any      *)
(* configuration, any number of requests and any other traffic.               *)
THEOREM RequestsInvariance == FailoverSpec => []RInv
  <1>1. RInv /\ [FailoverNext]_allVars => RInv'
    BY NextRInv
  <1> QED BY <1>1, InitRInv, PTL DEF FailoverSpec

(* Proxy, Stream and the fallbacks implement the breaker's specification:     *)
(* whatever a request does to it is a critical section of FailureTracker.     *)
THEOREM RequestsImplementTracker == FailoverSpec => TrackerSpec
  <1>1. FailoverInit => Init
    BY DEF FailoverInit
  <1>2. RInv /\ [FailoverNext]_allVars => [Next]_vars
    BY NextRInv
  <1> QED BY <1>1, <1>2, RequestsInvariance, PTL DEF FailoverSpec, TrackerSpec, Spec

(* One model at most writes to the client of a request, the last one called,  *)
(* and none is called after it has.                                           *)
THEOREM OneModelWrites == FailoverSpec => []OneWriter
  <1>1. RInv => OneWriter
    BY DEF RInv
  <1> QED BY <1>1, RequestsInvariance, PTL

(* What is proved of the breaker (failures.go) holds below every request: its *)
(* tracks stay consistent, its views agree, a pointer held across the         *)
(* callback stays in the map, a failure unblocks nothing and the fallback     *)
(* finds the fastest of the models that have been measured.                   *)
COROLLARY BreakerHoldsBelow ==
    ASSUME Horizon
    PROVE  FailoverSpec => /\ []TrackConsistent /\ []ViewsAgree /\ []AttachedIsInMap
                           /\ []FallbackIsFastest /\ StaysBlocked
  BY RequestsImplementTracker, TracksStayConsistent, ViewsStayInAgreement,
     PointersStayInMap, FallbackStaysFastest, BlockedModelsStayBlocked, PTL DEF TrackerSpec

(* Types, of the requests and of the breaker below them.                      *)
THEOREM FailoverTypeCorrect ==
    ASSUME Horizon PROVE FailoverSpec => []FailoverTypeOK
  <1>1. RInv /\ TypeOK => FailoverTypeOK
    BY DEF RInv, RequestsTyped, FailoverTypeOK
  <1>2. FailoverSpec => []TypeOK
    BY RequestsImplementTracker, TypeCorrect, PTL DEF TrackerSpec
  <1> QED BY <1>1, <1>2, RequestsInvariance, PTL

-----------------------------------------------------------------------------
(* What sort.Slice makes of a sequence: the same elements, none repeated, of  *)
(* rising rank.                                                               *)
LEMMA SortedByOrder ==
    ASSUME NEW S, NEW s \in Seq(S), NEW rank, NEW t \in SortedBy(s, rank)
    PROVE  /\ t \in Seq(S) /\ Range(t) = Range(s) /\ Distinct(t)
           /\ \A x, y : Before(t, x, y) => rank[x] <= rank[y]
  <1>1. t \in SetToSeqs(Range(s))
    BY DEF SortedBy
  <1>2. \A i, j \in DOMAIN t : i < j => rank[t[i]] <= rank[t[j]]
    BY DEF SortedBy
  <1>3. ASSUME NEW x, NEW y, Before(t, x, y) PROVE rank[x] <= rank[y]
    BY <1>2, <1>3 DEF Before
  <1> QED BY <1>1, <1>3, SetToSeqsOrder

(* The providers are the enabled ones, by priority. *)
LEMMA ProvidersOrder ==
    ASSUME NEW cfg, IsConfig(cfg), NEW ps \in SortedProviders(cfg)
    PROVE  /\ ps \in Seq(Range(cfg)) /\ Range(ps) = Enabled(cfg) /\ Distinct(ps)
           /\ \A p, q \in Range(cfg) : Before(ps, p, q) => p.priority <= q.priority
  <1> DEFINE R == Range(cfg)
             s == Only(cfg, Enabled(cfg))
             rank == [provider \in R |-> provider.priority]
  <1>1. cfg \in Seq(R)
    BY DEF IsConfig
  <1>2. s \in Seq(R) /\ Range(s) = Range(cfg) \cap Enabled(cfg)
    BY <1>1, OnlyOrder
  <1>3. ps \in SortedBy(s, rank)
    BY DEF SortedProviders
  <1>4. Range(s) = Enabled(cfg)
    BY <1>2 DEF Enabled
  <1>5. \A p \in Range(cfg) : rank[p] = p.priority
    OBVIOUS
  <1> HIDE DEF s, rank
  <1>6. /\ ps \in Seq(R) /\ Range(ps) = Range(s) /\ Distinct(ps)
        /\ \A x, y : Before(ps, x, y) => rank[x] <= rank[y]
    BY <1>2, <1>3, SortedByOrder
  <1> QED BY <1>4, <1>5, <1>6

(* FindMaxModels is no less than the number of models of each provider. *)
LEMMA MaxModels ==
    ASSUME NEW S, NEW ps \in Seq(S), \A p \in S : p.models \in Seq(Range(p.models))
    PROVE  /\ FindMaxModels(ps) \in Nat
           /\ \A p \in Range(ps) : Len(p.models) <= FindMaxModels(ps)
  <1> DEFINE s == [i \in 1 .. Len(ps) |-> Len(ps[i].models)]
  <1>1. \A i \in 1 .. Len(ps) : ps[i] \in S /\ Len(ps[i].models) \in Nat
    OBVIOUS
  <1>2. s \in Seq(Nat) /\ Len(s) = Len(ps) /\ \A i \in 1 .. Len(ps) : s[i] = Len(ps[i].models)
    BY <1>1
  <1>3. DOMAIN s = 1 .. Len(ps)
    OBVIOUS
  <1>4. DOMAIN ps = 1 .. Len(ps)
    OBVIOUS
  <1> HIDE DEF s
  <1>5. Range(s) = {Len(p.models) : p \in Range(ps)}
    BY <1>2, <1>3, <1>4 DEF Range
  <1>6. FindMaxModels(ps) = Max({0} \cup Range(s))
    BY <1>5 DEF FindMaxModels
  <1>7. /\ Max({0} \cup Range(s)) \in Nat
        /\ \A i \in 1 .. Len(s) : s[i] <= Max({0} \cup Range(s))
    BY <1>2, MaxOfSeq
  <1>8. ASSUME NEW p \in Range(ps) PROVE Len(p.models) <= FindMaxModels(ps)
    <2>1. PICK i \in 1 .. Len(ps) : ps[i] = p
      BY <1>4 DEF Range
    <2> QED BY <1>2, <1>6, <1>7, <2>1
  <1> QED BY <1>6, <1>7, <1>8

(* A provider and a model stand at one place of the configuration. *)
LEMMA OnePlace ==
    ASSUME NEW cfg, NamesAreDistinct(cfg),
           NEW p \in Range(cfg), NEW q \in Range(cfg),
           NEW i \in DOMAIN p.models, NEW j \in DOMAIN q.models,
           <<p.name, p.models[i]>> = <<q.name, q.models[j]>>
    PROVE  p = q /\ i = j
  <1>1. p.name = q.name /\ p.models[i] = q.models[j]
    OBVIOUS
  <1>2. p = q
    BY <1>1 DEF NamesAreDistinct, Range
  <1>3. i = j
    BY <1>1, <1>2 DEF NamesAreDistinct
  <1> QED BY <1>2, <1>3

(* A round: one model of each provider that has so many, by priority. *)
LEMMA RoundOrder ==
    ASSUME NEW S, NEW ps \in Seq(S), Distinct(ps), NEW K, NEW i \in Nat,
           \A p \in Range(ps) : /\ p.models \in Seq(Range(p.models))
                                /\ i \in 1 .. Len(p.models) => <<p.name, p.models[i]>> \in K,
           i > 0
    PROVE  /\ Round(ps, i) \in Seq(K)
           /\ \E h : /\ Len(h) = Len(Round(ps, i)) /\ Distinct(h) /\ h \in Seq(S)
                     /\ Range(h) = {p \in Range(ps) : i <= Len(p.models)}
                     /\ \A x, y : Before(h, x, y) => Before(ps, x, y)
                     /\ \A n \in 1 .. Len(h) :
                          Round(ps, i)[n] = <<h[n].name, h[n].models[i]>>
  <1> DEFINE T == {p \in Range(ps) : i <= Len(p.models)}
             h == Only(ps, T)
             r == [n \in DOMAIN h |-> <<h[n].name, h[n].models[i]>>]
  <1>1. Round(ps, i) = r
    BY DEF Round
  <1>2. /\ h \in Seq(S) /\ Range(h) = Range(ps) \cap T /\ Distinct(h)
        /\ \A x, y : Before(h, x, y) => Before(ps, x, y)
    BY OnlyOrder
  <1>3. Range(h) = T
    BY <1>2
  <1> HIDE DEF h
  <1>4. DOMAIN h = 1 .. Len(h) /\ Len(h) \in Nat
    BY <1>2
  <1>5. ASSUME NEW n \in 1 .. Len(h)
        PROVE  r[n] = <<h[n].name, h[n].models[i]>> /\ r[n] \in K
    <2>1. h[n] \in Range(ps) /\ i <= Len(h[n].models)
      BY <1>3, <1>4 DEF Range
    <2>2. Len(h[n].models) \in Nat
      BY <2>1
    <2> QED BY <1>4, <2>1, <2>2
  <1>6. r \in [1 .. Len(h) -> K]
    BY <1>4, <1>5
  <1>7. r \in Seq(K) /\ Len(r) = Len(h)
    BY <1>4, <1>6
  <1> HIDE DEF r, T
  <1> QED BY <1>1, <1>2, <1>3, <1>5, <1>7 DEF T

(* The round robin has every enabled model once, in turn. *)
LEMMA RoundRobinOrder ==
    ASSUME NEW cfg, IsConfig(cfg), NamesAreDistinct(cfg), NEW ps \in SortedProviders(cfg)
    PROVE  /\ RoundRobin(ps) \in Seq(Pairs(cfg))
           /\ Range(RoundRobin(ps)) = EnabledPairs(cfg)
           /\ Distinct(RoundRobin(ps))
           /\ \A k, l : TurnIsBefore(cfg, k, l) => ~Before(RoundRobin(ps), l, k)
  <1> DEFINE R == Range(cfg)
             K == Pairs(cfg)
             n == FindMaxModels(ps)
             ss == [i \in 1 .. n |-> Round(ps, i)]
             all == FlattenSeq(ss)
  <1>1. /\ ps \in Seq(R) /\ Range(ps) = Enabled(cfg) /\ Distinct(ps)
        /\ \A p, q \in R : Before(ps, p, q) => p.priority <= q.priority
    BY ProvidersOrder
  <1>2. /\ \A p \in R : p.models \in Seq(Range(p.models)) /\ p.priority \in Int
        /\ Enabled(cfg) \subseteq R
    BY DEF IsConfig, Enabled
  <1>3. n \in Nat /\ \A p \in Enabled(cfg) : Len(p.models) <= n
    BY <1>1, <1>2, MaxModels
  <1>4. ASSUME NEW p \in R, NEW i \in 1 .. Len(p.models)
        PROVE  i \in DOMAIN p.models /\ <<p.name, p.models[i]>> \in K
    <2>1. i \in DOMAIN p.models
      BY <1>2
    <2> QED BY <2>1 DEF Pairs, PairsOf, Range
  <1>5. ASSUME NEW i \in 1 .. n
        PROVE  /\ Round(ps, i) \in Seq(K)
               /\ \E h : /\ Len(h) = Len(Round(ps, i)) /\ Distinct(h) /\ h \in Seq(R)
                         /\ Range(h) = {p \in Enabled(cfg) : i <= Len(p.models)}
                         /\ \A x, y : Before(h, x, y) => Before(ps, x, y)
                         /\ \A m \in 1 .. Len(h) :
                              Round(ps, i)[m] = <<h[m].name, h[m].models[i]>>
    <2>1. i \in Nat /\ i > 0
      BY <1>3
    <2>2. \A p \in Range(ps) : /\ p.models \in Seq(Range(p.models))
                               /\ i \in 1 .. Len(p.models) => <<p.name, p.models[i]>> \in K
      BY <1>1, <1>2, <1>4
    <2> HIDE DEF R, K
    <2>3. /\ Round(ps, i) \in Seq(K)
          /\ \E h : /\ Len(h) = Len(Round(ps, i)) /\ Distinct(h) /\ h \in Seq(R)
                    /\ Range(h) = {p \in Range(ps) : i <= Len(p.models)}
                    /\ \A x, y : Before(h, x, y) => Before(ps, x, y)
                    /\ \A m \in 1 .. Len(h) :
                         Round(ps, i)[m] = <<h[m].name, h[m].models[i]>>
      <3>1. ps \in Seq(R) /\ Distinct(ps)
        BY <1>1
      <3> HIDE DEF ss
      <3> QED BY <2>1, <2>2, <3>1, RoundOrder
    <2>4. {p \in Range(ps) : i <= Len(p.models)} = {p \in Enabled(cfg) : i <= Len(p.models)}
      BY <1>1
    <2> QED BY <1>1, <2>3, <2>4
  <1> DEFINE RoundOf(i, h) ==
               /\ Len(h) = Len(ss[i]) /\ Distinct(h) /\ h \in Seq(R)
               /\ Range(h) = {p \in Enabled(cfg) : i <= Len(p.models)}
               /\ \A x, y : Before(h, x, y) => Before(ps, x, y)
               /\ \A m \in 1 .. Len(h) : ss[i][m] = <<h[m].name, h[m].models[i]>>
             H == [i \in 1 .. n |-> CHOOSE h : RoundOf(i, h)]
  <1>6. ss \in Seq(Seq(K)) /\ Len(ss) = n
    BY <1>3, <1>5
  <1>7. \A i \in 1 .. n : RoundOf(i, H[i])
    <2> SUFFICES ASSUME NEW i \in 1 .. n PROVE RoundOf(i, H[i])
      OBVIOUS
    <2>1. ss[i] = Round(ps, i)
      OBVIOUS
    <2> HIDE DEF ss
    <2>2. \E h : RoundOf(i, h)
      BY <1>5, <2>1
    <2>3. H[i] = CHOOSE h : RoundOf(i, h)
      OBVIOUS
    <2> HIDE DEF H, RoundOf
    <2> QED BY <2>2, <2>3, Zenon
  <1> HIDE DEF H, ss
  <1>8. \A i \in 1 .. n :
          /\ Len(H[i]) = Len(ss[i]) /\ Distinct(H[i]) /\ H[i] \in Seq(R)
          /\ Range(H[i]) = {p \in Enabled(cfg) : i <= Len(p.models)}
          /\ \A x, y : Before(H[i], x, y) => Before(ps, x, y)
          /\ \A m \in 1 .. Len(ss[i]) : ss[i][m] = <<H[i][m].name, H[i][m].models[i]>>
    BY <1>7
  <1>9. all \in Seq(K)
    BY <1>6, FlattenTyped
  <1>10. PICK b, o : Blocks(ss, all, b, o)
    BY <1>6, FlattenBlocks
  <1> HIDE DEF n, all, RoundOf, K, R
  <1>11. DOMAIN all = 1 .. Len(all) /\ Len(all) \in Nat
    BY <1>9
  <1>12. /\ \A i \in 1 .. Len(all) : /\ b[i] \in 1 .. n
                                     /\ o[i] \in 1 .. Len(ss[b[i]])
                                     /\ all[i] = ss[b[i]][o[i]]
         /\ \A i, j \in 1 .. Len(all) : i < j => b[i] < b[j] \/ (b[i] = b[j] /\ o[i] < o[j])
         /\ \A q \in 1 .. n : \A r \in 1 .. Len(ss[q]) :
               \E i \in 1 .. Len(all) : b[i] = q /\ o[i] = r
    BY <1>6, <1>10 DEF Blocks
  (* the provider whose model stands at a place *)
  <1> DEFINE at(i) == H[b[i]][o[i]]
  <1>13. ASSUME NEW i \in 1 .. Len(all)
         PROVE  /\ at(i) \in Enabled(cfg) /\ at(i) \in R
                /\ b[i] \in 1 .. Len(at(i).models) /\ b[i] \in Nat
                /\ all[i] = <<at(i).name, at(i).models[b[i]]>>
                /\ o[i] \in Nat /\ o[i] \in DOMAIN H[b[i]]
    <2>1. b[i] \in 1 .. n /\ o[i] \in 1 .. Len(ss[b[i]]) /\ all[i] = ss[b[i]][o[i]]
      BY <1>12
    <2>2. /\ H[b[i]] \in Seq(R) /\ Len(H[b[i]]) = Len(ss[b[i]])
          /\ Range(H[b[i]]) = {p \in Enabled(cfg) : b[i] <= Len(p.models)}
          /\ ss[b[i]][o[i]] = <<at(i).name, at(i).models[b[i]]>>
      BY <1>8, <2>1
    <2>3. DOMAIN H[b[i]] = 1 .. Len(ss[b[i]])
      BY <2>2
    <2>4. at(i) \in Enabled(cfg) /\ b[i] <= Len(at(i).models)
      BY <2>1, <2>2, <2>3 DEF Range
    <2>5. Len(at(i).models) \in Nat
      BY <1>2, <2>4 DEF R
    <2>6. b[i] \in Nat /\ b[i] >= 1 /\ o[i] \in Nat
      BY <1>3, <2>1, <2>2
    <2> HIDE DEF at
    <2>7. b[i] \in 1 .. Len(at(i).models)
      BY <2>4, <2>5, <2>6
    <2> QED BY <1>2, <2>1, <2>2, <2>3, <2>4, <2>6, <2>7 DEF R
  <1>14. ASSUME NEW i \in 1 .. Len(all), NEW p \in R, NEW m \in 1 .. Len(p.models),
                all[i] = <<p.name, p.models[m]>>
         PROVE  at(i) = p /\ b[i] = m
    <2>1. /\ at(i) \in R /\ b[i] \in 1 .. Len(at(i).models)
          /\ all[i] = <<at(i).name, at(i).models[b[i]]>>
      BY <1>13
    <2> HIDE DEF at
    <2>2. m \in DOMAIN p.models /\ b[i] \in DOMAIN at(i).models
      BY <1>4, <2>1
    <2> QED BY <1>14, <2>1, <2>2, OnePlace DEF R
  <1>15. Range(all) = EnabledPairs(cfg)
    <2>1. ASSUME NEW i \in 1 .. Len(all) PROVE all[i] \in EnabledPairs(cfg)
      <3>1. /\ at(i) \in Enabled(cfg) /\ at(i) \in R
            /\ b[i] \in 1 .. Len(at(i).models)
            /\ all[i] = <<at(i).name, at(i).models[b[i]]>>
        BY <1>13
      <3> HIDE DEF at
      <3>2. b[i] \in DOMAIN at(i).models
        BY <1>4, <3>1
      <3> QED BY <3>1, <3>2 DEF EnabledPairs, PairsOf, Range
    <2>2. ASSUME NEW k \in EnabledPairs(cfg) PROVE k \in Range(all)
      <3>1. PICK p \in Enabled(cfg) : k \in PairsOf(p)
        BY DEF EnabledPairs
      <3>2. PICK m \in DOMAIN p.models : k = <<p.name, p.models[m]>>
        BY <3>1 DEF PairsOf, Range
      <3>3. p \in R /\ p.models \in Seq(Range(p.models)) /\ Len(p.models) \in Nat
        BY <1>2, <3>1 DEF R
      <3>4. m \in 1 .. Len(p.models) /\ Len(p.models) <= n
        BY <1>3, <3>2, <3>3
      <3>5. m \in 1 .. n /\ m <= Len(p.models)
        BY <1>3, <3>3, <3>4
      <3>6. p \in Range(H[m]) /\ H[m] \in Seq(R) /\ Len(H[m]) = Len(ss[m])
        BY <1>8, <3>1, <3>5
      <3>7. PICK r \in 1 .. Len(ss[m]) : H[m][r] = p
        BY <3>6 DEF Range
      <3>8. PICK i \in 1 .. Len(all) : b[i] = m /\ o[i] = r
        BY <1>12, <3>5
      <3>9. all[i] = <<at(i).name, at(i).models[b[i]]>> /\ at(i) = p
        BY <1>13, <3>7, <3>8
      <3>10. all[i] = k
        BY <3>2, <3>8, <3>9
      <3> QED BY <1>11, <3>10 DEF Range
    <2> QED BY <1>11, <2>1, <2>2 DEF Range
  <1>16. Distinct(all)
    <2> SUFFICES ASSUME NEW i \in 1 .. Len(all), NEW j \in 1 .. Len(all), all[i] = all[j]
                 PROVE  i = j
      BY <1>11 DEF Distinct
    <2>1. /\ at(j) \in R /\ b[j] \in 1 .. Len(at(j).models)
          /\ all[j] = <<at(j).name, at(j).models[b[j]]>>
          /\ o[j] \in Nat /\ b[j] \in Nat /\ o[j] \in DOMAIN H[b[j]]
      BY <1>13
    <2>2. o[i] \in Nat /\ o[i] \in DOMAIN H[b[i]]
      BY <1>13
    <2>3. at(i) = at(j) /\ b[i] = b[j]
      <3> HIDE DEF at
      <3> QED BY <1>14, <2>1
    <2>4. Distinct(H[b[i]])
      BY <1>8, <1>12
    <2>5. o[i] = o[j]
      BY <2>1, <2>2, <2>3, <2>4 DEF Distinct
    <2>6. ~(i < j) /\ ~(j < i)
      BY <1>12, <2>1, <2>3, <2>5
    <2> QED BY <1>11, <2>6
  <1>17. ASSUME NEW k, NEW l, TurnIsBefore(cfg, k, l), Before(all, l, k) PROVE FALSE
    <2>1. PICK p \in R, q \in R : \E i \in DOMAIN p.models, j \in DOMAIN q.models :
            /\ k = <<p.name, p.models[i]>> /\ l = <<q.name, q.models[j]>>
            /\ i < j \/ (i = j /\ p.priority < q.priority)
      BY <1>17 DEF TurnIsBefore, R
    <2>2. PICK x \in DOMAIN p.models, y \in DOMAIN q.models :
            /\ k = <<p.name, p.models[x]>> /\ l = <<q.name, q.models[y]>>
            /\ x < y \/ (x = y /\ p.priority < q.priority)
      BY <2>1
    <2>3. /\ DOMAIN p.models = 1 .. Len(p.models) /\ DOMAIN q.models = 1 .. Len(q.models)
          /\ Len(p.models) \in Nat /\ Len(q.models) \in Nat
          /\ p.priority \in Int /\ q.priority \in Int
      BY <1>2 DEF R
    <2>4. PICK i \in 1 .. Len(all), j \in 1 .. Len(all) : i < j /\ all[i] = l /\ all[j] = k
      BY <1>11, <1>17 DEF Before
    <2>5. at(i) = q /\ b[i] = y /\ at(j) = p /\ b[j] = x
      <3> HIDE DEF at
      <3>1. x \in 1 .. Len(p.models) /\ y \in 1 .. Len(q.models)
        BY <2>3
      <3> QED BY <1>14, <2>2, <2>4, <3>1
    <2>6. y < x \/ (y = x /\ o[i] < o[j])
      BY <1>12, <2>4, <2>5
    <2>7. CASE y = x /\ o[i] < o[j]
      <3>1. o[i] \in DOMAIN H[x] /\ o[j] \in DOMAIN H[x] /\ H[x][o[i]] = q /\ H[x][o[j]] = p
        BY <1>13, <2>5, <2>7
      <3>2. Before(H[x], q, p)
        BY <2>7, <3>1 DEF Before
      <3>3. x \in 1 .. n
        BY <1>12, <2>5
      <3>4. q.priority <= p.priority
        BY <1>1, <1>8, <3>2, <3>3
      <3> QED BY <2>2, <2>3, <2>7, <3>4
    <2>8. CASE y < x
      BY <2>2, <2>3, <2>8
    <2> QED BY <2>6, <2>7, <2>8
  <1>18. RoundRobin(ps) = all
    BY DEF RoundRobin, all, ss, n
  <1> QED BY <1>9, <1>15, <1>16, <1>17, <1>18 DEF K

(* The last successful model first, and the others in their order. *)
LEMMA LastFirstOrder ==
    ASSUME NEW S, NEW s \in Seq(S), NEW last, Distinct(s)
    PROVE  /\ LastFirst(s, last) \in Seq(S)
           /\ Range(LastFirst(s, last)) = Range(s)
           /\ Distinct(LastFirst(s, last))
           /\ \A x, y : Before(LastFirst(s, last), x, y) =>
                \/ y # last /\ (x = last \/ Before(s, x, y))
                \/ last \notin Range(s) /\ Before(s, x, y)
  <1>1. CASE last \notin Range(s)
    <2>1. LastFirst(s, last) = s
      BY <1>1 DEF LastFirst
    <2> QED BY <1>1, <2>1
  <1>2. CASE last \in Range(s)
    <2> DEFINE t == Only(s, Range(s) \ {last})
               u == <<last>>
    <2>1. LastFirst(s, last) = u \o t
      BY <1>2 DEF LastFirst
    <2>2. /\ t \in Seq(S) /\ Range(t) = Range(s) \ {last} /\ Distinct(t)
          /\ \A x, y : Before(t, x, y) => Before(s, x, y)
      <3>1. Range(s) \cap (Range(s) \ {last}) = Range(s) \ {last}
        OBVIOUS
      <3> QED BY <3>1, OnlyOrder
    <2>3. last \in S
      BY <1>2, RangeIs
    <2>4. u \in Seq(S) /\ Len(u) = 1 /\ u[1] = last /\ DOMAIN u = {1}
      BY <2>3
    <2> HIDE DEF t, u
    <2>5. Range(u) = {last} /\ Distinct(u)
      BY <2>4 DEF Range, Distinct
    <2>6. \A x, y : ~Before(u, x, y)
      BY <2>4 DEF Before
    <2>7. /\ u \o t \in Seq(S)
          /\ Range(u \o t) = Range(u) \cup Range(t)
          /\ Distinct(u) /\ Distinct(t) /\ Range(u) \cap Range(t) = {} => Distinct(u \o t)
          /\ \A x, y : Before(u \o t, x, y) =>
                \/ Before(u, x, y) \/ Before(t, x, y)
                \/ x \in Range(u) /\ y \in Range(t)
      BY <2>2, <2>4, ConcatOrder
    <2>8. \A x, y : Before(t, x, y) => y \in Range(t)
      BY DEF Before, Range
    <2>9. Range(u \o t) = Range(s) /\ Distinct(u \o t)
      BY <1>2, <2>2, <2>5, <2>7
    <2>10. ASSUME NEW x, NEW y, Before(u \o t, x, y)
           PROVE  y # last /\ (x = last \/ Before(s, x, y))
      <3>1. Before(t, x, y) \/ (x \in Range(u) /\ y \in Range(t))
        BY <2>6, <2>7, <2>10
      <3>2. y \in Range(t)
        BY <2>8, <3>1
      <3> QED BY <2>2, <2>5, <3>1, <3>2
    <2>11. \A x, y : Before(LastFirst(s, last), x, y) =>
                        y # last /\ (x = last \/ Before(s, x, y))
      BY <2>1, <2>10
    <2>12. /\ LastFirst(s, last) \in Seq(S)
           /\ Range(LastFirst(s, last)) = Range(s)
           /\ Distinct(LastFirst(s, last))
      BY <2>1, <2>7, <2>9
    <2> QED BY <2>11, <2>12
  <1> QED BY <1>1, <1>2

(* A sequence of no repeated element, in which what has to come before is not *)
(* found behind, is in the order it has to be in.                             *)
LEMMA TieredIs ==
    ASSUME NEW in, NEW K, NEW s \in Seq(K), Distinct(s),
           IsConfig(in.cfg), NamesAreDistinct(in.cfg),
           Range(s) = {k \in EnabledPairs(in.cfg) : in.status[k] # "BlockedFatal"},
           \A k \in Pairs(in.cfg) : in.latency[k] \in Nat,
           \A k, l : Precedes(in, k, l) => ~Before(s, l, k)
    PROVE  IsTiered(in, s)
  <1> SUFFICES ASSUME NEW i \in 1 .. Len(s), NEW j \in 1 .. Len(s),
                      Precedes(in, s[i], s[j])
               PROVE  i < j
    BY DEF IsTiered, Distinct
  <1>1. ~(j < i)
    BY DEF Before
  <1>2. i # j
    <2> SUFFICES ASSUME i = j PROVE FALSE
      OBVIOUS
    <2> DEFINE k == s[i]
    <2>1. TierOf(in, k) \in {1, 2, 3}
      BY DEF TierOf
    <2>2. in.latency[k] \in Nat
      <3>1. k \in EnabledPairs(in.cfg)
        BY DEF Range
      <3>2. k \in Pairs(in.cfg)
        BY <3>1 DEF EnabledPairs, Enabled, Pairs
      <3> QED BY <3>2
    <2>3. Precedes(in, k, k)
      OBVIOUS
    <2> HIDE DEF k
    <2>4. TurnIsBefore(in.cfg, k, k)
      BY <2>1, <2>2, <2>3 DEF Precedes
    <2>5. PICK p \in Range(in.cfg), q \in Range(in.cfg) :
            \E m \in DOMAIN p.models, n \in DOMAIN q.models :
              /\ k = <<p.name, p.models[m]>> /\ k = <<q.name, q.models[n]>>
              /\ m < n \/ (m = n /\ p.priority < q.priority)
      BY <2>4 DEF TurnIsBefore
    <2>6. PICK m \in DOMAIN p.models, n \in DOMAIN q.models :
              /\ k = <<p.name, p.models[m]>> /\ k = <<q.name, q.models[n]>>
              /\ m < n \/ (m = n /\ p.priority < q.priority)
      BY <2>5
    <2>7. p = q /\ m = n
      <3>1. <<p.name, p.models[m]>> = <<q.name, q.models[n]>>
        BY <2>6
      <3> HIDE DEF k
      <3> QED BY <3>1, OnePlace
    <2>8. p.models \in Seq(Range(p.models)) /\ p.priority \in Int
      BY DEF IsConfig
    <2>9. m \in Nat
      BY <2>8
    <2> QED BY <2>6, <2>7, <2>8, <2>9
  <1> QED BY <1>1, <1>2

(* What the breaker says of the models: a status and a latency of each.       *)
BreakerTyped(in) ==
    \A k \in Pairs(in.cfg) : in.status[k] \in SelectionStatuses /\ in.latency[k] \in Nat

(* The models of the three tiers. *)
UsablePairs(in) ==
    {k \in EnabledPairs(in.cfg) : in.status[k] \in {"Active", "Degraded", "BlockedTemp"}}

(* What is active, degraded and blocked, one behind the other.                *)
LEMMA TiersOrder ==
    ASSUME NEW in, IsConfig(in.cfg), NamesAreDistinct(in.cfg),
           NEW ps \in SortedProviders(in.cfg),
           NEW d \in SortedBy(Tier(RoundRobin(ps), in.status, "Degraded"), in.latency),
           NEW e \in SortedBy(Tier(RoundRobin(ps), in.status, "BlockedTemp"), in.latency),
           NEW s,
           s = LastFirst(Tier(RoundRobin(ps), in.status, "Active"), in.last) \o d \o e
    PROVE  /\ s \in Seq(Pairs(in.cfg)) /\ Distinct(s)
           /\ Range(s) = UsablePairs(in)
           /\ BreakerTyped(in) => IsTiered(in, s)
  <1> DEFINE K == Pairs(in.cfg)
             all == RoundRobin(ps)
             a == Tier(all, in.status, "Active")
             f == LastFirst(a, in.last)
             Of(st) == {k \in EnabledPairs(in.cfg) : in.status[k] = st}
  <1>1. /\ all \in Seq(K) /\ Range(all) = EnabledPairs(in.cfg) /\ Distinct(all)
        /\ \A k, l : TurnIsBefore(in.cfg, k, l) => ~Before(all, l, k)
    BY RoundRobinOrder
  <1>2. EnabledPairs(in.cfg) \subseteq K
    BY DEF EnabledPairs, Enabled, Pairs
  <1> HIDE DEF all, K
  <1>3. ASSUME NEW st
        PROVE  /\ Tier(all, in.status, st) \in Seq(K)
               /\ Range(Tier(all, in.status, st)) = Of(st)
               /\ Distinct(Tier(all, in.status, st))
               /\ \A x, y : Before(Tier(all, in.status, st), x, y) => Before(all, x, y)
    <2> DEFINE T == {k \in Range(all) : in.status[k] = st}
    <2>1. Tier(all, in.status, st) = Only(all, T)
      BY DEF Tier
    <2>2. Range(all) \cap T = Of(st)
      BY <1>1
    <2> HIDE DEF T, Of
    <2> QED BY <1>1, <2>1, <2>2, OnlyOrder
  <1> HIDE DEF a, Of
  <1>4. /\ a \in Seq(K) /\ Range(a) = Of("Active") /\ Distinct(a)
        /\ \A x, y : Before(a, x, y) => Before(all, x, y)
    BY <1>3 DEF a
  <1>5. /\ f \in Seq(K) /\ Range(f) = Of("Active") /\ Distinct(f)
        /\ \A x, y : Before(f, x, y) =>
              \/ y # in.last /\ (x = in.last \/ Before(all, x, y))
              \/ in.last \notin Of("Active") /\ Before(all, x, y)
    <2>1. /\ f \in Seq(K) /\ Range(f) = Range(a) /\ Distinct(f)
          /\ \A x, y : Before(f, x, y) =>
                \/ y # in.last /\ (x = in.last \/ Before(a, x, y))
                \/ in.last \notin Range(a) /\ Before(a, x, y)
      BY <1>4, LastFirstOrder
    <2> HIDE DEF f
    <2> QED BY <1>4, <2>1
  <1>6. /\ d \in Seq(K) /\ Range(d) = Of("Degraded") /\ Distinct(d)
        /\ \A x, y : Before(d, x, y) => in.latency[x] <= in.latency[y]
    <2> DEFINE t == Tier(all, in.status, "Degraded")
    <2>1. t \in Seq(K) /\ Range(t) = Of("Degraded")
      BY <1>3
    <2>2. d \in SortedBy(t, in.latency)
      BY DEF all
    <2> HIDE DEF t
    <2> QED BY <2>1, <2>2, SortedByOrder
  <1>7. /\ e \in Seq(K) /\ Range(e) = Of("BlockedTemp") /\ Distinct(e)
        /\ \A x, y : Before(e, x, y) => in.latency[x] <= in.latency[y]
    <2> DEFINE t == Tier(all, in.status, "BlockedTemp")
    <2>1. t \in Seq(K) /\ Range(t) = Of("BlockedTemp")
      BY <1>3
    <2>2. e \in SortedBy(t, in.latency)
      BY DEF all
    <2> HIDE DEF t
    <2> QED BY <2>1, <2>2, SortedByOrder
  <1>8. s = f \o d \o e
    BY DEF f, a, all
  <1> HIDE DEF f
  <1> DEFINE u == f \o d
  <1>9. /\ u \in Seq(K) /\ Range(u) = Of("Active") \cup Of("Degraded")
        /\ Distinct(u)
        /\ \A x, y : Before(u, x, y) =>
              \/ Before(f, x, y) \/ Before(d, x, y)
              \/ x \in Of("Active") /\ y \in Of("Degraded")
    <2>1. Range(f) \cap Range(d) = {}
      BY <1>5, <1>6 DEF Of
    <2> QED BY <1>5, <1>6, <2>1, ConcatOrder
  <1> HIDE DEF u
  <1>10. /\ s \in Seq(K)
         /\ Range(s) = Of("Active") \cup Of("Degraded") \cup Of("BlockedTemp")
         /\ Distinct(s)
         /\ \A x, y : Before(s, x, y) =>
              \/ Before(u, x, y) \/ Before(e, x, y)
              \/ x \in Of("Active") \cup Of("Degraded") /\ y \in Of("BlockedTemp")
    <2>1. Range(u) \cap Range(e) = {}
      BY <1>7, <1>9 DEF Of
    <2>2. s = u \o e
      BY <1>8 DEF u
    <2> HIDE DEF Of
    <2>3. /\ u \o e \in Seq(K)
          /\ Range(u \o e) = Range(u) \cup Range(e)
          /\ Distinct(u) /\ Distinct(e) /\ Range(u) \cap Range(e) = {} => Distinct(u \o e)
          /\ \A x, y : Before(u \o e, x, y) =>
                \/ Before(u, x, y) \/ Before(e, x, y)
                \/ x \in Range(u) /\ y \in Range(e)
      BY <1>7, <1>9, ConcatOrder
    <2>4. s \in Seq(K) /\ Range(s) = Range(u) \cup Range(e) /\ Distinct(s)
      BY <1>7, <1>9, <2>1, <2>2, <2>3
    <2>5. \A x, y : Before(s, x, y) =>
                \/ Before(u, x, y) \/ Before(e, x, y)
                \/ x \in Range(u) /\ y \in Range(e)
      BY <2>2, <2>3
    <2> QED BY <1>7, <1>9, <2>4, <2>5
  <1>11. Range(s) = UsablePairs(in)
    BY <1>10 DEF Of, UsablePairs
  <1>12. ASSUME NEW q, NEW x, NEW y, Before(q, x, y)
         PROVE  x \in Range(q) /\ y \in Range(q)
    BY <1>12 DEF Before, Range
  <1>13. /\ \A x \in Of("Active") : TierOf(in, x) = 1
         /\ \A x \in Of("Degraded") : TierOf(in, x) = 2
         /\ \A x \in Of("BlockedTemp") : TierOf(in, x) = 3
    BY DEF Of, TierOf
  <1>14. ASSUME BreakerTyped(in) PROVE IsTiered(in, s)
    <2>1. Range(s) = {k \in EnabledPairs(in.cfg) : in.status[k] # "BlockedFatal"}
      BY <1>2, <1>11, <1>14 DEF BreakerTyped, UsablePairs, K, SelectionStatuses
    <2>2. \A st : \A x \in Of(st) : in.latency[x] \in Nat
      BY <1>2, <1>14 DEF Of, K, BreakerTyped
    <2>3. ASSUME NEW x, NEW y, Precedes(in, x, y), Before(s, y, x) PROVE FALSE
      <3>1. CASE Before(f, y, x)
        <4>1. TierOf(in, x) = 1 /\ TierOf(in, y) = 1 /\ x \in Of("Active")
          BY <1>5, <1>12, <1>13, <3>1
        <4>2. y # in.last /\ (x = in.last \/ TurnIsBefore(in.cfg, x, y))
          BY <2>3, <4>1 DEF Precedes
        <4>3. ~Before(all, y, x)
          BY <1>1, <1>5, <3>1, <4>1, <4>2
        <4> QED BY <1>5, <3>1, <4>2, <4>3
      <3>2. CASE Before(d, y, x)
        <4>1. /\ TierOf(in, x) = 2 /\ TierOf(in, y) = 2
              /\ in.latency[x] \in Nat /\ in.latency[y] \in Nat
              /\ in.latency[y] <= in.latency[x]
          BY <1>6, <1>12, <1>13, <2>2, <3>2
        <4> QED BY <2>3, <4>1 DEF Precedes
      <3>3. CASE Before(e, y, x)
        <4>1. /\ TierOf(in, x) = 3 /\ TierOf(in, y) = 3
              /\ in.latency[x] \in Nat /\ in.latency[y] \in Nat
              /\ in.latency[y] <= in.latency[x]
          BY <1>7, <1>12, <1>13, <2>2, <3>3
        <4> QED BY <2>3, <4>1 DEF Precedes
      <3>4. CASE y \in Of("Active") /\ x \in Of("Degraded")
        <4>1. TierOf(in, y) = 1 /\ TierOf(in, x) = 2
          BY <1>13, <3>4
        <4> QED BY <2>3, <4>1 DEF Precedes
      <3>5. CASE y \in Of("Active") \cup Of("Degraded") /\ x \in Of("BlockedTemp")
        <4>1. TierOf(in, y) \in {1, 2} /\ TierOf(in, x) = 3
          BY <1>13, <3>5
        <4> QED BY <2>3, <4>1 DEF Precedes
      <3> QED BY <1>9, <1>10, <2>3, <3>1, <3>2, <3>3, <3>4, <3>5
    <2> QED BY <1>10, <1>14, <2>1, <2>3, TieredIs DEF BreakerTyped
  <1> QED BY <1>10, <1>11, <1>14 DEF K

(* The candidates of a configuration, of which none is lost or repeated.      *)
LEMMA AllCandidatesAreTiered ==
    ASSUME NEW in, IsConfig(in.cfg), NamesAreDistinct(in.cfg),
           NEW s \in GetAllCandidates(in.cfg, in.status, in.latency, in.last)
    PROVE  /\ s \in Seq(Pairs(in.cfg)) /\ Distinct(s)
           /\ Range(s) = UsablePairs(in)
           /\ BreakerTyped(in) => IsTiered(in, s)
  <1>1. PICK ps \in SortedProviders(in.cfg) :
          s \in LET all == RoundRobin(ps)
                IN  {LastFirst(Tier(all, in.status, "Active"), in.last) \o degraded \o blocked :
                       degraded \in SortedBy(Tier(all, in.status, "Degraded"), in.latency),
                       blocked \in SortedBy(Tier(all, in.status, "BlockedTemp"), in.latency)}
    BY DEF GetAllCandidates
  <1>2. PICK d \in SortedBy(Tier(RoundRobin(ps), in.status, "Degraded"), in.latency),
             e \in SortedBy(Tier(RoundRobin(ps), in.status, "BlockedTemp"), in.latency) :
          s = LastFirst(Tier(RoundRobin(ps), in.status, "Active"), in.last) \o d \o e
    BY <1>1
  <1> QED BY <1>2, TiersOrder

(* The candidates of a request, of which none is repeated; if it asks for any *)
(* model, none that is usable is lost.                                        *)
LEMMA CandidatesAreSound ==
    ASSUME NEW cfg, IsConfig(cfg), NamesAreDistinct(cfg),
           NEW status, NEW latency, NEW last, NEW provider, NEW model,
           NEW s \in GetCandidates(cfg, status, latency, last, provider, model)
    PROVE  /\ Distinct(s)
           /\ provider = "auto" /\ model = "auto" =>
                \A k \in EnabledPairs(cfg) :
                   status[k] \in {"Active", "Degraded", "BlockedTemp"} => k \in Range(s)
  <1>1. CASE provider = "auto"
    <2> DEFINE in == [cfg |-> cfg, status |-> status, latency |-> latency, last |-> last]
    <2>1. PICK t \in GetAllCandidates(cfg, status, latency, last) :
            s = Only(t, {k \in Range(t) : model \in {"auto", k[2]}})
      BY <1>1 DEF GetCandidates
    <2>2. /\ t \in Seq(Pairs(in.cfg)) /\ Distinct(t)
          /\ Range(t) = UsablePairs(in)
      <3>1. /\ in.cfg = cfg /\ in.status = status
            /\ in.latency = latency /\ in.last = last
        OBVIOUS
      <3> HIDE DEF in
      <3>2. t \in GetAllCandidates(in.cfg, in.status, in.latency, in.last)
        BY <2>1, <3>1
      <3> QED BY <3>1, <3>2, AllCandidatesAreTiered
    <2> DEFINE T == {k \in Range(t) : model \in {"auto", k[2]}}
    <2>3. model = "auto" => Range(t) \cap T = Range(t)
      OBVIOUS
    <2>4. s = Only(t, T)
      BY <2>1
    <2> HIDE DEF T
    <2>5. Range(s) = Range(t) \cap T /\ Distinct(s)
      BY <2>2, <2>4, OnlyOrder
    <2> QED BY <2>2, <2>3, <2>5 DEF UsablePairs
  <1>2. CASE provider # "auto"
    <2> DEFINE named  == Only(cfg, {p \in Range(cfg) : p.name = provider})
               models == named[1].models
    <2>1. s \in CASE named = << >> -> {<< >>}
                  [] named # << >> /\ model = "auto" ->
                       {[i \in DOMAIN models |-> <<provider, models[i]>>]}
                  [] OTHER -> {IF model \in Range(models)
                               THEN <<<<provider, model>>>> ELSE << >>}
      BY <1>2 DEF GetCandidates
    <2>2. named \in Seq(Range(cfg))
      BY OnlyTyped DEF IsConfig
    <2> HIDE DEF named
    <2>3. CASE s = << >>
      BY <1>2, <2>3 DEF Distinct
    <2>4. CASE s = <<<<provider, model>>>>
      BY <1>2, <2>4 DEF Distinct
    <2>5. CASE named # << >> /\ s = [i \in DOMAIN models |-> <<provider, models[i]>>]
      <3>1. named[1] \in Range(cfg)
        BY <2>2, <2>5
      <3> HIDE DEF models
      <3>2. \A i, j \in DOMAIN models : models[i] = models[j] => i = j
        BY <3>1 DEF NamesAreDistinct, models
      <3>3. DOMAIN s = DOMAIN models /\ \A i \in DOMAIN models : s[i] = <<provider, models[i]>>
        BY <2>5
      <3> QED BY <1>2, <3>2, <3>3 DEF Distinct
    <2> HIDE DEF models
    <2>6. \/ s = << >> \/ s = <<<<provider, model>>>>
          \/ named # << >> /\ s = [i \in DOMAIN models |-> <<provider, models[i]>>]
      BY <2>1
    <2> QED BY <1>2, <2>3, <2>4, <2>5, <2>6
  <1> QED BY <1>1, <1>2

(* SelectionIsTiered holds of every configuration that names no model twice,  *)
(* whatever the breaker says of its models and whichever was the last one.    *)
THEOREM SelectionStaysTiered == SelectionSpec => []SelectionIsTiered
  <1> DEFINE Inv == input \in Inputs /\ SelectionIsTiered
  <1>1. SelectionInit => Inv
    BY DEF SelectionInit, SelectionIsTiered
  <1>2. Inv /\ [SelectionNext]_selectionVars => Inv'
    <2> SUFFICES ASSUME Inv, [SelectionNext]_selectionVars PROVE Inv'
      OBVIOUS
    <2>1. CASE Choose
      <3>1. BreakerTyped(input) => IsTiered(input, candidates')
        BY <2>1, SelectionAssumption, AllCandidatesAreTiered DEF Choose
      <3>2. BreakerTyped(input)
        BY SelectionAssumption DEF BreakerTyped
      <3> QED BY <2>1, <3>1, <3>2 DEF Choose, SelectionIsTiered
    <2>2. CASE UNCHANGED selectionVars
      BY <2>2 DEF selectionVars, SelectionIsTiered
    <2> QED BY <2>1, <2>2 DEF SelectionNext, Chosen
  <1> QED BY <1>1, <1>2, PTL DEF SelectionSpec

-----------------------------------------------------------------------------
(* What a request promises of its attempts rests on the order of candidates,  *)
(* which repeats no model and, for a request for any model, leaves out no     *)
(* usable one.                                                                *)
(* The calls of a request in the state q, and the candidates it has left.     *)
CallsSound(q) ==
    /\ Distinct(q.calls) /\ Distinct(q.cands)
    /\ ~q.last =>
         \A i \in DOMAIN q.calls, j \in DOMAIN q.cands : q.calls[i] # q.cands[j]
    /\ q.attempts <= q.retries
    /\ \/ Len(q.calls) = q.attempts
       \/ q.attempts = 0 /\ q.last /\ Len(q.calls) = 1
    /\ q.pc \in {"idle", "loop", "fallback"} => ~q.last
    /\ q.pc \in {"idle", "fallback"} => q.attempts = 0

(* What it has not yet called, is not going to and does not know as unfit:    *)
(* nothing, if it asks for any model; and why it fails.                       *)
Covered(q) ==
    /\ /\ q.kind.provider = "auto" /\ q.kind.model = "auto"
       /\ q.pc \notin {"idle", "done"} \/ q.attempts # 0
       => EnabledPairs(q.cfg) \cap Keys
            \subseteq Range(q.calls) \cup Range(q.cands) \cup q.unfit
    /\ q.pc \in {"idle", "fallback"} => q.attempts = 0
    /\ q.last => q.kind.probe \/ q.attempts = 0 \/ q.wrote # {}
    /\ q.result # "none" => q.pc = "done"
    /\ /\ q.result = "failed" /\ q.wrote = {} /\ ~q.kind.probe
       /\ q.attempts \in 1 .. q.retries - 1
       => q.cands = << >>

(* The next candidate is skipped. *)
LEMMA SkipStep ==
    ASSUME NEW q \in RequestState, NEW s \in RequestState,
           q.pc = "loop", s.pc = "loop", q.cands # << >>,
           s.cands = Tail(q.cands), s.unfit = q.unfit \cup {Head(q.cands)},
           s.calls = q.calls, s.attempts = q.attempts, s.retries = q.retries,
           s.kind = q.kind, s.cfg = q.cfg, s.last = q.last, s.wrote = q.wrote,
           s.result = q.result
    PROVE  /\ CallsSound(q) => CallsSound(s)
           /\ Covered(q) => Covered(s)
  <1>1. q.cands \in Seq(Keys) /\ q.calls \in Seq(Keys)
    BY DEF RequestState
  <1>2. /\ \A j \in DOMAIN Tail(q.cands) :
             j + 1 \in DOMAIN q.cands /\ Tail(q.cands)[j] = q.cands[j + 1]
        /\ DOMAIN Tail(q.cands) \subseteq Nat
    BY <1>1
  <1>3. Range(q.cands) \subseteq Range(Tail(q.cands)) \cup {Head(q.cands)}
    <2> SUFFICES ASSUME NEW i \in DOMAIN q.cands
                 PROVE  q.cands[i] \in Range(Tail(q.cands)) \cup {Head(q.cands)}
      BY DEF Range
    <2>1. CASE i = 1
      BY <1>1, <2>1
    <2>2. CASE i # 1
      <3>1. i - 1 \in DOMAIN Tail(q.cands) /\ Tail(q.cands)[i - 1] = q.cands[i]
        BY <1>1, <2>2
      <3> QED BY <3>1 DEF Range
    <2> QED BY <2>1, <2>2
  <1>4. CallsSound(q) => CallsSound(s)
    <2> SUFFICES ASSUME CallsSound(q) PROVE CallsSound(s)
      OBVIOUS
    <2>1. Distinct(s.cands)
      BY <1>2 DEF CallsSound, Distinct
    <2>2. ~s.last =>
            \A i \in DOMAIN s.calls, j \in DOMAIN s.cands : s.calls[i] # s.cands[j]
      BY <1>2 DEF CallsSound
    <2> QED BY <2>1, <2>2 DEF CallsSound
  <1>5. Covered(q) => Covered(s)
    BY <1>3 DEF Covered
  <1> QED BY <1>4, <1>5

(* A model is called: the next candidate, or the fallback's choice.           *)
LEMMA CallsGrow ==
    ASSUME NEW c \in Seq(Keys), NEW k \in Keys
    PROVE  /\ Append(c, k) \in Seq(Keys)
           /\ Len(Append(c, k)) = Len(c) + 1
           /\ Range(c) \cup {k} \subseteq Range(Append(c, k))
           /\ \A i \in DOMAIN Append(c, k) :
                \/ i \in DOMAIN c /\ Append(c, k)[i] = c[i]
                \/ i = Len(c) + 1 /\ Append(c, k)[i] = k
           /\ DOMAIN c = 1 .. Len(c)
  <1>1. /\ \A i \in DOMAIN c : i \in DOMAIN Append(c, k) /\ Append(c, k)[i] = c[i]
        /\ Len(c) + 1 \in DOMAIN Append(c, k) /\ Append(c, k)[Len(c) + 1] = k
    OBVIOUS
  <1>2. Range(c) \cup {k} \subseteq Range(Append(c, k))
    BY <1>1 DEF Range
  <1> QED BY <1>2

(* The next candidate is tried. *)
LEMMA TryStep ==
    ASSUME NEW q \in RequestState, NEW s \in RequestState,
           q.pc = "loop", s.pc = "upstream", q.cands # << >>,
           q.attempts < q.retries,
           s.calls = Append(q.calls, Head(q.cands)), s.cands = Tail(q.cands),
           s.attempts = q.attempts + 1, s.retries = q.retries, s.unfit = q.unfit,
           s.kind = q.kind, s.cfg = q.cfg, s.last = q.last, s.wrote = q.wrote,
           s.result = q.result
    PROVE  /\ CallsSound(q) => CallsSound(s)
           /\ CallsSound(q) /\ Covered(q) => Covered(s)
  <1> DEFINE k == Head(q.cands)
  <1>1. q.cands \in Seq(Keys) /\ q.calls \in Seq(Keys) /\ q.attempts \in Nat /\ q.retries \in Nat
    BY DEF RequestState
  <1>2. /\ k \in Keys /\ k = q.cands[1] /\ 1 \in DOMAIN q.cands
        /\ \A j \in DOMAIN Tail(q.cands) :
             j + 1 \in DOMAIN q.cands /\ Tail(q.cands)[j] = q.cands[j + 1] /\ j >= 1
        /\ DOMAIN Tail(q.cands) \subseteq Nat
    BY <1>1
  <1>3. Range(q.cands) \subseteq Range(Tail(q.cands)) \cup {k}
    <2> SUFFICES ASSUME NEW i \in DOMAIN q.cands
                 PROVE  q.cands[i] \in Range(Tail(q.cands)) \cup {k}
      BY DEF Range
    <2>1. CASE i = 1
      BY <1>1, <2>1
    <2>2. CASE i # 1
      <3>1. i - 1 \in DOMAIN Tail(q.cands) /\ Tail(q.cands)[i - 1] = q.cands[i]
        BY <1>1, <2>2
      <3> QED BY <3>1 DEF Range
    <2> QED BY <2>1, <2>2
  <1> HIDE DEF k
  <1>4. /\ s.calls = Append(q.calls, k) /\ s.cands = Tail(q.cands)
        /\ Len(s.calls) = Len(q.calls) + 1
        /\ Range(q.calls) \cup {k} \subseteq Range(s.calls)
        /\ \A i \in DOMAIN s.calls :
             \/ i \in DOMAIN q.calls /\ s.calls[i] = q.calls[i]
             \/ i = Len(q.calls) + 1 /\ s.calls[i] = k
    BY <1>1, <1>2, CallsGrow DEF k
  <1>5. CallsSound(q) => CallsSound(s)
    <2> SUFFICES ASSUME CallsSound(q) PROVE CallsSound(s)
      OBVIOUS
    <2>1. /\ ~q.last /\ Len(q.calls) = q.attempts
          /\ Distinct(q.calls) /\ Distinct(q.cands)
          /\ \A i \in DOMAIN q.calls, j \in DOMAIN q.cands : q.calls[i] # q.cands[j]
      BY DEF CallsSound
    <2>2. Distinct(s.calls)
      BY <1>2, <1>4, <2>1 DEF Distinct
    <2>3. Distinct(s.cands)
      BY <1>2, <1>4, <2>1 DEF Distinct
    <2>4. \A j \in DOMAIN s.cands : s.cands[j] # k
      <3> SUFFICES ASSUME NEW j \in DOMAIN s.cands, s.cands[j] = k PROVE FALSE
        OBVIOUS
      <3>1. j + 1 \in DOMAIN q.cands /\ q.cands[j + 1] = q.cands[1] /\ j \in Nat /\ j >= 1
        BY <1>2, <1>4
      <3> QED BY <1>2, <2>1, <3>1 DEF Distinct
    <2>5. \A i \in DOMAIN s.calls, j \in DOMAIN s.cands : s.calls[i] # s.cands[j]
      BY <1>2, <1>4, <2>1, <2>4
    <2> QED BY <1>1, <1>4, <2>1, <2>2, <2>3, <2>5 DEF CallsSound
  <1>6. CallsSound(q) /\ Covered(q) => Covered(s)
    <2> SUFFICES ASSUME CallsSound(q), Covered(q) PROVE Covered(s)
      OBVIOUS
    <2>1. ~s.last /\ s.result = "none"
      BY DEF CallsSound, Covered
    <2> QED BY <1>3, <1>4, <2>1 DEF Covered
  <1> QED BY <1>5, <1>6

(* The fallback calls a model, whatever candidates there are. *)
LEMMA FallbackStep ==
    ASSUME NEW q \in RequestState, NEW s \in RequestState, NEW k \in Keys,
           q.pc = "fallback", s.pc = "upstream", s.last,
           s.calls = Append(q.calls, k), s.cands = q.cands,
           s.attempts = q.attempts, s.retries = q.retries, s.unfit = q.unfit,
           s.kind = q.kind, s.cfg = q.cfg, s.wrote = q.wrote, s.result = q.result
    PROVE  /\ CallsSound(q) => CallsSound(s)
           /\ Covered(q) => Covered(s)
  <1>1. q.calls \in Seq(Keys)
    BY DEF RequestState
  <1>2. /\ Len(s.calls) = Len(q.calls) + 1
        /\ Range(q.calls) \subseteq Range(s.calls)
        /\ DOMAIN s.calls = 1 .. Len(s.calls)
    <2>1. s.calls \in Seq(Keys)
      BY DEF RequestState
    <2> QED BY <1>1, <2>1, CallsGrow
  <1>3. CallsSound(q) => CallsSound(s)
    <2> SUFFICES ASSUME CallsSound(q) PROVE CallsSound(s)
      OBVIOUS
    <2>1. Len(q.calls) = 0 /\ q.attempts = 0
      BY DEF CallsSound
    <2>2. Distinct(s.calls)
      BY <1>2, <2>1 DEF Distinct
    <2> QED BY <1>2, <2>1, <2>2 DEF CallsSound
  <1>4. Covered(q) => Covered(s)
    BY <1>2 DEF Covered
  <1> QED BY <1>3, <1>4

(* What a step of r keeps. *)
Keeps(r) ==
    /\ CallsSound(req[r]) => CallsSound(req'[r])
    /\ CallsSound(req[r]) /\ Covered(req[r]) => Covered(req'[r])
    /\ \A p \in Requests \ {r} : req'[p] = req[p]

(* A request that returns without an answer it could not give. *)
LEMMA ReturnKeeps ==
    ASSUME RInv, NEW r \in Requests, NEW result \in Results, Return(r, result),
           req[r].pc \notin {"idle", "done"},
           /\ result = "failed" /\ req[r].wrote = {} /\ ~req[r].kind.probe
           /\ req[r].attempts \in 1 .. req[r].retries - 1
           /\ Covered(req[r])
           => req[r].cands = << >>
    PROVE  Keeps(r)
  <1> DEFINE q == req[r]
             s == [q EXCEPT !.pc = "done", !.result = result]
  <1>1. /\ q \in RequestState /\ req'[r] = s
        /\ \A p \in Requests \ {r} : req'[p] = req[p]
    BY DEF RInv, RequestsTyped, Return
  <1>2. /\ s \in RequestState /\ s.pc = "done" /\ s.result = result
        /\ s.calls = q.calls /\ s.cands = q.cands /\ s.unfit = q.unfit
        /\ s.attempts = q.attempts /\ s.retries = q.retries
        /\ s.kind = q.kind /\ s.cfg = q.cfg /\ s.last = q.last /\ s.wrote = q.wrote
    BY <1>1 DEF RequestState, PCs
  <1> HIDE DEF s
  <1>3. CallsSound(q) => CallsSound(s)
    BY <1>1, <1>2 DEF CallsSound
  <1>4. Covered(q) => Covered(s)
    BY <1>1, <1>2 DEF Covered
  <1> QED BY <1>1, <1>3, <1>4 DEF Keeps

(* The steps of the loop and of the fallback. *)
LEMMA LoopKeeps ==
    ASSUME RInv, NEW r \in Requests,
           CanceledInLoop(r) \/ SkipCandidate(r) \/ TryCandidate(r)
             \/ LeaveLoop(r) \/ TryFallback(r) \/ CanceledUpstream(r)
    PROVE  Keeps(r)
  <1> USE DEF Results
  <1> DEFINE q == req[r]
  <1>1. q \in RequestState
    BY DEF RInv, RequestsTyped
  <1>2. CASE CanceledInLoop(r)
    BY <1>2, ReturnKeeps DEF CanceledInLoop
  <1>3. CASE CanceledUpstream(r)
    BY <1>3, ReturnKeeps DEF CanceledUpstream
  <1>4. CASE SkipCandidate(r)
    <2> DEFINE s == [q EXCEPT !.cands = Tail(@), !.skipped = TRUE,
                              !.unfit = @ \cup {Head(q.cands)}]
    <2>1. q.pc = "loop" /\ q.cands # << >> /\ q.cands \in Seq(Keys)
      BY <1>1, <1>4 DEF SkipCandidate, RequestState
    <2>2. Head(q.cands) \in Keys /\ Tail(q.cands) \in Seq(Keys)
      BY <2>1
    <2>3. req'[r] = s /\ \A p \in Requests \ {r} : req'[p] = req[p]
      BY <1>4 DEF SkipCandidate, RInv, RequestsTyped
    <2>4. /\ s \in RequestState /\ s.pc = "loop"
          /\ s.cands = Tail(q.cands) /\ s.unfit = q.unfit \cup {Head(q.cands)}
          /\ s.calls = q.calls /\ s.attempts = q.attempts /\ s.retries = q.retries
          /\ s.kind = q.kind /\ s.cfg = q.cfg /\ s.last = q.last /\ s.wrote = q.wrote
          /\ s.result = q.result
      BY <1>1, <2>1, <2>2 DEF RequestState
    <2> HIDE DEF s
    <2>5. /\ CallsSound(q) => CallsSound(s)
          /\ Covered(q) => Covered(s)
      BY <1>1, <2>1, <2>4, SkipStep
    <2> QED BY <2>3, <2>5 DEF Keeps
  <1>5. CASE TryCandidate(r)
    <2> DEFINE s == [Call(r, Head(q.cands)) EXCEPT !.cands = Tail(@), !.attempts = @ + 1]
    <2>1. /\ q.pc = "loop" /\ q.cands # << >> /\ q.attempts < q.retries
          /\ q.cands \in Seq(Keys) /\ q.calls \in Seq(Keys) /\ q.attempts \in Nat
      BY <1>1, <1>5 DEF TryCandidate, RequestState
    <2>2. Head(q.cands) \in Keys /\ Tail(q.cands) \in Seq(Keys)
      BY <2>1
    <2>3. Append(q.calls, Head(q.cands)) \in Seq(Keys) /\ q.attempts + 1 \in Nat
      BY <2>1, <2>2
    <2>4. req'[r] = s /\ \A p \in Requests \ {r} : req'[p] = req[p]
      BY <1>5 DEF TryCandidate, RInv, RequestsTyped
    <2>5. /\ s \in RequestState /\ s.pc = "upstream"
          /\ s.calls = Append(q.calls, Head(q.cands)) /\ s.cands = Tail(q.cands)
          /\ s.attempts = q.attempts + 1 /\ s.retries = q.retries /\ s.unfit = q.unfit
          /\ s.kind = q.kind /\ s.cfg = q.cfg /\ s.last = q.last /\ s.wrote = q.wrote
          /\ s.result = q.result
      BY <1>1, <2>2, <2>3 DEF Call, RequestState, PCs
    <2> HIDE DEF s
    <2>6. /\ CallsSound(q) => CallsSound(s)
          /\ CallsSound(q) /\ Covered(q) => Covered(s)
      BY <1>1, <2>1, <2>5, TryStep
    <2> QED BY <2>4, <2>6 DEF Keeps
  <1>6. CASE LeaveLoop(r)
    <2>1. /\ q.pc = "loop"
          /\ q.cands = << >> \/ q.attempts >= q.retries
      BY <1>6 DEF LeaveLoop
    <2>2. q.attempts \in Nat /\ q.retries \in Nat
      BY <1>1 DEF RequestState
    <2>3. CASE Return(r, "failed")
      BY <2>1, <2>2, <2>3, ReturnKeeps
    <2>4. CASE req' = [req EXCEPT ![r].pc = "fallback"] /\ q.attempts = 0
      <3> DEFINE s == [q EXCEPT !.pc = "fallback"]
      <3>1. req'[r] = s /\ \A p \in Requests \ {r} : req'[p] = req[p]
        BY <2>4 DEF RInv, RequestsTyped
      <3>2. /\ s \in RequestState /\ s.pc = "fallback" /\ s.cands = q.cands
            /\ s.calls = q.calls /\ s.attempts = q.attempts /\ s.retries = q.retries
            /\ s.kind = q.kind /\ s.cfg = q.cfg /\ s.last = q.last /\ s.wrote = q.wrote
            /\ s.result = q.result /\ s.unfit = q.unfit
        BY <1>1 DEF RequestState, PCs
      <3> HIDE DEF s
      <3>3. CallsSound(q) => CallsSound(s)
        BY <1>1, <2>1, <2>4, <3>2 DEF CallsSound
      <3>4. Covered(q) => Covered(s)
        BY <1>1, <2>1, <2>4, <3>2 DEF Covered
      <3> QED BY <3>1, <3>3, <3>4 DEF Keeps
    <2> QED BY <1>6, <2>3, <2>4 DEF LeaveLoop
  <1>7. CASE TryFallback(r)
    <2>1. q.pc = "fallback"
      BY <1>7 DEF TryFallback
    <2>2. CASE Return(r, "failed")
      BY <2>1, <2>2, ReturnKeeps DEF Covered
    <2>3. ASSUME NEW k \in FallbackChoices,
                 req' = [req EXCEPT ![r] = [Call(r, k) EXCEPT !.last = TRUE]]
          PROVE  Keeps(r)
      <3> DEFINE s == [Call(r, k) EXCEPT !.last = TRUE]
      <3>1. k \in Keys
        BY DEF FallbackChoices
      <3>2. q.calls \in Seq(Keys) /\ Append(q.calls, k) \in Seq(Keys)
        BY <1>1, <3>1 DEF RequestState
      <3>3. req'[r] = s /\ \A p \in Requests \ {r} : req'[p] = req[p]
        BY <2>3 DEF RInv, RequestsTyped
      <3>4. /\ s \in RequestState /\ s.pc = "upstream" /\ s.last
            /\ s.calls = Append(q.calls, k) /\ s.cands = q.cands
            /\ s.attempts = q.attempts /\ s.retries = q.retries /\ s.unfit = q.unfit
            /\ s.kind = q.kind /\ s.cfg = q.cfg /\ s.wrote = q.wrote
            /\ s.result = q.result
        BY <1>1, <3>2 DEF Call, RequestState, PCs
      <3> HIDE DEF s
      <3>5. /\ CallsSound(q) => CallsSound(s)
            /\ Covered(q) => Covered(s)
        BY <1>1, <2>1, <3>1, <3>4, FallbackStep
      <3> QED BY <3>3, <3>5 DEF Keeps
    <2> QED BY <1>7, <2>2, <2>3 DEF TryFallback
  <1> QED BY <1>2, <1>3, <1>4, <1>5, <1>6, <1>7

(* The answers, what comes behind them, and the disconnection: they change    *)
(* neither the calls nor the candidates.                                      *)
LEMMA AnswerKeeps ==
    ASSUME RInv, NEW r \in Requests,
           Answer(r) \/ AfterFailure(r) \/ AfterSuccess(r) \/ ClientCancel(r)
    PROVE  Keeps(r)
  <1> USE DEF Results
  <1> DEFINE q == req[r]
  <1>1. q \in RequestState
    BY DEF RInv, RequestsTyped
  <1>2. ASSUME NEW pc \in PCs \ {"idle", "fallback", "done"}, NEW last \in BOOLEAN,
               NEW wrote \in SUBSET Keys, NEW canceled \in BOOLEAN,
               req' = [req EXCEPT ![r] = [q EXCEPT !.pc = pc, !.last = last,
                                            !.wrote = wrote, !.canceled = canceled]],
               q.pc \notin {"idle", "done"},
               q.last => last, pc = "loop" => ~last,
               last => q.last \/ q.kind.probe \/ wrote # {},
               q.wrote \subseteq wrote
        PROVE  Keeps(r)
    <2> DEFINE s == [q EXCEPT !.pc = pc, !.last = last, !.wrote = wrote,
                              !.canceled = canceled]
    <2>1. req'[r] = s /\ \A p \in Requests \ {r} : req'[p] = req[p]
      BY <1>2 DEF RInv, RequestsTyped
    <2>2. /\ s \in RequestState /\ s.pc = pc /\ s.last = last /\ s.wrote = wrote
          /\ s.calls = q.calls /\ s.cands = q.cands /\ s.unfit = q.unfit
          /\ s.attempts = q.attempts /\ s.retries = q.retries
          /\ s.kind = q.kind /\ s.cfg = q.cfg /\ s.result = q.result
      BY <1>1 DEF RequestState
    <2> HIDE DEF s
    <2>3. CallsSound(q) => CallsSound(s)
      BY <1>1, <1>2, <2>2 DEF CallsSound
    <2>4. Covered(q) => Covered(s)
      BY <1>1, <1>2, <2>2 DEF Covered
    <2> QED BY <2>1, <2>3, <2>4 DEF Keeps
  <1>3. q.last \in BOOLEAN /\ q.wrote \in SUBSET Keys /\ q.canceled \in BOOLEAN
    BY <1>1 DEF RequestState
  <1>4. q.pc = "upstream" => Current(r) \in Keys
    BY CurrentIsKey
  <1>5. ASSUME NEW latency \in Latencies, UpstreamAnswers(r, latency) PROVE Keeps(r)
    <2>1. q.pc = "upstream"
      BY <1>5 DEF UpstreamAnswers, Listening
    <2> DEFINE wrote == q.wrote \cup {Current(r)}
    <2>2. req' = [req EXCEPT ![r] = [q EXCEPT !.pc = "succeeded", !.last = q.last,
                     !.wrote = wrote, !.canceled = q.canceled]]
      BY <1>1, <1>5 DEF UpstreamAnswers, RInv, RequestsTyped, RequestState
    <2>3. wrote \in SUBSET Keys /\ q.wrote \subseteq wrote /\ wrote # {}
      BY <1>3, <1>4, <2>1
    <2>4. "succeeded" \in PCs \ {"idle", "fallback", "done"}
      BY DEF PCs
    <2> HIDE DEF wrote
    <2> QED BY <1>2, <1>3, <2>1, <2>2, <2>3, <2>4
  <1>6. CASE UpstreamIsEmpty(r)
    <2>1. q.pc = "upstream"
      BY <1>6 DEF UpstreamIsEmpty, Listening
    <2>2. CASE Return(r, "failed") /\ (q.last \/ q.kind.probe)
      BY <1>1, <2>1, <2>2, ReturnKeeps DEF Covered
    <2>3. CASE req' = [req EXCEPT ![r].pc = "loop"] /\ ~q.last
      <3>1. req' = [req EXCEPT ![r] = [q EXCEPT !.pc = "loop", !.last = q.last,
                       !.wrote = q.wrote, !.canceled = q.canceled]]
        BY <1>1, <2>3 DEF RInv, RequestsTyped, RequestState
      <3> QED BY <1>2, <1>3, <2>1, <2>3, <3>1 DEF PCs
    <2> QED BY <1>6, <2>2, <2>3 DEF UpstreamIsEmpty
  <1>7. ASSUME NEW code \in Codes, UpstreamFails(r, code) PROVE Keeps(r)
    <2>1. q.pc = "upstream"
      BY <1>7 DEF UpstreamFails, Listening
    <2> DEFINE last == q.last \/ q.kind.probe
    <2>2. last \in BOOLEAN /\ (q.last => last) /\ (last => q.last \/ q.kind.probe)
      OBVIOUS
    <2>3. req' = [req EXCEPT ![r].pc = "failed", ![r].last = last]
      BY <1>7 DEF UpstreamFails
    <2> HIDE DEF last
    <2>4. req' = [req EXCEPT ![r] = [q EXCEPT !.pc = "failed", !.last = last,
                     !.wrote = q.wrote, !.canceled = q.canceled]]
      BY <1>1, <2>2, <2>3 DEF RInv, RequestsTyped, RequestState
    <2>5. "failed" \in PCs \ {"idle", "fallback", "done"}
      BY DEF PCs
    <2> QED BY <1>2, <1>3, <2>1, <2>2, <2>4, <2>5
  <1>8. CASE StreamBreaks(r)
    <2>1. q.pc = "upstream"
      BY <1>8 DEF StreamBreaks, Listening
    <2> DEFINE wrote == q.wrote \cup {Current(r)}
    <2>2. req' = [req EXCEPT ![r] = [q EXCEPT !.pc = "failed", !.last = TRUE,
                     !.wrote = wrote, !.canceled = q.canceled]]
      BY <1>1, <1>8 DEF StreamBreaks, RInv, RequestsTyped, RequestState
    <2>3. wrote \in SUBSET Keys /\ q.wrote \subseteq wrote /\ wrote # {}
      BY <1>3, <1>4, <2>1
    <2>4. "failed" \in PCs \ {"idle", "fallback", "done"}
      BY DEF PCs
    <2> HIDE DEF wrote
    <2> QED BY <1>2, <1>3, <2>1, <2>2, <2>3, <2>4
  <1>9. CASE ClientWriteFails(r)
    <2> DEFINE s == [q EXCEPT !.pc = "done", !.result = "clientWrite",
                              !.wrote = @ \cup {Current(r)}]
    <2>1. q.pc = "upstream"
      BY <1>9 DEF ClientWriteFails, Listening
    <2>2. req'[r] = s /\ \A p \in Requests \ {r} : req'[p] = req[p]
      BY <1>9 DEF ClientWriteFails, RInv, RequestsTyped
    <2>3. /\ s \in RequestState /\ s.pc = "done" /\ s.result = "clientWrite"
          /\ s.wrote = q.wrote \cup {Current(r)}
          /\ s.calls = q.calls /\ s.cands = q.cands /\ s.unfit = q.unfit
          /\ s.attempts = q.attempts /\ s.retries = q.retries
          /\ s.kind = q.kind /\ s.cfg = q.cfg /\ s.last = q.last
      BY <1>1, <1>4, <2>1 DEF RequestState, PCs
    <2> HIDE DEF s
    <2>4. CallsSound(q) => CallsSound(s)
      BY <1>1, <2>1, <2>3 DEF CallsSound
    <2>5. Covered(q) => Covered(s)
      BY <1>1, <2>1, <2>3 DEF Covered
    <2> QED BY <2>2, <2>4, <2>5 DEF Keeps
  <1>10. CASE AfterFailure(r)
    <2>1. q.pc = "failed"
      BY <1>10 DEF AfterFailure
    <2>2. CASE Return(r, "failed") /\ q.last
      BY <1>1, <2>1, <2>2, ReturnKeeps DEF Covered
    <2>3. CASE req' = [req EXCEPT ![r].pc = "loop"] /\ ~q.last
      <3>1. req' = [req EXCEPT ![r] = [q EXCEPT !.pc = "loop", !.last = q.last,
                       !.wrote = q.wrote, !.canceled = q.canceled]]
        BY <1>1, <2>3 DEF RInv, RequestsTyped, RequestState
      <3> QED BY <1>2, <1>3, <2>1, <2>3, <3>1 DEF PCs
    <2> QED BY <1>10, <2>2, <2>3 DEF AfterFailure
  <1>11. CASE AfterSuccess(r)
    BY <1>11, ReturnKeeps DEF AfterSuccess
  <1>12. CASE ClientCancel(r)
    <2>1. q.pc \notin {"idle", "done"}
      BY <1>12 DEF ClientCancel
    <2> DEFINE s == [q EXCEPT !.canceled = TRUE]
    <2>2. req'[r] = s /\ \A p \in Requests \ {r} : req'[p] = req[p]
      BY <1>12 DEF ClientCancel, RInv, RequestsTyped
    <2>3. /\ s \in RequestState /\ s.pc = q.pc /\ s.result = q.result
          /\ s.wrote = q.wrote
          /\ s.calls = q.calls /\ s.cands = q.cands /\ s.unfit = q.unfit
          /\ s.attempts = q.attempts /\ s.retries = q.retries
          /\ s.kind = q.kind /\ s.cfg = q.cfg /\ s.last = q.last
      BY <1>1 DEF RequestState
    <2> HIDE DEF s
    <2>4. CallsSound(q) => CallsSound(s)
      BY <1>1, <2>3 DEF CallsSound
    <2>5. Covered(q) => Covered(s)
      BY <1>1, <2>3 DEF Covered
    <2> QED BY <2>2, <2>4, <2>5 DEF Keeps
  <1> QED BY <1>5, <1>6, <1>7, <1>8, <1>9, <1>10, <1>11, <1>12 DEF Answer

(* A request starts with candidates that are distinct. *)
LEMMA StartIsSound ==
    ASSUME RInv, ConfigsAreDistinct, NEW r \in Requests, Start(r)
    PROVE  /\ CallsSound(req[r]) => CallsSound(req'[r])
           /\ \A p \in Requests \ {r} : req'[p] = req[p]
  <1> USE DEF Results
  <1> DEFINE q == req[r]
             status == [k \in Keys |-> GetModelStatus(k)]
             latency == [k \in Keys |-> GetModelLatency(k)]
             u == {k \in Keys : GetModelStatus(k) = "BlockedFatal"}
  <1>1. q \in RequestState /\ q.pc = "idle" /\ q.cfg \in Configs
    BY DEF RInv, RequestsTyped, Start, RequestState
  <1>2. PICK cands \in GetCandidates(q.cfg, status, latency, lastModel,
                                     q.kind.provider, q.kind.model) :
          /\ cands \in Seq(Keys)
          /\ IF cands = << >>
             THEN Return(r, "failed")
             ELSE req' = [req EXCEPT ![r].pc = "loop", ![r].cands = cands,
                                     ![r].unfit = u]
    BY DEF Start
  <1>3. Distinct(cands)
    BY <1>1, <1>2, CandidatesAreSound DEF ConfigsAreDistinct
  <1> HIDE DEF u
  <1>4. CASE cands = << >>
    <2> DEFINE s == [q EXCEPT !.pc = "done", !.result = "failed"]
    <2>1. req'[r] = s /\ \A p \in Requests \ {r} : req'[p] = req[p]
      BY <1>2, <1>4 DEF Return, RInv, RequestsTyped
    <2>2. /\ s.pc = "done" /\ s.last = q.last /\ s.calls = q.calls /\ s.cands = q.cands
          /\ s.attempts = q.attempts /\ s.retries = q.retries
      BY <1>1 DEF RequestState
    <2> HIDE DEF s
    <2> QED BY <2>1, <2>2 DEF CallsSound
  <1>5. CASE cands # << >>
    <2> DEFINE s == [q EXCEPT !.pc = "loop", !.cands = cands, !.unfit = u]
    <2>1. req'[r] = s /\ \A p \in Requests \ {r} : req'[p] = req[p]
      BY <1>2, <1>5 DEF RInv, RequestsTyped
    <2>2. /\ s.pc = "loop" /\ s.last = q.last /\ s.calls = q.calls /\ s.cands = cands
          /\ s.attempts = q.attempts /\ s.retries = q.retries
      BY <1>1 DEF RequestState
    <2> HIDE DEF s
    <2>3. CallsSound(q) => q.calls = << >>
      <3>1. q.calls \in Seq(Keys)
        BY <1>1 DEF RequestState
      <3> QED BY <1>1, <3>1 DEF CallsSound
    <2> QED BY <1>1, <1>3, <2>1, <2>2, <2>3 DEF CallsSound
  <1> QED BY <1>4, <1>5

(* And with all that are fit, if it asks for any model. *)
LEMMA StartCovers ==
    ASSUME RInv, TypeOK, ConfigsAreDistinct, NEW r \in Requests, Start(r),
           Covered(req[r])
    PROVE  Covered(req'[r])
  <1> USE DEF Results
  <1> DEFINE q == req[r]
             status == [k \in Keys |-> GetModelStatus(k)]
             latency == [k \in Keys |-> GetModelLatency(k)]
             u == {k \in Keys : GetModelStatus(k) = "BlockedFatal"}
  <1>1. q \in RequestState /\ q.pc = "idle" /\ q.cfg \in Configs
    BY DEF RInv, RequestsTyped, Start, RequestState
  <1>2. PICK cands \in GetCandidates(q.cfg, status, latency, lastModel,
                                     q.kind.provider, q.kind.model) :
          /\ cands \in Seq(Keys)
          /\ IF cands = << >>
             THEN Return(r, "failed")
             ELSE req' = [req EXCEPT ![r].pc = "loop", ![r].cands = cands,
                                     ![r].unfit = u]
    BY DEF Start
  <1>3. status \in [Keys -> Statuses]
    <2> SUFFICES ASSUME NEW k \in Keys PROVE GetModelStatus(k) \in Statuses
      OBVIOUS
    <2>1. failures[k] # NoTrack => failures[k].status \in Statuses
      BY DEF TypeOK, Track
    <2> QED BY <2>1 DEF GetModelStatus, ModelStatus, Statuses
  <1>4. q.kind.provider = "auto" /\ q.kind.model = "auto" =>
          EnabledPairs(q.cfg) \cap Keys \subseteq Range(cands) \cup u
    <2> SUFFICES ASSUME q.kind.provider = "auto", q.kind.model = "auto",
                        NEW k \in EnabledPairs(q.cfg) \cap Keys
                 PROVE  k \in Range(cands) \/ status[k] = "BlockedFatal"
      OBVIOUS
    <2>1. cands \in GetCandidates(q.cfg, status, latency, lastModel, "auto", "auto")
      BY <1>2
    <2>2. status[k] \in Statuses
      BY <1>3
    <2> HIDE DEF status, latency
    <2>3. status[k] \in {"Active", "Degraded", "BlockedTemp"} => k \in Range(cands)
      BY <1>1, <2>1, CandidatesAreSound DEF ConfigsAreDistinct
    <2> QED BY <2>2, <2>3 DEF Statuses
  <1> HIDE DEF u
  <1>5. CASE cands = << >>
    <2> DEFINE s == [q EXCEPT !.pc = "done", !.result = "failed"]
    <2>1. req'[r] = s
      BY <1>2, <1>5 DEF Return, RInv, RequestsTyped
    <2>2. /\ s.pc = "done" /\ s.last = q.last /\ s.attempts = q.attempts
          /\ s.wrote = q.wrote /\ s.kind = q.kind
      BY <1>1 DEF RequestState
    <2> HIDE DEF s
    <2> QED BY <1>1, <2>1, <2>2 DEF Covered
  <1>6. CASE cands # << >>
    <2> DEFINE s == [q EXCEPT !.pc = "loop", !.cands = cands, !.unfit = u]
    <2>1. req'[r] = s
      BY <1>2, <1>6 DEF RInv, RequestsTyped
    <2>2. /\ s.pc = "loop" /\ s.last = q.last /\ s.attempts = q.attempts
          /\ s.wrote = q.wrote /\ s.kind = q.kind /\ s.cfg = q.cfg
          /\ s.cands = cands /\ s.unfit = u /\ s.result = q.result
      BY <1>1 DEF RequestState
    <2> HIDE DEF s
    <2> QED BY <1>1, <1>4, <2>1, <2>2 DEF Covered
  <1> QED BY <1>5, <1>6

CallsInv == \A r \in Requests : CallsSound(req[r])
CoverInv == \A r \in Requests : Covered(req[r])

(* No request has called a model at first. *)
LEMMA InitCallsInv == FailoverInit => CallsInv /\ CoverInv
  <1> SUFFICES ASSUME FailoverInit, NEW r \in Requests
               PROVE  CallsSound(req[r]) /\ Covered(req[r])
    BY DEF CallsInv, CoverInv
  <1>1. PICK asked \in [Requests -> Asks] :
          req = [p \in Requests |->
                  [pc |-> "idle", kind |-> asked[p].kind, cfg |-> asked[p].cfg,
                   retries |-> asked[p].retries,
                   cands |-> << >>,
                   attempts |-> 0, skipped |-> FALSE, last |-> FALSE,
                   canceled |-> FALSE, result |-> "none",
                   calls |-> << >>, wrote |-> {}, unfit |-> {}]]
    BY DEF FailoverInit
  <1>2. asked[r].retries \in Nat
    BY FailoverAssumption
  <1>3. /\ req[r].pc = "idle" /\ req[r].calls = << >> /\ req[r].cands = << >>
        /\ req[r].attempts = 0 /\ ~req[r].last /\ req[r].result = "none"
        /\ req[r].retries = asked[r].retries
    BY <1>1
  <1> QED BY <1>2, <1>3 DEF CallsSound, Covered, Distinct

(* Every step of every request, and of the others. *)
LEMMA NextCallsInv ==
    ASSUME RInv, [FailoverNext]_allVars, ConfigsAreDistinct, CallsInv
    PROVE  /\ CallsInv'
           /\ TypeOK /\ CoverInv => CoverInv'
  <1>1. ASSUME NEW r \in Requests,
               Advance(r) \/ Answer(r) \/ ClientCancel(r), req' # req
        PROVE  /\ CallsInv'
               /\ TypeOK /\ CoverInv => CoverInv'
    <2>1. CASE Start(r)
      <3>1. CallsInv'
        BY <2>1, StartIsSound DEF CallsInv
      <3>2. ASSUME TypeOK, CoverInv PROVE CoverInv'
        BY <2>1, <3>2, StartIsSound, StartCovers DEF CoverInv
      <3> QED BY <3>1, <3>2
    <2>2. CASE Keeps(r)
      BY <2>2 DEF Keeps, CallsInv, CoverInv
    <2> QED BY <1>1, <2>1, <2>2, LoopKeeps, AnswerKeeps DEF Advance
  <1>2. CASE UNCHANGED req
    BY <1>2 DEF CallsInv, CoverInv
  <1> QED BY <1>1, <1>2 DEF FailoverNext, ClearLastSuccessfulModel, Others, allVars

(* However the breaker changes under the order of its candidates, no request  *)
(* calls a model twice, makes more attempts than its configuration allows, or *)
(* goes to the fallback after one.                                            *)
THEOREM AttemptsStayBounded ==
    ASSUME ConfigsAreDistinct PROVE FailoverSpec => []AttemptsAreBounded
  <1>1. RInv /\ CallsInv /\ [FailoverNext]_allVars => CallsInv'
    BY NextCallsInv
  <1>2. RInv /\ CallsInv => AttemptsAreBounded
    <2> SUFFICES ASSUME RInv, CallsInv, NEW r \in Requests
                 PROVE  /\ Distinct(req[r].calls)
                        /\ Len(req[r].calls) <= Max({req[r].retries, 1})
                        /\ Len(req[r].calls)
                             = IF req[r].attempts = 0 /\ req[r].calls # << >>
                               THEN 1 ELSE req[r].attempts
      BY DEF AttemptsAreBounded, Distinct
    <2>1. /\ req[r].attempts \in Nat /\ req[r].retries \in Nat
          /\ req[r].calls \in Seq(Keys) /\ CallsSound(req[r])
      BY DEF RInv, RequestsTyped, RequestState, CallsInv
    <2>2. \A n \in Nat : Max({n, 1}) \in {n, 1} /\ Max({n, 1}) >= n /\ Max({n, 1}) >= 1
      <3> SUFFICES ASSUME NEW n \in Nat
                   PROVE  Max({n, 1}) \in {n, 1} /\ Max({n, 1}) >= n /\ Max({n, 1}) >= 1
        OBVIOUS
      <3>1. \E x \in {n, 1} : \A y \in {n, 1} : x >= y
        OBVIOUS
      <3> QED BY <3>1 DEF Max
    <2> DEFINE n == Len(req[r].calls)
               a == req[r].attempts
               b == req[r].retries
    <2>3. n \in Nat /\ (req[r].calls # << >> <=> n # 0)
      BY <2>1
    <2>4. (n = a \/ (a = 0 /\ n = 1)) /\ a <= b
      BY <2>1 DEF CallsSound
    <2>5. a \in Nat /\ b \in Nat /\ Max({b, 1}) >= b /\ Max({b, 1}) >= 1
          /\ Max({b, 1}) \in {b, 1}
      BY <2>1, <2>2
    <2>6. Distinct(req[r].calls)
      BY <2>1 DEF CallsSound
    <2> HIDE DEF n, a, b
    <2>7. n = IF a = 0 /\ n # 0 THEN 1 ELSE a
      BY <2>3, <2>4, <2>5
    <2>8. n <= Max({b, 1})
      <3> DEFINE M == Max({b, 1})
      <3>1. M \in Nat /\ M >= b /\ M >= 1
        BY <2>5
      <3> HIDE DEF M
      <3> QED BY <2>3, <2>4, <2>5, <3>1 DEF M
    <2> QED BY <2>3, <2>6, <2>7, <2>8 DEF n, a, b
  <1> QED BY <1>1, <1>2, InitCallsInv, RequestsInvariance, PTL DEF FailoverSpec

(* A request for any model that fails with attempts left has called every     *)
(* usable model it did not find unfit.                                        *)
THEOREM FailuresAreExhausted ==
    ASSUME Horizon, ConfigsAreDistinct
    PROVE  FailoverSpec => []FailsOnlyIfExhausted
  <1>1. RInv /\ TypeOK /\ CallsInv /\ CoverInv /\ [FailoverNext]_allVars
          => CallsInv' /\ CoverInv'
    BY NextCallsInv
  <1>2. RInv /\ CoverInv => FailsOnlyIfExhausted
    <2> SUFFICES ASSUME RInv, CoverInv, NEW r \in Requests,
                        req[r].result = "failed", req[r].wrote = {},
                        req[r].attempts \in 1 .. req[r].retries - 1,
                        ~req[r].kind.probe,
                        req[r].kind.provider = "auto", req[r].kind.model = "auto",
                        NEW i \in DOMAIN req[r].cfg, req[r].cfg[i].enabled,
                        NEW m \in Range(req[r].cfg[i].models)
                 PROVE  <<req[r].cfg[i].name, m>> \in Range(req[r].calls) \cup req[r].unfit
      BY DEF FailsOnlyIfExhausted
    <2> DEFINE k == <<req[r].cfg[i].name, m>>
    <2>1. req[r].cands = << >> /\ req[r].attempts # 0 /\ Covered(req[r])
      BY DEF CoverInv, Covered
    <2>2. k \in EnabledPairs(req[r].cfg) /\ k \in Pairs(req[r].cfg)
      BY DEF EnabledPairs, Enabled, Pairs, PairsOf, Range
    <2>3. k \in Keys
      BY <2>2, FailoverAssumption DEF RInv, RequestsTyped, RequestState
    <2>4. k \in Range(req[r].calls) \cup Range(req[r].cands) \cup req[r].unfit
      BY <2>1, <2>2, <2>3 DEF Covered
    <2> QED BY <2>1, <2>4 DEF Range
  <1>3. FailoverSpec => []TypeOK
    BY RequestsImplementTracker, TypeCorrect, PTL DEF TrackerSpec
  <1> QED BY <1>1, <1>2, <1>3, InitCallsInv, RequestsInvariance, PTL DEF FailoverSpec
=============================================================================
