------------------------------ MODULE Failover ------------------------------
(* Proxy, Stream and their fallbacks (proxy/proxy.go): what a request does    *)
(* between its selection of candidates and its answer, over the circuit       *)
(* breaker of FailureTracker that all requests share.  A request is a caller  *)
(* of the tracker; the other callers stand for the rest of the traffic (other *)
(* requests, the warm-up), of which only the recorded outcomes matter here.   *)
EXTENDS FailureTracker, Selector

CONSTANTS
    Requests,       \* the requests modelled step by step
    Background,     \* the callers that stand for other traffic
    Asks,           \* what may be asked, and the configuration it meets:
                    \* its providers and its max_retries
    NoModel         \* no last successful model yet

(* stream: Stream, otherwise Proxy.  probe: the test handler.  warmup: the    *)
(* warm-up manager, or a client that says so.  provider, model: a name or     *)
(* "auto".                                                                    *)
Kind == [stream : BOOLEAN, probe : BOOLEAN, warmup : BOOLEAN,
         provider : STRING, model : STRING]

(* cfg: a sequence of providers. *)
Kinds   == {ask.kind : ask \in Asks}
Configs == {ask.cfg : ask \in Asks}

(* No configuration lists a provider or a model twice; a theorem that needs   *)
(* it says so.                                                                *)
ConfigsAreDistinct == \A cfg \in Configs : IsConfig(cfg) /\ NamesAreDistinct(cfg)

ASSUME FailoverAssumption ==
    /\ Callers = Requests \cup Background
    /\ \A cfg \in Configs : Pairs(cfg) \subseteq Keys
    /\ \A k \in Keys : ProviderOf[k] = k[1]
    /\ \A ask \in Asks : ask.retries \in Nat
    /\ NoModel \notin Keys
    /\ 200 \in Codes                    \* of a stream that breaks
    /\ Kinds \subseteq Kind

VARIABLES
    req,            \* the state of each request
    lastModel       \* lastSuccessfulModel

allVars == <<vars, req, lastModel>>

PCs == {"idle", "loop", "upstream", "fallback", "failed", "succeeded", "done"}

Results == {"none", "answered", "failed", "canceled", "clientWrite"}

(* cfg, retries: of the configuration that was current when it started, which *)
(* it keeps; an update may come between any two of its steps and concerns the *)
(* requests that start later.  cands: the candidates still to be tried.  The  *)
(* last three are histories: the models called, those that wrote to the       *)
(* client (or whose completion is returned to the handler), and those found   *)
(* unfit: blocked for good when the candidates were chosen, or skipped later. *)
RequestState ==
    [pc       : PCs,
     kind     : Kinds,
     cfg      : Configs,
     retries  : Nat,
     cands    : Seq(Keys),
     attempts : Nat,
     skipped  : BOOLEAN,        \* skippedCount > 0
     last     : BOOLEAN,        \* no candidate is tried after this one
     canceled : BOOLEAN,        \* ctx.Err() == context.Canceled
     result   : Results,
     calls    : Seq(Keys),
     wrote    : SUBSET Keys,
     unfit    : SUBSET Keys]

FailoverTypeOK ==
    /\ TypeOK
    /\ req \in [Requests -> RequestState]
    /\ lastModel \in Keys \cup {NoModel}

FailoverInit ==
    /\ Init
    /\ \E asked \in [Requests -> Asks] :
         req = [r \in Requests |->
                  [pc |-> "idle", kind |-> asked[r].kind, cfg |-> asked[r].cfg,
                   retries |-> asked[r].retries, cands |-> << >>,
                   attempts |-> 0, skipped |-> FALSE, last |-> FALSE,
                   canceled |-> FALSE, result |-> "none",
                   calls |-> << >>, wrote |-> {}, unfit |-> {}]]
    /\ lastModel = NoModel

-----------------------------------------------------------------------------
Configured(cfg, k) == \E i \in DOMAIN cfg : cfg[i].name = k[1]

Limited(cfg, k) == \E i \in DOMAIN cfg : cfg[i].name = k[1] /\ cfg[i].limited

(* shouldSkipProvider, of the next candidate. *)
ShouldSkip(r) ==
    LET k == Head(req[r].cands)
    IN  GetModelStatus(k) = "BlockedFatal" \/ Limited(req[r].cfg, k)

(* The model a request is talking to. *)
Current(r) == Last(req[r].calls)

Return(r, result) ==
    req' = [req EXCEPT ![r].pc = "done", ![r].result = result]

Call(r, k) ==
    [req[r] EXCEPT !.pc = "upstream", !.calls = Append(@, k)]

(* getCandidates, whose results are sequences of keys.  The breaker is read   *)
(* at one instant; the code reads one model after the other.                  *)
Start(r) ==
    /\ req[r].pc = "idle"
    /\ \E cands \in GetCandidates(req[r].cfg,
                                  [k \in Keys |-> GetModelStatus(k)],
                                  [k \in Keys |-> GetModelLatency(k)],
                                  lastModel,
                                  req[r].kind.provider, req[r].kind.model) :
         /\ cands \in Seq(Keys)
         /\ IF cands = << >>
            THEN Return(r, "failed")
            ELSE req' = [req EXCEPT
                           ![r].pc = "loop", ![r].cands = cands,
                           ![r].unfit = {k \in Keys : GetModelStatus(k) = "BlockedFatal"}]
    /\ UNCHANGED <<vars, lastModel>>

(* The client of a request disconnects; the warm-up, which asks for one model *)
(* and is no probe, has none, but a client may also call its request one.     *)
ClientCancel(r) ==
    /\ req[r].pc \notin {"idle", "done"}
    /\ ~req[r].canceled
    /\ req' = [req EXCEPT ![r].canceled = TRUE]
    /\ UNCHANGED <<vars, lastModel>>

(* One turn of the loop, up to the call of the upstream. *)
CanceledInLoop(r) ==
    /\ req[r].pc = "loop"
    /\ req[r].cands # << >>
    /\ req[r].canceled
    /\ Return(r, "canceled")
    /\ UNCHANGED <<vars, lastModel>>

(* A faulty variant: the candidate that is skipped stays the next one. *)
SkipCandidateAgain(r) ==
    /\ req[r].pc = "loop"
    /\ req[r].cands # << >>
    /\ ~req[r].canceled
    /\ ShouldSkip(r)
    /\ req' = [req EXCEPT ![r].skipped = TRUE]
    /\ UNCHANGED <<vars, lastModel>>

SkipCandidate(r) ==
    /\ req[r].pc = "loop"
    /\ req[r].cands # << >>
    /\ ~req[r].canceled
    /\ ShouldSkip(r)
    /\ req' = [req EXCEPT ![r].cands = Tail(@), ![r].skipped = TRUE,
                          ![r].unfit = @ \cup {Head(req[r].cands)}]
    /\ UNCHANGED <<vars, lastModel>>

(* A faulty variant: max_retries is not looked at. *)
TryCandidateForever(r) ==
    /\ req[r].pc = "loop"
    /\ req[r].cands # << >>
    /\ ~req[r].canceled
    /\ ~ShouldSkip(r)
    /\ req' = [req EXCEPT ![r] =
                 [Call(r, Head(req[r].cands)) EXCEPT
                     !.cands = Tail(@),
                     !.attempts = @ + 1]]
    /\ UNCHANGED <<vars, lastModel>>

TryCandidate(r) ==
    /\ req[r].pc = "loop"
    /\ req[r].cands # << >>
    /\ ~req[r].canceled
    /\ ~ShouldSkip(r)
    /\ req[r].attempts < req[r].retries
    /\ req' = [req EXCEPT ![r] =
                 [Call(r, Head(req[r].cands)) EXCEPT
                     !.cands = Tail(@),
                     !.attempts = @ + 1]]
    /\ UNCHANGED <<vars, lastModel>>

(* Behind the loop: the fallback if every candidate was skipped. *)
LeaveLoop(r) ==
    /\ req[r].pc = "loop"
    /\ \/ req[r].cands = << >>
       \/ /\ req[r].cands # << >>
          /\ ~req[r].canceled
          /\ ~ShouldSkip(r)
          /\ req[r].attempts >= req[r].retries
    /\ IF req[r].attempts = 0 /\ req[r].skipped
       THEN req' = [req EXCEPT ![r].pc = "fallback"]
       ELSE Return(r, "failed")
    /\ UNCHANGED <<vars, lastModel>>

(* tryFallbackModel and tryFallbackStreamModel. *)
TryFallback(r) ==
    /\ req[r].pc = "fallback"
    /\ \/ /\ NoFallback
          /\ Return(r, "failed")
       \/ \E k \in FallbackChoices :
            IF Configured(req[r].cfg, k)
            THEN req' = [req EXCEPT ![r] = [Call(r, k) EXCEPT !.last = TRUE]]
            ELSE Return(r, "failed")
    /\ UNCHANGED <<vars, lastModel>>

-----------------------------------------------------------------------------
(* The answers of the upstream.  In the loop a request whose client is gone   *)
(* returns whatever the answer; the fallbacks do not ask.                     *)
InFallback(r) == req[r].attempts = 0

Listening(r) ==
    /\ req[r].pc = "upstream"
    /\ req[r].canceled => InFallback(r)

CanceledUpstream(r) ==
    /\ req[r].pc = "upstream"
    /\ req[r].canceled
    /\ ~InFallback(r)
    /\ Return(r, "canceled")
    /\ UNCHANGED <<vars, lastModel>>

(* A completion: for a stream, it has been written to the client. *)
UpstreamAnswers(r, latency) ==
    /\ Listening(r)
    /\ RecordSuccess(r, Current(r), latency)
    /\ req' = [req EXCEPT ![r].pc = "succeeded",
                          ![r].wrote = @ \cup {Current(r)}]
    /\ UNCHANGED lastModel

(* A faulty variant: an empty completion is the end of the request. *)
UpstreamIsEmptyGivesUp(r) ==
    /\ Listening(r)
    /\ Return(r, "failed")
    /\ UNCHANGED <<vars, lastModel>>

(* An empty completion says nothing about the health of the model. *)
UpstreamIsEmpty(r) ==
    /\ Listening(r)
    /\ IF req[r].last \/ req[r].kind.probe
       THEN Return(r, "failed")
       ELSE req' = [req EXCEPT ![r].pc = "loop"]
    /\ UNCHANGED <<vars, lastModel>>

(* An error answer, a timeout or a network error (code 0), or a body that     *)
(* cannot be read (code 200): one of the last two when it is the disconnection*)
(* of the client that aborts the call.                                        *)
UpstreamFails(r, code) ==
    /\ Listening(r)
    /\ req[r].canceled => code \in {0, 200}
    /\ RecordFailure(r, Current(r), code)
    /\ req' = [req EXCEPT ![r].pc = "failed", ![r].last = @ \/ req[r].kind.probe]
    /\ UNCHANGED lastModel

(* A faulty variant: the failover goes on behind the lines of the first one. *)
StreamBreaksAndFailsOver(r) ==
    /\ req[r].kind.stream
    /\ Listening(r)
    /\ RecordFailure(r, Current(r), 200)
    /\ req' = [req EXCEPT ![r].pc = "failed",
                          ![r].wrote = @ \cup {Current(r)}]
    /\ UNCHANGED lastModel

(* A stream that breaks after its first line has reached the client: the code *)
(* is that of the answer, 200, and there is no failover any more.             *)
StreamBreaks(r) ==
    /\ req[r].kind.stream
    /\ Listening(r)
    /\ RecordFailure(r, Current(r), 200)
    /\ req' = [req EXCEPT ![r].pc = "failed", ![r].last = TRUE,
                          ![r].wrote = @ \cup {Current(r)}]
    /\ UNCHANGED lastModel

(* A write to the client fails before its context is canceled: what was       *)
(* written before counts as written.                                          *)
ClientWriteFails(r) ==
    /\ req[r].kind.stream
    /\ Listening(r)
    /\ req' = [req EXCEPT ![r].pc = "done", ![r].result = "clientWrite",
                          ![r].wrote = @ \cup {Current(r)}]
    /\ UNCHANGED <<vars, lastModel>>

(* RecordFailure has returned. *)
AfterFailure(r) ==
    /\ req[r].pc = "failed"
    /\ caller[r].pc = "idle"
    /\ IF req[r].last
       THEN Return(r, "failed")
       ELSE req' = [req EXCEPT ![r].pc = "loop"]
    /\ UNCHANGED <<vars, lastModel>>

(* RecordSuccess has returned: SetLastSuccessfulModel, but not for a warm-up; *)
(* the loop of Stream does not ask.                                           *)
KeepsLastModel(r) == req[r].kind.warmup /\ (req[r].kind.stream => InFallback(r))

AfterSuccess(r) ==
    /\ req[r].pc = "succeeded"
    /\ caller[r].pc = "idle"
    /\ lastModel' = IF KeepsLastModel(r) THEN lastModel ELSE Current(r)
    /\ Return(r, "answered")
    /\ UNCHANGED vars

(* A faulty variant: the record of the model goes with it. *)
ClearLastSuccessfulModelAndTrack ==
    /\ lastModel' = NoModel
    /\ failures' = [k \in Keys |-> IF k = lastModel THEN NoTrack ELSE failures[k]]
    /\ UNCHANGED <<providerFailures, settings, now, caller, StatusEvents, req>>

(* The first half of what a configuration update resets; the second is        *)
(* ResetAllFailures.                                                          *)
ClearLastSuccessfulModel ==
    /\ lastModel' = NoModel
    /\ UNCHANGED <<vars, req>>

-----------------------------------------------------------------------------
Recorder(r) == ResumeRecordFailure(r) \/ EmitStatusChange(r)

(* The steps a request takes by itself. *)
Advance(r) ==
    \/ Start(r)
    \/ CanceledInLoop(r)
    \/ SkipCandidate(r)
    \/ TryCandidate(r)
    \/ LeaveLoop(r)
    \/ TryFallback(r)
    \/ CanceledUpstream(r)
    \/ AfterFailure(r)
    \/ AfterSuccess(r)
    \/ Recorder(r) /\ UNCHANGED <<req, lastModel>>

Answer(r) ==
    \/ \E latency \in Latencies : UpstreamAnswers(r, latency)
    \/ UpstreamIsEmpty(r)
    \/ \E code \in Codes : UpstreamFails(r, code)
    \/ StreamBreaks(r)
    \/ ClientWriteFails(r)

(* The rest of the traffic; the last successful model it sets or clears is    *)
(* that of some request not modelled.                                         *)
Record(c) ==
    \/ \E k \in Keys, code \in Codes : RecordFailure(c, k, code)
    \/ \E k \in Keys, latency \in Latencies : RecordSuccess(c, k, latency)
    \/ Recorder(c)

Others ==
    /\ \/ \E c \in Background : Record(c)
       \/ ReceiveStatusEvent
       \/ CleanupOldEntries
       \/ ResetAllFailures
       \/ Tick
    /\ UNCHANGED <<req, lastModel>>

FailoverNext ==
    \/ \E r \in Requests : Advance(r) \/ Answer(r) \/ ClientCancel(r)
    \/ ClearLastSuccessfulModel
    \/ Others

FailoverSpec == FailoverInit /\ [][FailoverNext]_allVars

(* A request goes on by itself.  The upstream of a request that is not a      *)
(* stream answers or runs into its timeout; an open stream has no deadline,   *)
(* but an upstream that closes it or a client that leaves ends it.            *)
FailoverFairness ==
    \A r \in Requests :
        /\ WF_allVars(Advance(r))
        /\ WF_allVars(~req[r].kind.stream /\ Answer(r))

FairFailoverSpec == FailoverSpec /\ FailoverFairness

-----------------------------------------------------------------------------
(* The breaker as it was specified on its own: whatever requests do to it, it *)
(* takes only steps of FailureTracker, so that everything that module's       *)
(* properties say holds below every request.                                  *)
TrackerSpec == Spec

(* A request calls no model twice, however the breaker changes under the      *)
(* order of candidates it has chosen, makes at most max_retries attempts, and *)
(* goes to the fallback only if it has made none.                             *)
AttemptsAreBounded ==
    \A r \in Requests :
        /\ \A i, j \in DOMAIN req[r].calls : req[r].calls[i] = req[r].calls[j] => i = j
        /\ Len(req[r].calls) <= Max({req[r].retries, 1})
        /\ Len(req[r].calls) = IF req[r].attempts = 0 /\ req[r].calls # << >>
                               THEN 1 ELSE req[r].attempts

(* "If data was already written to the client, we CANNOT failover": at most   *)
(* one model writes to the client of a request, it is the last one called,    *)
(* and a request that ends without an answer other than by the loss of its    *)
(* client or of its stream has written nothing.                               *)
OneWriter ==
    \A r \in Requests :
        /\ req[r].wrote # {} => req[r].wrote = {Current(r)}
        /\ req[r].wrote # {} => req[r].pc \in {"failed", "succeeded", "done"}
        /\ req[r].pc = "failed" /\ req[r].wrote # {} => req[r].last

(* A request for any model that fails, with attempts left and its client      *)
(* still there, has called every model of an enabled provider that was not    *)
(* rate limited or blocked for good when it looked.                           *)
FailsOnlyIfExhausted ==
    \A r \in Requests :
        /\ req[r].result = "failed"
        /\ req[r].wrote = {}
        /\ req[r].attempts \in 1 .. req[r].retries - 1
        /\ ~req[r].kind.probe
        /\ req[r].kind.provider = "auto" /\ req[r].kind.model = "auto"
        => \A i \in DOMAIN req[r].cfg :
             LET provider == req[r].cfg[i]
             IN  provider.enabled =>
                   \A m \in Range(provider.models) :
                     <<provider.name, m>> \in Range(req[r].calls) \cup req[r].unfit

(* Every request that is not a stream ends, however often it fails over.      *)
RequestEnds ==
    \A r \in Requests : req[r].pc # "idle" /\ ~req[r].kind.stream ~> req[r].pc = "done"
=============================================================================
