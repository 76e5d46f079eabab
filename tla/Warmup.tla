------------------------------- MODULE Warmup -------------------------------
(* The warm-up manager (proxy/warmup.go): a loop that keeps the two best      *)
(* models warm, its debounce timers, and the goroutines of the timers that    *)
(* have fired.  Which models are the best two is decided elsewhere (Selector  *)
(* over the breaker) and changes at any time, with a status event or without  *)
(* one: when time or a latency changes the order, or the configuration does.  *)
EXTENDS Naturals, SequencesExt

CONSTANTS
    Models,
    EventCap        \* of StatusEvents: 100

ASSUME WarmupAssumption == EventCap \in Nat \ {0}

VARIABLES
    enabled,        \* warmup_enabled of the configuration
    top,            \* what getTop2 would return
    unsent,         \* a change is made, its event is not yet put on the channel
    events,         \* how many StatusEvents holds
    loop,           \* Start: where it is, and the models it has still to warm
    tick,           \* ticker.C holds a tick
    lastTop2,
    armed,          \* the timers of debounceTimers that have not fired
    fired,          \* goroutines of timers, before sendWarmupRequest
    inFlight,
    sending,        \* history: who is in ProxyFunc, and for which model
    canceled,       \* of appCtx (Stop, which nobody calls, has the same effect)
    missed          \* history: a change had no event, or one that was ignored

vars == <<enabled, top, unsent, events, loop, tick, lastTop2, armed, fired,
          inFlight, sending, canceled, missed>>

others == <<enabled, top, unsent, canceled>>
senders == <<inFlight, sending>>

Senders == {"loop", "timer"}

Top2 == {s \in UNION {[1 .. n -> Models] : n \in 0 .. 2} : IsInjective(s)}

TypeOK ==
    /\ enabled \in BOOLEAN /\ unsent \in BOOLEAN /\ tick \in BOOLEAN
    /\ canceled \in BOOLEAN /\ missed \in BOOLEAN
    /\ top \in Top2
    /\ events \in 0 .. EventCap
    /\ loop \in [pc : {"start", "initial", "select", "periodic", "stopped"},
                 queue : Seq(Models)]
    /\ lastTop2 \in SUBSET Models
    /\ armed \in SUBSET Models
    /\ fired \in SUBSET Models
    /\ inFlight \in SUBSET Models
    /\ sending \in SUBSET (Senders \X Models)

Init ==
    /\ enabled \in BOOLEAN
    /\ top \in Top2
    /\ unsent = FALSE
    /\ events = 0
    /\ loop = [pc |-> "start", queue |-> << >>]
    /\ tick = FALSE
    /\ lastTop2 = {}
    /\ armed = {}
    /\ fired = {}
    /\ inFlight = {}
    /\ sending = {}
    /\ canceled = FALSE
    /\ missed = FALSE

-----------------------------------------------------------------------------
(* What goes on around the manager.  ChangeTop may leave the order as it was: *)
(* most status changes do.                                                    *)
ChangeTop ==
    /\ top' \in Top2
    /\ unsent' = TRUE
    /\ UNCHANGED <<enabled, events, loop, tick, lastTop2, armed, fired, senders,
                   canceled, missed>>

ChangeTopSilently ==
    /\ top' \in Top2
    /\ missed' = TRUE
    /\ UNCHANGED <<enabled, unsent, events, loop, tick, lastTop2, armed, fired,
                   senders, canceled>>

(* emitStatusChange does not wait for room in the channel. *)
EmitStatusChange ==
    /\ unsent
    /\ unsent' = FALSE
    /\ events' = IF events < EventCap THEN events + 1 ELSE events
    /\ UNCHANGED <<enabled, top, loop, tick, lastTop2, armed, fired, senders,
                   canceled, missed>>

SwitchWarmup ==
    /\ enabled' = ~enabled
    /\ UNCHANGED <<top, unsent, events, loop, tick, lastTop2, armed, fired, senders,
                   canceled, missed>>

Cancel ==
    /\ ~canceled
    /\ canceled' = TRUE
    /\ UNCHANGED <<enabled, top, unsent, events, loop, tick, lastTop2, armed, fired,
                   senders, missed>>

-----------------------------------------------------------------------------
(* sendWarmupRequest, in the two critical sections of wm.mu; between them the *)
(* request is with the proxy, for at most ten seconds.                        *)

(* A faulty variant: a request for the model may be out already. *)
BeginWarmupAnyway(g, m) ==
    /\ inFlight' = inFlight \cup {m}
    /\ sending' = sending \cup {<<g, m>>}

BeginWarmup(g, m) ==
    IF m \in inFlight
    THEN UNCHANGED senders
    ELSE /\ inFlight' = inFlight \cup {m}
         /\ sending' = sending \cup {<<g, m>>}

EndWarmup(g, m) ==
    /\ <<g, m>> \in sending
    /\ inFlight' = inFlight \ {m}
    /\ sending' = sending \ {<<g, m>>}

-----------------------------------------------------------------------------
(* The loop. *)
IsWarming == loop.pc \in {"initial", "periodic"}

Start ==
    /\ loop.pc = "start"
    /\ IF enabled
       THEN /\ loop' = [pc |-> "initial", queue |-> top]
            /\ lastTop2' = Range(top)
            /\ missed' = FALSE
       ELSE /\ loop' = [pc |-> "stopped", queue |-> << >>]
            /\ UNCHANGED <<lastTop2, missed>>
    /\ UNCHANGED <<others, events, tick, armed, fired, senders>>

(* One model after the other, each in its turn: *)
WarmNext ==
    /\ IsWarming
    /\ loop.queue # << >>
    /\ ~\E m \in Models : <<"loop", m>> \in sending
    /\ BeginWarmup("loop", Head(loop.queue))
    /\ loop' = IF Head(loop.queue) \in inFlight
               THEN [loop EXCEPT !.queue = Tail(@)] ELSE loop
    /\ UNCHANGED <<others, events, tick, lastTop2, armed, fired, missed>>

LoopAnswered ==
    /\ IsWarming
    /\ loop.queue # << >>
    /\ EndWarmup("loop", Head(loop.queue))
    /\ loop' = [loop EXCEPT !.queue = Tail(@)]
    /\ UNCHANGED <<others, events, tick, lastTop2, armed, fired, missed>>

RoundIsOver ==
    /\ IsWarming
    /\ loop.queue = << >>
    /\ loop' = [loop EXCEPT !.pc = "select"]
    /\ UNCHANGED <<others, events, tick, lastTop2, armed, fired, senders, missed>>

(* Faulty variants: the order is remembered only if it has a new model; the   *)
(* timers of models that have left are forgotten, not stopped.                *)
HandleStatusChangeIfNew ==
    /\ loop.pc = "select"
    /\ events > 0
    /\ events' = events - 1
    /\ IF enabled
       THEN /\ armed' = (armed \cup (Range(top) \ lastTop2)) \cap Range(top)
            /\ lastTop2' = IF Range(top) \subseteq lastTop2 THEN lastTop2 ELSE Range(top)
            /\ missed' = FALSE
       ELSE /\ UNCHANGED <<armed, lastTop2>>
            /\ missed' = TRUE
    /\ UNCHANGED <<others, loop, tick, fired, senders>>

HandleStatusChangeForgets ==
    /\ loop.pc = "select"
    /\ events > 0
    /\ events' = events - 1
    /\ IF enabled
       THEN /\ armed' = armed \cup (Range(top) \ lastTop2)
            /\ lastTop2' = Range(top)
            /\ missed' = FALSE
       ELSE /\ UNCHANGED <<armed, lastTop2>>
            /\ missed' = TRUE
    /\ UNCHANGED <<others, loop, tick, fired, senders>>

(* A new model gets a timer, in place of one it may have; a model that has    *)
(* left loses it.  With the warm-up switched off the event is only taken.     *)
HandleStatusChange ==
    /\ loop.pc = "select"
    /\ events > 0
    /\ events' = events - 1
    /\ IF enabled
       THEN /\ armed' = (armed \cup (Range(top) \ lastTop2)) \cap Range(top)
            /\ lastTop2' = Range(top)
            /\ missed' = FALSE
       ELSE /\ UNCHANGED <<armed, lastTop2>>
            /\ missed' = TRUE
    /\ UNCHANGED <<others, loop, tick, fired, senders>>

(* The ticker drops a tick that finds the last one still there. *)
Tick ==
    /\ loop.pc \in {"select", "periodic"}
    /\ ~tick
    /\ tick' = TRUE
    /\ UNCHANGED <<others, events, loop, lastTop2, armed, fired, senders, missed>>

(* A faulty variant: it warms what the last status event has left. *)
HandlePeriodicWarmupOfLast ==
    /\ loop.pc = "select"
    /\ tick
    /\ tick' = FALSE
    /\ loop' = IF enabled
               THEN [pc |-> "periodic",
                     queue |-> SelectSeq(top, LAMBDA m : m \in lastTop2)]
               ELSE loop
    /\ UNCHANGED <<others, events, lastTop2, armed, fired, senders, missed>>

HandlePeriodicWarmup ==
    /\ loop.pc = "select"
    /\ tick
    /\ tick' = FALSE
    /\ loop' = IF enabled THEN [pc |-> "periodic", queue |-> top] ELSE loop
    /\ UNCHANGED <<others, events, lastTop2, armed, fired, senders, missed>>

(* A faulty variant: the loop goes by when there is nothing else to do. *)
StopWhenIdle ==
    /\ loop.pc = "select"
    /\ canceled /\ ~tick /\ events = 0 /\ armed = {}
    /\ loop' = [loop EXCEPT !.pc = "stopped"]
    /\ UNCHANGED <<others, events, tick, lastTop2, armed, fired, senders, missed>>

(* The loop returns; its timers go on. *)
Stop ==
    /\ loop.pc = "select"
    /\ canceled
    /\ loop' = [loop EXCEPT !.pc = "stopped"]
    /\ UNCHANGED <<others, events, tick, lastTop2, armed, fired, senders, missed>>

-----------------------------------------------------------------------------
(* The timers.  (Bound: one goroutine of a model's timers waits at a time.)   *)
Fire(m) ==
    /\ m \in armed
    /\ m \notin fired
    /\ armed' = armed \ {m}
    /\ fired' = fired \cup {m}
    /\ UNCHANGED <<others, events, loop, tick, lastTop2, senders, missed>>

TimerWarms(m) ==
    /\ m \in fired
    /\ fired' = fired \ {m}
    /\ BeginWarmup("timer", m)
    /\ UNCHANGED <<others, events, loop, tick, lastTop2, armed, missed>>

TimerAnswered(m) ==
    /\ EndWarmup("timer", m)
    /\ UNCHANGED <<others, events, loop, tick, lastTop2, armed, fired, missed>>

-----------------------------------------------------------------------------
LoopStep == Start \/ WarmNext \/ LoopAnswered \/ RoundIsOver

Next ==
    \/ ChangeTop
    \/ ChangeTopSilently
    \/ EmitStatusChange
    \/ SwitchWarmup
    \/ Cancel
    \/ LoopStep
    \/ HandleStatusChange
    \/ HandlePeriodicWarmup
    \/ Tick
    \/ Stop
    \/ \E m \in Models : Fire(m) \/ TimerWarms(m) \/ TimerAnswered(m)

Spec == Init /\ [][Next]_vars

(* The goroutines are scheduled, the ticker ticks, a request is answered or   *)
(* runs into its timeout.  A select with several cases ready takes any of     *)
(* them at random, so that none is passed over for ever.                      *)
Fairness ==
    /\ WF_vars(LoopStep)
    /\ WF_vars(Tick)
    /\ SF_vars(HandlePeriodicWarmup)
    /\ SF_vars(Stop)
    /\ \A m \in Models : WF_vars(TimerAnswered(m))

FairSpec == Spec /\ Fairness

-----------------------------------------------------------------------------
(* However timers and the loop meet, a model is asked by one of them at a     *)
(* time, and what inFlight holds is exactly what is out: a model left in it   *)
(* would never be warmed again.                                               *)
OneWarmupPerModel ==
    /\ inFlight = {m \in Models : \E g \in Senders : <<g, m>> \in sending}
    /\ \A m \in Models, g, h \in Senders :
         <<g, m>> \in sending /\ <<h, m>> \in sending => g = h

(* A timer that runs is one of a model that was among the best two when the   *)
(* loop looked last.                                                          *)
TimersAreOfTopTwo == armed \subseteq lastTop2

(* Events that find the channel full are dropped, and many changes may come   *)
(* while the loop waits for a request: still, once no event is left, the loop *)
(* knows the best two, unless they changed without an event or it was told    *)
(* while the warm-up was switched off.                                        *)
NoChangeIsMissed ==
    loop.pc = "select" /\ events = 0 /\ ~unsent /\ ~missed => lastTop2 = Range(top)

(* A model that stays among the best two is warmed again and again, also if   *)
(* no event ever told the loop about it.                                      *)
TopStaysWarm ==
    \A m \in Models :
        <>[](enabled /\ m \in Range(top) /\ ~canceled /\ loop.pc # "stopped")
          => []<>(m \in inFlight) /\ []<>(m \notin inFlight)

(* The loop ends with the program, whatever else its select has ready.        *)
LoopStops == canceled ~> loop.pc = "stopped"
=============================================================================
