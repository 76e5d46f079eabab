---------------------------- MODULE WarmupProofs ----------------------------
(* Proofs about Warmup, for any models and any capacity of the channel. *)
EXTENDS Warmup, TLAPS

(* What the loop knows and what it has armed, also while it warms. *)
LoopInv ==
    /\ loop.pc = "start" => armed = {}
    /\ armed \subseteq lastTop2
    /\ loop.pc \in {"initial", "select", "periodic"} =>
         (events = 0 /\ ~unsent /\ ~missed => lastTop2 = Range(top))

WarmupInv == TypeOK /\ OneWarmupPerModel /\ LoopInv

(* An order of models is a sequence of them. *)
LEMMA Top2IsSeq == \A s \in Top2 : s \in Seq(Models) /\ Range(s) \subseteq Models
  <1> SUFFICES ASSUME NEW s \in Top2 PROVE s \in Seq(Models) /\ Range(s) \subseteq Models
    OBVIOUS
  <1>1. PICK n \in 0 .. 2 : s \in [1 .. n -> Models]
    BY DEF Top2
  <1> QED BY <1>1 DEF Range

-----------------------------------------------------------------------------
(* A sender that begins or passes, and a sender that is answered.             *)
LEMMA BeginKeepsOne ==
    ASSUME WarmupInv, NEW g \in Senders, NEW m \in Models, BeginWarmup(g, m)
    PROVE  OneWarmupPerModel' /\ inFlight' \subseteq Models /\ sending' \subseteq Senders \X Models
  <1>1. CASE m \in inFlight
    BY <1>1 DEF BeginWarmup, senders, WarmupInv, TypeOK, OneWarmupPerModel
  <1>2. CASE m \notin inFlight
    <2>1. inFlight' = inFlight \cup {m} /\ sending' = sending \cup {<<g, m>>}
      BY <1>2 DEF BeginWarmup
    <2>2. \A h \in Senders : <<h, m>> \notin sending
      BY <1>2 DEF WarmupInv, OneWarmupPerModel
    <2>3. sending' \subseteq Senders \X Models
      BY <2>1 DEF WarmupInv, TypeOK
    <2>4. \A n \in Models : n \in inFlight <=> \E h \in Senders : <<h, n>> \in sending
      BY DEF WarmupInv, OneWarmupPerModel
    <2>5. \A n \in Models : n \in inFlight' <=> \E h \in Senders : <<h, n>> \in sending'
      BY <2>1, <2>4
    <2>6. inFlight' \subseteq Models
      BY <2>1 DEF WarmupInv, OneWarmupPerModel
    <2>7. inFlight' = {n \in Models : \E h \in Senders : <<h, n>> \in sending'}
      BY <2>5, <2>6
    <2>8. \A n \in Models, h, i \in Senders :
            <<h, n>> \in sending' /\ <<i, n>> \in sending' => h = i
      BY <2>1, <2>2 DEF WarmupInv, OneWarmupPerModel
    <2> QED BY <2>3, <2>7, <2>8 DEF OneWarmupPerModel
  <1> QED BY <1>1, <1>2

(* A call of a warm-up ends.                                                  *)
LEMMA EndKeepsOne ==
    ASSUME WarmupInv, NEW g \in Senders, NEW m \in Models, EndWarmup(g, m)
    PROVE  OneWarmupPerModel' /\ inFlight' \subseteq Models /\ sending' \subseteq Senders \X Models
  <1>1. /\ <<g, m>> \in sending
        /\ inFlight' = inFlight \ {m} /\ sending' = sending \ {<<g, m>>}
    BY DEF EndWarmup
  <1>2. \A h \in Senders : <<h, m>> \in sending => h = g
    BY <1>1 DEF WarmupInv, OneWarmupPerModel
  <1> QED BY <1>1, <1>2 DEF WarmupInv, TypeOK, OneWarmupPerModel

(* The steps of the loop that no sender takes part in. *)
LEMMA LoopKeepsInv ==
    ASSUME WarmupInv,
           \/ Start \/ RoundIsOver \/ HandleStatusChange \/ HandlePeriodicWarmup
           \/ Tick \/ Stop
    PROVE  WarmupInv'
  <1>1. UNCHANGED senders /\ UNCHANGED others
    BY DEF Start, RoundIsOver, HandleStatusChange, HandlePeriodicWarmup, Tick, Stop
  <1>2. OneWarmupPerModel' /\ sending' \subseteq Senders \X Models
    BY <1>1 DEF senders, WarmupInv, TypeOK, OneWarmupPerModel
  <1>3. TypeOK'
    <2>1. /\ events' \in 0 .. EventCap /\ tick' \in BOOLEAN /\ missed' \in BOOLEAN
          /\ UNCHANGED fired
      <3>1. CASE HandleStatusChange
        <4>1. events' \in 0 .. EventCap
          BY <3>1, WarmupAssumption DEF HandleStatusChange, WarmupInv, TypeOK
        <4>2. tick' \in BOOLEAN /\ UNCHANGED fired
          BY <3>1 DEF HandleStatusChange, WarmupInv, TypeOK
        <4>3. missed' \in BOOLEAN
          BY <3>1 DEF HandleStatusChange
        <4> QED BY <4>1, <4>2, <4>3
      <3>2. CASE Start \/ RoundIsOver \/ HandlePeriodicWarmup \/ Tick \/ Stop
        BY <3>2 DEF Start, RoundIsOver, HandlePeriodicWarmup, Tick, Stop, WarmupInv, TypeOK
      <3> QED BY <3>1, <3>2
    <2>2. lastTop2' \subseteq Models /\ armed' \subseteq Models
      BY Top2IsSeq
      DEF Start, RoundIsOver, HandleStatusChange, HandlePeriodicWarmup, Tick, Stop,
          WarmupInv, TypeOK
    <2>3. loop' \in [pc : {"start", "initial", "select", "periodic", "stopped"},
                     queue : Seq(Models)]
      <3>1. << >> \in Seq(Models) /\ top \in Seq(Models)
        BY Top2IsSeq DEF WarmupInv, TypeOK
      <3>2. \/ UNCHANGED loop
            \/ \E pc \in {"initial", "select", "periodic", "stopped"} :
                 \/ loop' = [loop EXCEPT !.pc = pc]
                 \/ loop' = [pc |-> pc, queue |-> top]
                 \/ loop' = [pc |-> pc, queue |-> << >>]
        BY DEF Start, RoundIsOver, HandleStatusChange, HandlePeriodicWarmup, Tick, Stop
      <3>3. CASE UNCHANGED loop
        BY <3>3 DEF WarmupInv, TypeOK
      <3>4. ASSUME NEW pc \in {"initial", "select", "periodic", "stopped"},
                   \/ loop' = [loop EXCEPT !.pc = pc]
                   \/ loop' = [pc |-> pc, queue |-> top]
                   \/ loop' = [pc |-> pc, queue |-> << >>]
            PROVE  loop' \in [pc : {"start", "initial", "select", "periodic", "stopped"},
                              queue : Seq(Models)]
        <4>1. loop \in [pc : {"start", "initial", "select", "periodic", "stopped"},
                        queue : Seq(Models)]
          BY DEF WarmupInv, TypeOK
        <4>2. pc \in {"start", "initial", "select", "periodic", "stopped"}
          BY <3>4
        <4>3. CASE loop' = [loop EXCEPT !.pc = pc]
          BY <4>1, <4>2, <4>3
        <4>4. CASE loop' = [pc |-> pc, queue |-> top]
          BY <3>1, <4>2, <4>4
        <4>5. CASE loop' = [pc |-> pc, queue |-> << >>]
          BY <3>1, <4>2, <4>5
        <4> QED BY <3>4, <4>3, <4>4, <4>5
      <3> QED BY <3>2, <3>3, <3>4
    <2> QED BY <1>1, <1>2, <2>1, <2>2, <2>3 DEF senders, others, WarmupInv, TypeOK
  <1>4. LoopInv'
    <2>1. CASE Start
      <3>1. CASE enabled
        BY <2>1, <3>1 DEF Start, others, WarmupInv, LoopInv, Range
      <3>2. CASE ~enabled
        BY <2>1, <3>2 DEF Start, others, WarmupInv, LoopInv
      <3> QED BY <3>1, <3>2
    <2>2. CASE RoundIsOver
      BY <2>2 DEF RoundIsOver, IsWarming, others, WarmupInv, LoopInv, Range
    <2>3. CASE HandleStatusChange
      BY <2>3 DEF HandleStatusChange, others, WarmupInv, LoopInv, Range
    <2>4. CASE HandlePeriodicWarmup
      BY <2>4 DEF HandlePeriodicWarmup, others, WarmupInv, LoopInv, Range
    <2>5. CASE Tick
      BY <2>5 DEF Tick, others, WarmupInv, LoopInv, Range
    <2>6. CASE Stop
      BY <2>6 DEF Stop, others, WarmupInv, LoopInv
    <2> QED BY <2>1, <2>2, <2>3, <2>4, <2>5, <2>6
  <1> QED BY <1>2, <1>3, <1>4 DEF WarmupInv

(* The steps in which a model is asked or answers. *)
LEMMA SendersKeepInv ==
    ASSUME WarmupInv,
           \/ WarmNext \/ LoopAnswered
           \/ \E m \in Models : TimerWarms(m) \/ TimerAnswered(m)
    PROVE  WarmupInv'
  <1>1. UNCHANGED <<others, events, lastTop2, armed, missed>>
    BY DEF WarmNext, LoopAnswered, TimerWarms, TimerAnswered
  <1>2. OneWarmupPerModel' /\ sending' \subseteq Senders \X Models
    <2>1. CASE WarmNext
      <3>1. Head(loop.queue) \in Models
        BY <2>1 DEF WarmNext, WarmupInv, TypeOK
      <3> QED BY <2>1, <3>1, BeginKeepsOne DEF WarmNext, Senders
    <2>2. CASE LoopAnswered
      <3>1. Head(loop.queue) \in Models
        BY <2>2 DEF LoopAnswered, WarmupInv, TypeOK
      <3> QED BY <2>2, <3>1, EndKeepsOne DEF LoopAnswered, Senders
    <2>3. ASSUME NEW m \in Models, TimerWarms(m) \/ TimerAnswered(m)
          PROVE  OneWarmupPerModel' /\ inFlight' \subseteq Models /\ sending' \subseteq Senders \X Models
      BY <2>3, BeginKeepsOne, EndKeepsOne DEF TimerWarms, TimerAnswered, Senders
    <2> QED BY <2>1, <2>2, <2>3
  <1>3. /\ loop' \in [pc : {"start", "initial", "select", "periodic", "stopped"},
                       queue : Seq(Models)]
        /\ loop'.pc = loop.pc
    <2>1. CASE WarmNext \/ LoopAnswered
      <3>1. loop.queue # << >>
        BY <2>1 DEF WarmNext, LoopAnswered, WarmupInv, TypeOK
      <3>2. Tail(loop.queue) \in Seq(Models)
        BY <3>1 DEF WarmupInv, TypeOK
      <3> QED BY <2>1, <3>2 DEF WarmNext, LoopAnswered, WarmupInv, TypeOK
    <2>2. CASE UNCHANGED loop
      BY <2>2 DEF WarmupInv, TypeOK
    <2> QED BY <2>1, <2>2 DEF TimerWarms, TimerAnswered
  <1>4. LoopInv'
    BY <1>1, <1>3 DEF others, WarmupInv, LoopInv, Range
  <1>5. UNCHANGED tick /\ fired' \subseteq Models
    BY DEF WarmNext, LoopAnswered, TimerWarms, TimerAnswered, WarmupInv, TypeOK
  <1>6. TypeOK'
    <2>1. /\ UNCHANGED <<enabled, top, unsent, canceled, missed, events, lastTop2, armed>>
          /\ UNCHANGED tick
      BY <1>1, <1>5 DEF others
    <2>2. /\ fired' \in SUBSET Models /\ inFlight' \in SUBSET Models
          /\ sending' \in SUBSET (Senders \X Models)
      BY <1>2, <1>5 DEF OneWarmupPerModel
    <2> QED BY <2>1, <2>2, <1>3 DEF WarmupInv, TypeOK
  <1> QED BY <1>2, <1>4, <1>6 DEF WarmupInv

(* What goes on around the manager, and the timers. *)
LEMMA OthersKeepInv ==
    ASSUME WarmupInv,
           \/ ChangeTop \/ ChangeTopSilently \/ EmitStatusChange \/ SwitchWarmup \/ Cancel
           \/ \E m \in Models : Fire(m)
           \/ UNCHANGED vars
    PROVE  WarmupInv'
  <1>1. UNCHANGED <<senders, loop, tick, lastTop2>>
    BY DEF ChangeTop, ChangeTopSilently, EmitStatusChange, SwitchWarmup, Cancel, Fire,
           vars, senders
  <1>2. OneWarmupPerModel'
    BY <1>1 DEF senders, WarmupInv, OneWarmupPerModel
  <1>3. armed' \subseteq armed /\ fired' \subseteq Models
    BY DEF ChangeTop, ChangeTopSilently, EmitStatusChange, SwitchWarmup, Cancel, Fire,
           vars, WarmupInv, TypeOK
  <1>4. events' \in 0 .. EventCap
    <2>1. CASE EmitStatusChange
      BY <2>1, WarmupAssumption DEF EmitStatusChange, WarmupInv, TypeOK
    <2>2. CASE UNCHANGED events
      BY <2>2 DEF WarmupInv, TypeOK
    <2> QED
      BY <2>1, <2>2
      DEF ChangeTop, ChangeTopSilently, SwitchWarmup, Cancel, Fire, vars
  <1>8. /\ top' \in Top2
        /\ enabled' \in BOOLEAN /\ unsent' \in BOOLEAN
        /\ canceled' \in BOOLEAN /\ missed' \in BOOLEAN
    BY DEF ChangeTop, ChangeTopSilently, EmitStatusChange, SwitchWarmup, Cancel, Fire,
           vars, others, WarmupInv, TypeOK
  <1>5. TypeOK'
    BY <1>1, <1>3, <1>4, <1>8 DEF senders, WarmupInv, TypeOK
  <1>6. events' = 0 /\ ~unsent' /\ ~missed' =>
          events = 0 /\ ~unsent /\ ~missed /\ top' = top
    BY WarmupAssumption
    DEF ChangeTop, ChangeTopSilently, EmitStatusChange, SwitchWarmup, Cancel, Fire,
        vars, others, WarmupInv, TypeOK
  <1>7. LoopInv'
    BY <1>1, <1>3, <1>6 DEF WarmupInv, LoopInv, Range
  <1> QED BY <1>2, <1>5, <1>7 DEF WarmupInv

(* The invariant holds at first and is kept. *)
LEMMA WarmupInvariant == Spec => []WarmupInv
  <1>1. Init => WarmupInv
    <2> SUFFICES ASSUME Init PROVE WarmupInv
      OBVIOUS
    <2>1. TypeOK
      <3>1. << >> \in Seq(Models)
        OBVIOUS
      <3>2. 0 \in 0 .. EventCap
        BY WarmupAssumption
      <3> QED BY <3>1, <3>2 DEF Init, TypeOK
    <2>2. OneWarmupPerModel /\ LoopInv
      BY DEF Init, OneWarmupPerModel, LoopInv
    <2> QED BY <2>1, <2>2 DEF WarmupInv
  <1>2. WarmupInv /\ [Next]_vars => WarmupInv'
    BY LoopKeepsInv, SendersKeepInv, OthersKeepInv DEF Next, LoopStep
  <1> QED BY <1>1, <1>2, PTL DEF Spec

(* The variables of the manager keep their types. *)
THEOREM WarmupTypeCorrect == Spec => []TypeOK
  <1>1. WarmupInv => TypeOK
    BY DEF WarmupInv
  <1> QED BY <1>1, WarmupInvariant, PTL

(* A model is asked by one sender at a time, and inFlight is what is out.     *)
THEOREM WarmupsAreApart == Spec => []OneWarmupPerModel
  <1>1. WarmupInv => OneWarmupPerModel
    BY DEF WarmupInv
  <1> QED BY <1>1, WarmupInvariant, PTL

(* No timer runs for a model the loop has seen leave. *)
THEOREM TimersFollowTopTwo == Spec => []TimersAreOfTopTwo
  <1>1. WarmupInv => TimersAreOfTopTwo
    BY DEF WarmupInv, LoopInv, TimersAreOfTopTwo
  <1> QED BY <1>1, WarmupInvariant, PTL

(* Dropped events lose no change, for any channel that holds one event.       *)
THEOREM DroppedEventsAreHarmless == Spec => []NoChangeIsMissed
  <1>1. WarmupInv => NoChangeIsMissed
    BY DEF WarmupInv, LoopInv, NoChangeIsMissed
  <1> QED BY <1>1, WarmupInvariant, PTL
=============================================================================
