----------------------------- MODULE HandlerProofs -----------------------------
(* Proofs about what a handler of main.go works with.  StreamRelay: its types,*)
(* that the client gets what the model that answers has sent, and that        *)
(* whatever the upstreams and the client do it implements ClientStream,       *)
(* provided that no upstream sends content after its [DONE].  RequestPool: an *)
(* object has one user, and what the reset names is what the body says.       *)
EXTENDS StreamRelay, RequestPool, SequenceProofs

Open == pc \in {"connect", "read", "closed"}

DoneOnWire == \E i \in DOMAIN wire : wire[i].line = "done"

(* What the gate and the connection agree on while an attempt goes on.        *)
OpenInv ==
    Open =>
      /\ ~ClientIsGone
      /\ gate.sawContent <=> wire # << >>
      /\ written <=> wire # << >>
      /\ gate.sawContent /\ ~TrailingLines => (gate.sawDone <=> DoneOnWire)
      /\ pc = "connect" => gate = NewGate /\ feed = << >>
      /\ \A i \in DOMAIN gate.preamble : gate.preamble[i] # "done"

(* Nothing but blanks comes behind a [DONE]: with Ollama it closes the body,  *)
(* with SSE it is what TrailingLines says.                                    *)
FeedInv ==
    Open /\ ~TrailingLines =>
      /\ \A i \in DOMAIN feed : feed[i] = "done" =>
           /\ format # "sse" => pc = "closed"
           /\ \A j \in DOMAIN feed : i < j => feed[j] = "blank"
      /\ gate.sawDone =>
           /\ "done" \in Range(sent)
           /\ format # "sse" => pc = "closed"
           /\ \A i \in DOMAIN feed : feed[i] = "blank"

(* The client has heard one attempt, and Stream reports its [DONE] truly.     *)
WireInv ==
    /\ pc # "end" => \A i \in DOMAIN wire : wire[i].from = attempt
    /\ pc = "handle" =>
         /\ result.error = "none" =>
              /\ wire # << >>
              /\ ~TrailingLines => (result.upstreamDone <=> DoneOnWire)
         /\ result.error = "failed" =>
              ~result.upstreamDone /\ (written <=> wire # << >>)

RelayInv == TypeOK /\ OpenInv /\ FeedInv /\ WireInv

-----------------------------------------------------------------------------
(* The lines an attempt puts behind what is on the wire. *)
LEMMA WireGrows ==
    ASSUME NEW w \in Seq(WireLine), NEW lines \in Seq(Lines),
           attempt \in 1 .. Attempts
    PROVE  /\ w \o FromAttempt(lines) \in Seq(WireLine)
           /\ Len(w \o FromAttempt(lines)) = Len(w) + Len(lines)
           /\ DOMAIN (w \o FromAttempt(lines)) = 1 .. Len(w) + Len(lines)
           /\ \A i \in 1 .. Len(w) : (w \o FromAttempt(lines))[i] = w[i]
           /\ \A i \in 1 .. Len(lines) :
                (w \o FromAttempt(lines))[Len(w) + i] = [from |-> attempt, line |-> lines[i]]
  <1> DEFINE x == FromAttempt(lines)
  <1>1. /\ x \in Seq(WireLine)
        /\ Len(x) = Len(lines)
        /\ \A i \in 1 .. Len(lines) : x[i] = [from |-> attempt, line |-> lines[i]]
    <2>1. \A i \in 1 .. Len(lines) : [from |-> attempt, line |-> lines[i]] \in WireLine
      BY RelayAssumption DEF WireLine
    <2> QED BY <2>1, LenProperties DEF FromAttempt
  <1> HIDE DEF x
  <1>2. Len(w) \in Nat /\ Len(x) \in Nat
    BY <1>1, LenProperties
  <1>3. /\ w \o x \in Seq(WireLine)
        /\ Len(w \o x) = Len(w) + Len(x)
        /\ \A i \in 1 .. Len(w) + Len(x) :
             (w \o x)[i] = IF i <= Len(w) THEN w[i] ELSE x[i - Len(w)]
    BY <1>1
  <1>4. DOMAIN (w \o x) = 1 .. Len(w) + Len(x)
    BY <1>3, LenProperties
  <1>5. \A i \in 1 .. Len(x) : (w \o x)[Len(w) + i] = x[i]
    BY <1>2, <1>3
  <1>6. \A i \in 1 .. Len(w) : (w \o x)[i] = w[i]
    BY <1>2, <1>3
  <1>7. /\ w \o x \in Seq(WireLine)
        /\ Len(w \o x) = Len(w) + Len(lines)
        /\ DOMAIN (w \o x) = 1 .. Len(w) + Len(lines)
        /\ \A i \in 1 .. Len(w) : (w \o x)[i] = w[i]
        /\ \A i \in 1 .. Len(lines) :
             (w \o x)[Len(w) + i] = [from |-> attempt, line |-> lines[i]]
    BY <1>1, <1>3, <1>4, <1>5, <1>6
  <1> QED BY <1>7 DEF x

(* What the gate lets through of a line: nothing, the line itself, or, if it  *)
(* is the first with content, all that was held back and the line.            *)
LEMMA GateProperties ==
    ASSUME TypeOK, feed # << >>
    PROVE  /\ Head(feed) \in Lines
           /\ LinesToWrite(gate, Head(feed)) \in Seq(Lines)
           /\ GateAfter(gate, Head(feed)) \in
                [preamble : Seq(Lines), sawContent : BOOLEAN, sawDone : BOOLEAN]
           /\ ~gate.sawContent /\ Head(feed) = "content" =>
                /\ LinesToWrite(gate, Head(feed)) # << >>
                /\ Len(LinesToWrite(gate, Head(feed))) \in Nat \ {0}
                /\ LinesToWrite(gate, Head(feed))
                     [Len(LinesToWrite(gate, Head(feed)))] = "content"
  <1>1. Head(feed) \in Lines
    BY HeadTailProperties DEF TypeOK
  <1>2. gate.preamble \in Seq(Lines)
    BY DEF TypeOK
  <1>3. Append(gate.preamble, Head(feed)) \in Seq(Lines)
    BY <1>1, <1>2, AppendProperties
  <1>4. LinesToWrite(gate, Head(feed)) \in Seq(Lines)
    BY <1>1, <1>3 DEF LinesToWrite
  <1>5. GateAfter(gate, Head(feed)) \in
          [preamble : Seq(Lines), sawContent : BOOLEAN, sawDone : BOOLEAN]
    <2>1. gate \in [preamble : Seq(Lines), sawContent : BOOLEAN, sawDone : BOOLEAN]
      BY DEF TypeOK
    <2>2. << >> \in Seq(Lines)
      BY EmptySeq
    <2>3. CASE Head(feed) = "done"
      BY <2>1, <2>3 DEF GateAfter
    <2>4. CASE Head(feed) # "done" /\ gate.sawContent
      BY <2>1, <2>4 DEF GateAfter
    <2>5. CASE Head(feed) = "content" /\ ~gate.sawContent
      BY <2>1, <2>2, <2>5 DEF GateAfter
    <2>6. CASE Head(feed) \notin {"done", "content"} /\ ~gate.sawContent
      BY <2>1, <1>3, <2>6 DEF GateAfter
    <2> QED BY <2>3, <2>4, <2>5, <2>6
  <1>6. ASSUME ~gate.sawContent, Head(feed) = "content"
        PROVE  /\ LinesToWrite(gate, Head(feed)) # << >>
               /\ Len(LinesToWrite(gate, Head(feed))) \in Nat \ {0}
               /\ LinesToWrite(gate, Head(feed))
                    [Len(LinesToWrite(gate, Head(feed)))] = "content"
    <2>1. LinesToWrite(gate, Head(feed)) = Append(gate.preamble, "content")
      BY <1>6 DEF LinesToWrite
    <2>2. "content" \in Lines
      BY DEF Lines
    <2>3. Len(gate.preamble) \in Nat
      BY <1>2, LenProperties
    <2> QED BY <1>2, <2>1, <2>2, <2>3, AppendProperties
  <1> QED BY <1>1, <1>4, <1>5, <1>6
-----------------------------------------------------------------------------
(* A gate that nothing has passed. *)
LEMMA NewGateIsGate ==
    /\ NewGate \in [preamble : Seq(Lines), sawContent : BOOLEAN, sawDone : BOOLEAN]
    /\ ~NewGate.sawContent
    /\ ~NewGate.sawDone
  <1>1. << >> \in Seq(Lines)
    BY EmptySeq
  <1> QED BY <1>1 DEF NewGate

(* The invariant holds at first. *)
LEMMA InitRelayInv == Init => RelayInv
  <1> SUFFICES ASSUME Init PROVE RelayInv
    OBVIOUS
  <1>1. TypeOK
    <2>1. << >> \in Seq(Lines) /\ << >> \in Seq(WireLine)
      BY EmptySeq
    <2>2. 1 \in 1 .. Attempts
      BY RelayAssumption
    <2> QED BY <2>1, <2>2, NewGateIsGate DEF Init, TypeOK, NoResult
  <1>2. OpenInv /\ FeedInv /\ WireInv
    BY DEF Init, OpenInv, FeedInv, WireInv, Open, NewGate, ClientIsGone, NoResult
  <1> QED BY <1>1, <1>2 DEF RelayInv

(* An attempt is over: Stream returns or takes the next model.                *)
LEMMA AttemptFailsKeepsInv ==
    ASSUME RelayInv, Open, AttemptFails,
           UNCHANGED <<wire, written, canceled>>
    PROVE  RelayInv'
  <1>1. TypeOK'
    <2>1. CASE NextAttempt /\ attempt # Attempts
      <3>1. attempt + 1 \in 1 .. Attempts
        BY <2>1, RelayAssumption DEF RelayInv, TypeOK
      <3>2. << >> \in Seq(Lines)
        BY EmptySeq
      <3> QED BY <2>1, <3>1, <3>2, NewGateIsGate DEF RelayInv, TypeOK, NextAttempt
    <2>2. CASE Return("canceled", FALSE) \/ Return("failed", FALSE)
      <3>1. PICK error \in {"canceled", "failed"} : Return(error, FALSE)
        BY <2>2
      <3>2. /\ result' = [error |-> error, upstreamDone |-> FALSE]
            /\ pc' = "handle"
            /\ UNCHANGED <<attempt, format, feed, gate, sent>>
        BY <3>1 DEF Return
      <3> QED BY <3>2 DEF RelayInv, TypeOK
    <2> QED BY <2>1, <2>2 DEF AttemptFails
  <1>2. CASE canceled
    BY <1>1, <1>2 DEF RelayInv, AttemptFails, Return, Open, OpenInv, FeedInv, WireInv
  <1>3. CASE ~canceled /\ (written \/ attempt = Attempts)
    BY <1>1, <1>3 DEF RelayInv, AttemptFails, Return, Open, OpenInv, FeedInv, WireInv
  <1>4. CASE ~canceled /\ ~written /\ attempt # Attempts
    <2>1. wire = << >>
      BY <1>4 DEF RelayInv, OpenInv
    <2>2. /\ pc' = "connect" /\ gate' = NewGate /\ feed' = << >>
          /\ UNCHANGED <<wire, written, canceled, result>>
      BY <1>4 DEF AttemptFails, NextAttempt
    <2>3. OpenInv'
      BY <1>4, <2>1, <2>2, NewGateIsGate DEF RelayInv, OpenInv, NewGate, ClientIsGone
    <2>4. FeedInv'
      BY <2>2, NewGateIsGate DEF FeedInv
    <2>5. WireInv'
      BY <2>1, <2>2 DEF WireInv
    <2> QED BY <1>1, <2>3, <2>4, <2>5 DEF RelayInv
  <1> QED BY <1>2, <1>3, <1>4

(* A line is read: blanks only behind a [DONE]. *)
LEMMA ReadKeepsInv ==
    ASSUME RelayInv, Read
    PROVE  RelayInv'
  <1>1. /\ pc = "read" /\ feed = << >> /\ pc' \in {"read", "closed"}
        /\ UNCHANGED <<attempt, format, gate, wire, written, canceled, result, sent>>
    BY DEF Read, ReadSSELine, ReadOllamaChunk, ReadJSONAnswer
  <1>2. CASE ReadSSELine
    <2>1. PICK line \in Lines :
            /\ "done" \in Range(sent) /\ ~TrailingLines => line = "blank"
            /\ feed' = <<line>>
      BY <1>2 DEF ReadSSELine
    <2>2. TypeOK'
      BY <1>1, <2>1 DEF RelayInv, TypeOK
    <2>3. format = "sse"
      BY <1>2 DEF ReadSSELine
    <2> QED
      BY <1>1, <2>1, <2>2, <2>3 DEF RelayInv, Open, OpenInv, FeedInv, WireInv, DoneOnWire, ClientIsGone
  <1>3. CASE ReadOllamaChunk
    <2>1. format = "ollama"
      BY <1>3 DEF ReadOllamaChunk
    <2>2. ~TrailingLines => ~gate.sawDone
      BY <1>1, <2>1 DEF RelayInv, FeedInv, Open
    <2>3. PICK line \in {"pre", "content"} :
            \/ feed' = <<line, "blank">> /\ pc' = "read"
            \/ feed' = <<line, "blank", "done", "blank">> /\ pc' = "closed"
      BY <1>3 DEF ReadOllamaChunk
    <2>4. TypeOK'
      <3>1. {"pre", "content", "blank", "done"} = Lines
        BY DEF Lines
      <3>2. feed' \in Seq(Lines)
        <4>1. \A x1, x2, x3, x4 \in Lines :
                <<x1, x2>> \in Seq(Lines) /\ <<x1, x2, x3, x4>> \in Seq(Lines)
          OBVIOUS
        <4> QED BY <2>3, <3>1, <4>1
      <3> QED BY <1>1, <3>2 DEF RelayInv, TypeOK
    <2> QED
      BY <1>1, <2>2, <2>3, <2>4 DEF RelayInv, Open, OpenInv, FeedInv, WireInv, DoneOnWire, ClientIsGone
  <1>4. CASE ReadJSONAnswer
    <2>1. feed' = <<"content", "blank">> /\ format = "json" /\ pc' = "closed"
      BY <1>4 DEF ReadJSONAnswer
    <2>2. ~TrailingLines => ~gate.sawDone
      BY <1>1, <2>1 DEF RelayInv, FeedInv, Open
    <2>3. TypeOK'
      BY <1>1, <2>1 DEF RelayInv, TypeOK, Lines
    <2> QED
      BY <1>1, <2>1, <2>2, <2>3 DEF RelayInv, Open, OpenInv, FeedInv, WireInv, DoneOnWire, ClientIsGone
  <1> QED BY <1>2, <1>3, <1>4 DEF Read

(* What a line leaves of the wire and the gate. *)
LEMMA FeedLineEffect ==
    ASSUME RelayInv, Open, feed # << >>,
           NEW w, w = LinesToWrite(gate, Head(feed))
    PROVE  /\ w \in Seq(Lines) /\ Len(w) \in Nat
           /\ w = << >> => Len(w) = 0
           /\ gate.sawContent => w = <<Head(feed)>>
           /\ ~gate.sawContent /\ Head(feed) # "content" => w = << >>
           /\ ~gate.sawContent /\ Head(feed) = "content" =>
                /\ Len(w) > 0 /\ w # << >> /\ w[Len(w)] = "content"
                /\ w = Append(gate.preamble, "content")
  <1>1. w \in Seq(Lines) /\ Len(w) \in Nat
    BY GateProperties, LenProperties DEF RelayInv
  <1>2. w = << >> => Len(w) = 0
    OBVIOUS
  <1>3. gate.sawContent => w = <<Head(feed)>>
    BY DEF LinesToWrite
  <1>4. ~gate.sawContent /\ Head(feed) # "content" => w = << >>
    BY DEF LinesToWrite
  <1>5. ~gate.sawContent /\ Head(feed) = "content" =>
          /\ Len(w) > 0 /\ w # << >> /\ w[Len(w)] = "content"
          /\ w = Append(gate.preamble, "content")
    BY <1>1, GateProperties DEF RelayInv, LinesToWrite
  <1> QED BY <1>1, <1>2, <1>3, <1>4, <1>5

(* A line passes the gate. *)
LEMMA FeedLineKeepsInv ==
    ASSUME RelayInv, FeedLine
    PROVE  RelayInv'
  <1> DEFINE line == Head(feed)
             w    == LinesToWrite(gate, line)
  <1>1. /\ Open /\ pc \in {"read", "closed"} /\ feed # << >>
        /\ wire' = wire \o FromAttempt(w)
        /\ written' = (written \/ w # << >>)
        /\ gate' = GateAfter(gate, line)
        /\ sent' = Append(sent, line)
        /\ feed' = Tail(feed)
        /\ UNCHANGED <<pc, attempt, format, canceled, result>>
    BY DEF FeedLine, Open
  <1>2. /\ line \in Lines
        /\ gate' \in [preamble : Seq(Lines), sawContent : BOOLEAN, sawDone : BOOLEAN]
        /\ w \in Seq(Lines)
    BY <1>1, GateProperties DEF RelayInv
  <1>3. /\ w \in Seq(Lines) /\ Len(w) \in Nat
        /\ w = << >> => Len(w) = 0
        /\ gate.sawContent => w = <<line>>
        /\ ~gate.sawContent /\ line # "content" => w = << >>
        /\ ~gate.sawContent /\ line = "content" =>
             Len(w) > 0 /\ w # << >> /\ w = Append(gate.preamble, "content")
    BY <1>1, FeedLineEffect
  <1>4. wire \in Seq(WireLine) /\ attempt \in 1 .. Attempts /\ Len(wire) \in Nat
    BY LenProperties DEF RelayInv, TypeOK
  <1>5. /\ wire' \in Seq(WireLine)
        /\ Len(wire') = Len(wire) + Len(w)
        /\ DOMAIN wire = 1 .. Len(wire)
        /\ DOMAIN wire' = 1 .. Len(wire) + Len(w)
        /\ \A i \in 1 .. Len(wire) : wire'[i] = wire[i]
        /\ \A i \in 1 .. Len(w) :
             wire'[Len(wire) + i] = [from |-> attempt, line |-> w[i]]
    BY <1>1, <1>3, <1>4, WireGrows, LenProperties
  <1>6. gate'.sawContent <=> gate.sawContent \/ line = "content"
    BY <1>1 DEF GateAfter, RelayInv, TypeOK
  <1>7. gate'.sawDone <=> gate.sawDone \/ line = "done"
    BY <1>1 DEF GateAfter, RelayInv, TypeOK
  <1>8. /\ feed \in Seq(Lines) /\ feed' \in Seq(Lines)
        /\ Len(feed) \in Nat \ {0} /\ Len(feed') = Len(feed) - 1
        /\ DOMAIN feed = 1 .. Len(feed) /\ DOMAIN feed' = 1 .. Len(feed) - 1
        /\ \A i \in 1 .. Len(feed') : feed'[i] = feed[i + 1]
        /\ line = feed[1]
    BY <1>1, HeadTailProperties, LenProperties, EmptySeq DEF RelayInv, TypeOK
  <1> HIDE DEF w, line
  <1>8a. /\ 1 \in DOMAIN feed
         /\ gate.sawDone /\ ~TrailingLines =>
              /\ format # "sse" => pc = "closed"
              /\ \A i \in DOMAIN feed : feed[i] = "blank"
         /\ ~TrailingLines => \A i \in DOMAIN feed : feed[i] = "done" =>
              /\ format # "sse" => pc = "closed"
              /\ \A j \in DOMAIN feed : i < j => feed[j] = "blank"
    <2>1. 1 \in DOMAIN feed
      BY <1>8
    <2> QED BY <1>1, <2>1 DEF RelayInv, FeedInv
  <1>9. TypeOK'
    <2>1. sent' \in Seq(Lines)
      BY <1>1, <1>2, AppendProperties DEF RelayInv, TypeOK
    <2> QED BY <1>1, <1>2, <1>5, <1>8, <2>1 DEF RelayInv, TypeOK
  <1>10. wire' # << >> <=> wire # << >> \/ w # << >>
    BY <1>3, <1>4, <1>5
  <1>11. WireInv'
    <2>1. \A i \in DOMAIN wire' : wire'[i].from = attempt
      <3>1. \A i \in 1 .. Len(wire) : wire'[i].from = attempt
        BY <1>1, <1>5 DEF RelayInv, WireInv, Open
      <3>2. \A i \in Len(wire) + 1 .. Len(wire) + Len(w) : wire'[i].from = attempt
        <4> TAKE i \in Len(wire) + 1 .. Len(wire) + Len(w)
        <4>1. i - Len(wire) \in 1 .. Len(w) /\ i = Len(wire) + (i - Len(wire))
          BY <1>3, <1>4
        <4>2. wire'[i] = [from |-> attempt, line |-> w[i - Len(wire)]]
          BY <1>5, <4>1
        <4> QED BY <4>2
      <3> QED BY <1>3, <1>4, <1>5, <3>1, <3>2
    <2> QED BY <1>1, <2>1 DEF WireInv
  <1>12. DoneOnWire' <=> DoneOnWire \/ \E i \in 1 .. Len(w) : w[i] = "done"
    <2>1. ASSUME DoneOnWire PROVE DoneOnWire'
      BY <2>1, <1>3, <1>4, <1>5 DEF DoneOnWire
    <2>2. ASSUME NEW i \in 1 .. Len(w), w[i] = "done" PROVE DoneOnWire'
      <3>1. Len(wire) + i \in 1 .. Len(wire) + Len(w)
        BY <2>2, <1>3, <1>4
      <3>2. wire'[Len(wire) + i] = [from |-> attempt, line |-> w[i]]
        BY <2>2, <1>5
      <3>3. Len(wire) + i \in DOMAIN wire' /\ wire'[Len(wire) + i].line = "done"
        BY <2>2, <1>5, <3>1, <3>2
      <3> QED BY <3>3 DEF DoneOnWire
    <2>3. ASSUME NEW i \in DOMAIN wire', wire'[i].line = "done", ~DoneOnWire
          PROVE  \E j \in 1 .. Len(w) : w[j] = "done"
      <3>1. i \notin 1 .. Len(wire)
        BY <2>3, <1>5 DEF DoneOnWire
      <3>2. i - Len(wire) \in 1 .. Len(w) /\ i = Len(wire) + (i - Len(wire))
        BY <2>3, <3>1, <1>3, <1>4, <1>5
      <3>3. wire'[i] = [from |-> attempt, line |-> w[i - Len(wire)]]
        BY <1>5, <3>2
      <3> QED BY <2>3, <3>2, <3>3
    <2> QED BY <2>1, <2>2, <2>3 DEF DoneOnWire
  <1>13. gate'.sawContent /\ ~TrailingLines => (gate'.sawDone <=> DoneOnWire')
    <2> HAVE gate'.sawContent /\ ~TrailingLines
    <2>1. CASE gate.sawContent
      <3>1. w = <<line>> /\ Len(w) = 1 /\ w[1] = line
        BY <1>3, <2>1
      <3>2. (\E i \in 1 .. Len(w) : w[i] = "done") <=> line = "done"
        BY <3>1
      <3>3. gate.sawDone <=> DoneOnWire
        BY <1>1, <2>1 DEF RelayInv, OpenInv
      <3> QED BY <1>7, <1>12, <3>2, <3>3
    <2>2. CASE ~gate.sawContent /\ line = "content"
      <3>1. ~gate.sawDone
        BY <1>8, <1>8a, <2>2
      <3>2. wire = << >> /\ ~DoneOnWire
        BY <1>1, <2>2 DEF RelayInv, OpenInv, DoneOnWire
      <3>3. \A i \in 1 .. Len(w) : w[i] # "done"
        <4>1. w = Append(gate.preamble, "content")
          BY <1>3, <2>2
        <4>2. /\ gate.preamble \in Seq(Lines)
              /\ \A i \in 1 .. Len(gate.preamble) : gate.preamble[i] # "done"
          BY <1>1, LenProperties DEF RelayInv, OpenInv, TypeOK
        <4> QED BY <4>1, <4>2
      <3> QED BY <1>7, <1>12, <2>2, <3>1, <3>2, <3>3
    <2> QED BY <2>1, <2>2, <1>6
  <1>14. OpenInv'
    <2>1. gate'.sawContent <=> wire' # << >>
      BY <1>1, <1>3, <1>6, <1>10 DEF RelayInv, OpenInv
    <2>2. written' <=> wire' # << >>
      BY <1>1, <1>10 DEF RelayInv, OpenInv
    <2>3. \A i \in DOMAIN gate'.preamble : gate'.preamble[i] # "done"
      <3>1. /\ gate.preamble \in Seq(Lines)
            /\ \A i \in DOMAIN gate.preamble : gate.preamble[i] # "done"
        BY <1>1 DEF RelayInv, OpenInv, TypeOK
      <3>2. CASE line # "done" /\ line # "content" /\ ~gate.sawContent
        <4>1. gate'.preamble = Append(gate.preamble, line)
          BY <1>1, <3>2 DEF GateAfter, RelayInv, TypeOK
        <4> QED BY <1>2, <3>1, <3>2, <4>1
      <3>3. CASE line = "content" /\ ~gate.sawContent
        <4>1. gate'.preamble = << >>
          BY <1>1, <3>3 DEF GateAfter, RelayInv, TypeOK
        <4> QED BY <4>1
      <3>4. CASE line = "done" \/ gate.sawContent
        <4>1. gate'.preamble = gate.preamble
          BY <1>1, <3>4 DEF GateAfter, RelayInv, TypeOK
        <4> QED BY <3>1, <4>1
      <3> QED BY <3>2, <3>3, <3>4
    <2> QED BY <1>1, <1>13, <2>1, <2>2, <2>3 DEF RelayInv, OpenInv, ClientIsGone
  <1>15. FeedInv'
    <2>1. \A i \in DOMAIN feed' : feed'[i] = feed[i + 1] /\ i + 1 \in DOMAIN feed /\ 1 < i + 1
      BY <1>8
    <2> SUFFICES ASSUME ~TrailingLines PROVE FeedInv'
      BY DEF FeedInv
    <2>2. ASSUME gate'.sawDone
          PROVE  /\ format # "sse" => pc = "closed"
                 /\ \A i \in DOMAIN feed' : feed'[i] = "blank"
      <3>1. CASE gate.sawDone
        BY <1>8a, <2>1, <3>1
      <3>2. CASE line = "done"
        BY <1>8, <1>8a, <2>1, <3>2
      <3> QED BY <1>7, <2>2, <3>1, <3>2
    <2>3. \A i \in DOMAIN feed' : feed'[i] = "done" =>
            /\ format # "sse" => pc = "closed"
            /\ \A j \in DOMAIN feed' : i < j => feed'[j] = "blank"
      BY <1>8, <1>8a, <2>1
    <2>4. gate'.sawDone => "done" \in Range(sent')
      <3>1. sent \in Seq(Lines) /\ sent' = Append(sent, line) /\ line \in Lines
        BY <1>1, <1>2 DEF RelayInv, TypeOK
      <3>2. /\ DOMAIN sent = 1 .. Len(sent) /\ DOMAIN sent' = 1 .. Len(sent) + 1
            /\ Len(sent) \in Nat
            /\ sent'[Len(sent) + 1] = line
            /\ \A i \in 1 .. Len(sent) : sent'[i] = sent[i]
        BY <3>1
      <3>3. gate.sawDone => \E i \in 1 .. Len(sent) : sent[i] = "done"
        BY <1>1, <3>2 DEF RelayInv, FeedInv, Range
      <3>4. gate'.sawDone => \E i \in DOMAIN sent' : sent'[i] = "done"
        BY <1>7, <3>2, <3>3
      <3> QED BY <3>4 DEF Range
    <2> QED BY <1>1, <2>2, <2>3, <2>4 DEF FeedInv
  <1> QED BY <1>9, <1>11, <1>14, <1>15 DEF RelayInv

(* What a line that could not be written to its end has put on the wire.      *)
LEMMA PartOfLines ==
    ASSUME RelayInv, FeedLineFails
    PROVE  /\ Open /\ pc' = "handle"
           /\ wire' \in Seq(WireLine)
           /\ Len(wire') >= Len(wire)
           /\ \A i \in DOMAIN wire : i \in DOMAIN wire' /\ wire'[i] = wire[i]
           /\ \A i \in Len(wire) + 1 .. Len(wire') : wire'[i].from = attempt
           /\ \A i \in DOMAIN wire' : wire'[i].from = attempt
           /\ result'.error \in {"canceled", "clientWrite"}
           /\ attempt' = attempt
  <1> DEFINE w == LinesToWrite(gate, Head(feed))
  <1>1. Open /\ feed # << >>
    BY DEF FeedLineFails, Open
  <1>2. PICK n \in 1 .. Len(w) : wire' = wire \o FromAttempt(SubSeq(w, 1, n - 1))
    BY DEF FeedLineFails
  <1>3. w \in Seq(Lines)
    BY <1>1, GateProperties DEF RelayInv
  <1> DEFINE x == SubSeq(w, 1, n - 1)
  <1>4. x \in Seq(Lines)
    BY <1>2, <1>3
  <1>5. wire \in Seq(WireLine) /\ attempt \in 1 .. Attempts
    BY DEF RelayInv, TypeOK
  <1> HIDE DEF w, x
  <1>6. /\ wire' \in Seq(WireLine)
        /\ Len(wire) \in Nat /\ Len(x) \in Nat
        /\ Len(wire') = Len(wire) + Len(x)
        /\ DOMAIN wire = 1 .. Len(wire)
        /\ DOMAIN wire' = 1 .. Len(wire) + Len(x)
        /\ \A i \in 1 .. Len(wire) : wire'[i] = wire[i]
        /\ \A i \in 1 .. Len(x) :
             wire'[Len(wire) + i] = [from |-> attempt, line |-> x[i]]
    BY <1>2, <1>4, <1>5, WireGrows, LenProperties DEF x
  <1>7. \A i \in Len(wire) + 1 .. Len(wire') : wire'[i].from = attempt
    <2> TAKE i \in Len(wire) + 1 .. Len(wire')
    <2>1. i - Len(wire) \in 1 .. Len(x) /\ i = Len(wire) + (i - Len(wire))
      BY <1>6
    <2>2. wire'[i] = [from |-> attempt, line |-> x[i - Len(wire)]]
      BY <1>6, <2>1
    <2> QED BY <2>2
  <1>8. \A i \in DOMAIN wire' : wire'[i].from = attempt
    <2>1. \A i \in 1 .. Len(wire) : wire'[i].from = attempt
      BY <1>1, <1>6 DEF RelayInv, WireInv, Open
    <2> QED BY <1>6, <1>7, <2>1
  <1>9. /\ pc' = "handle" /\ attempt' = attempt
        /\ result'.error \in {"canceled", "clientWrite"}
    BY DEF FeedLineFails, Return
  <1> QED BY <1>1, <1>6, <1>7, <1>8, <1>9

(* The client is lost in the middle of what a line has let through. *)
LEMMA FeedLineFailsKeepsInv ==
    ASSUME RelayInv, FeedLineFails
    PROVE  RelayInv'
  <1>1. TypeOK'
    <2>1. PICK error \in {"canceled", "clientWrite"} : Return(error, FALSE)
      BY DEF FeedLineFails
    <2>2. /\ pc' = "handle" /\ written' = TRUE /\ UNCHANGED canceled
          /\ result' = [error |-> error, upstreamDone |-> FALSE]
          /\ UNCHANGED <<attempt, format, feed, gate, sent>>
      BY <2>1 DEF FeedLineFails, Return
    <2> QED BY <2>2, PartOfLines DEF RelayInv, TypeOK
  <1> QED BY <1>1, PartOfLines DEF RelayInv, OpenInv, FeedInv, WireInv, Open

(* The body ends. *)
LEMMA BodyEndsKeepsInv ==
    ASSUME RelayInv, BodyEnds
    PROVE  RelayInv'
  <1>1. Open /\ UNCHANGED <<wire, written, canceled>>
    BY DEF BodyEnds, Open
  <1>2. CASE ~gate.sawContent
    BY <1>1, <1>2, AttemptFailsKeepsInv DEF BodyEnds
  <1>3. CASE gate.sawContent
    <2>1. PICK error \in {"canceled", "none"}, done \in BOOLEAN :
            /\ Return(error, done)
            /\ error = "none" => done = gate.sawDone
      BY <1>3 DEF BodyEnds, RelayInv, TypeOK
    <2>2. /\ pc' = "handle"
          /\ result' = [error |-> error, upstreamDone |-> done]
          /\ UNCHANGED <<attempt, format, feed, gate, sent>>
      BY <2>1 DEF Return
    <2>3. TypeOK'
      BY <1>1, <2>2 DEF RelayInv, TypeOK
    <2>4. WireInv'
      <3>1. /\ wire # << >>
            /\ ~TrailingLines => (gate.sawDone <=> DoneOnWire)
            /\ \A i \in DOMAIN wire : wire[i].from = attempt
        BY <1>1, <1>3 DEF RelayInv, OpenInv, WireInv, Open
      <3> QED BY <1>1, <2>1, <2>2, <3>1 DEF WireInv, DoneOnWire
    <2> QED BY <2>2, <2>3, <2>4 DEF RelayInv, OpenInv, FeedInv, Open
  <1> QED BY <1>2, <1>3

(* The handler writes the end of the answer. *)
LEMMA HandleResultKeepsInv ==
    ASSUME RelayInv, HandleResult
    PROVE  RelayInv'
  <1>1. /\ pc' = "end"
        /\ UNCHANGED <<attempt, format, feed, gate, written, canceled, result, sent>>
    BY DEF HandleResult
  <1>2. wire' \in Seq(WireLine)
    <2>1. /\ [from |-> 0, line |-> "done"] \in WireLine
          /\ [from |-> 0, line |-> "error"] \in WireLine
          /\ [from |-> 0, line |-> "failure500"] \in WireLine
      BY RelayAssumption DEF WireLine, Lines
    <2>2. /\ FromHandler("done") \in Seq(WireLine)
          /\ FromHandler("error") \in Seq(WireLine)
          /\ FromHandler("failure500") \in Seq(WireLine)
          /\ Done \in Seq(WireLine)
      BY <2>1 DEF FromHandler, Done
    <2>3. wire \in Seq(WireLine)
      BY DEF RelayInv, TypeOK
    <2>4. result.error \in {"none", "canceled", "clientWrite", "failed"}
      BY DEF RelayInv, TypeOK
    <2>5. \A u, v \in Seq(WireLine) : u \o v \in Seq(WireLine)
      BY ConcatProperties
    <2>6. CASE ClientIsGone
      BY <2>3, <2>6 DEF HandleResult, ClientIsGone
    <2>7. CASE result.error = "none"
      BY <2>2, <2>3, <2>5, <2>7 DEF HandleResult, ClientIsGone
    <2>8. CASE result.error = "failed"
      BY <2>2, <2>3, <2>5, <2>8 DEF HandleResult, ClientIsGone
    <2> QED BY <2>4, <2>6, <2>7, <2>8 DEF ClientIsGone
  <1>3. TypeOK'
    BY <1>1, <1>2 DEF RelayInv, TypeOK
  <1> QED BY <1>1, <1>3 DEF RelayInv, OpenInv, FeedInv, WireInv, Open

(* Every step. *)
LEMMA NextKeepsRelayInv ==
    ASSUME RelayInv, [Next]_vars
    PROVE  RelayInv'
  <1>1. CASE CanceledBeforeCall
    <2>1. /\ pc = "connect" /\ pc' = "handle"
          /\ result' = [error |-> "canceled", upstreamDone |-> FALSE]
          /\ UNCHANGED <<attempt, format, feed, gate, sent, wire, written, canceled>>
      BY <1>1 DEF CanceledBeforeCall, Return
    <2> QED BY <2>1 DEF RelayInv, TypeOK, OpenInv, FeedInv, WireInv, Open
  <1>2. CASE CallAnswered
    BY <1>2 DEF CallAnswered, RelayInv, TypeOK, OpenInv, FeedInv, WireInv, Open, ClientIsGone,
                DoneOnWire
  <1>3. CASE CallRefused
    BY <1>3, AttemptFailsKeepsInv DEF CallRefused, Open
  <1>4. CASE Cancel
    BY <1>4 DEF Cancel, RelayInv, TypeOK, OpenInv, FeedInv, WireInv, Open, DoneOnWire, ClientIsGone
  <1>5. CASE Read
    BY <1>5, ReadKeepsInv
  <1>6. CASE FeedLine
    BY <1>6, FeedLineKeepsInv
  <1>7. CASE FeedLineFails
    BY <1>7, FeedLineFailsKeepsInv
  <1>8. CASE BodyEnds
    BY <1>8, BodyEndsKeepsInv
  <1>9. CASE BodyBreaks
    BY <1>9, AttemptFailsKeepsInv DEF BodyBreaks, Open
  <1>10. CASE HandleResult
    BY <1>10, HandleResultKeepsInv
  <1>11. CASE UNCHANGED vars
    BY <1>11 DEF vars, RelayInv, TypeOK, OpenInv, FeedInv, WireInv, Open, DoneOnWire, ClientIsGone
  <1> QED
    BY <1>1, <1>2, <1>3, <1>4, <1>5, <1>6, <1>7, <1>8, <1>9, <1>10, <1>11 DEF Next

(* The invariant holds throughout.                                            *)
LEMMA RelayInvariant == Spec => []RelayInv
  <1>1. Init => RelayInv
    BY InitRelayInv
  <1>2. RelayInv /\ [Next]_vars => RelayInv'
    BY NextKeepsRelayInv
  <1> QED BY <1>1, <1>2, PTL DEF Spec

(* The variables of the relay keep their types. *)
THEOREM RelayTypeCorrect == Spec => []TypeOK
  <1>1. RelayInv => TypeOK
    BY DEF RelayInv
  <1> QED BY <1>1, RelayInvariant, PTL

-----------------------------------------------------------------------------
(* What the gate owes, line by line.                                          *)
Kept == Lines \ {"done"}

(* Of no line, nothing is owed.                                               *)
LEMMA OwedEmpty == Owed(<< >>) = << >>
  <1>1. "content" \notin Range(<< >>)
    BY DEF Range
  <1> QED BY <1>1 DEF Owed

(* A line is owed to the client once one has content, with the first of those *)
(* what came before it, and nothing as long as there is none.                 *)
LEMMA OwedAppend ==
    ASSUME NEW lines \in Seq(Lines), NEW line \in Lines
    PROVE  /\ Owed(lines) \in Seq(Lines)
           /\ Owed(Append(lines, line)) =
                IF "content" \in Range(lines) THEN Append(Owed(lines), line)
                ELSE IF line = "content" THEN Append(Only(lines, Kept), line)
                ELSE << >>
  <1> DEFINE u == Append(lines, line)
             n == Len(lines)
  <1>1. /\ u \in Seq(Lines) /\ Len(u) = n + 1 /\ n \in Nat /\ u[n + 1] = line
        /\ DOMAIN u = 1 .. n + 1 /\ DOMAIN lines = 1 .. n
        /\ \A i \in 1 .. n : u[i] = lines[i]
    OBVIOUS
  <1> HIDE DEF u
  <1>2. ASSUME "content" \in Range(lines)
        PROVE  /\ Owed(lines) \in Seq(Lines)
               /\ Owed(u) = Append(Owed(lines), line)
    <2> DEFINE f == CHOOSE i \in DOMAIN lines : IsFirstContent(lines, i)
               g == CHOOSE i \in DOMAIN u : IsFirstContent(u, i)
    <2>1. f \in 1 .. n /\ IsFirstContent(lines, f)
      <3> DEFINE T == {i \in 1 .. n : lines[i] = "content"}
      <3>1. T \in SUBSET Nat /\ T # {}
        BY <1>1, <1>2 DEF Range
      <3>2. PICK i \in T : \A j \in T : i <= j
        BY <3>1, LeastNatural
      <3>3. \A j \in 1 .. i - 1 : j \in 1 .. n /\ ~(i <= j)
        BY <1>1, <3>2
      <3>4. IsFirstContent(lines, i)
        BY <3>2, <3>3 DEF IsFirstContent
      <3> QED BY <1>1, <3>2, <3>4
    <2>2. g \in 1 .. n + 1 /\ IsFirstContent(u, g)
      <3>1. IsFirstContent(u, f)
        BY <1>1, <2>1 DEF IsFirstContent
      <3> QED BY <1>1, <2>1, <3>1
    <2> HIDE DEF f, g
    <2>3. f = g
      BY <1>1, <2>1, <2>2 DEF IsFirstContent
    <2>4. "content" \in Range(u)
      BY <1>1, <2>1 DEF Range, IsFirstContent
    <2> DEFINE a == SubSeq(lines, 1, f - 1)
               b == SubSeq(lines, f, n)
    <2>5. /\ a \in Seq(Lines) /\ b \in Seq(Lines)
          /\ SubSeq(u, 1, f - 1) = a
          /\ SubSeq(u, f, n + 1) = Append(b, line)
      BY <1>1, <2>1 DEF u
    <2>6. Only(a, Kept) \in Seq(Lines)
      BY <2>5, OnlyTyped
    <2>7. Owed(lines) = Only(a, Kept) \o b
      BY <1>2 DEF Owed, f, Kept
    <2>8. Owed(u) = Only(a, Kept) \o Append(b, line)
      BY <1>1, <2>3, <2>4, <2>5 DEF Owed, g, Kept
    <2> HIDE DEF a, b
    <2>9. Only(a, Kept) \o Append(b, line) = Append(Only(a, Kept) \o b, line)
      BY <2>5, <2>6
    <2> QED BY <2>5, <2>6, <2>7, <2>8, <2>9
  <1>3. ASSUME "content" \notin Range(lines)
        PROVE  Owed(lines) = << >>
    BY <1>3 DEF Owed
  <1>4. ASSUME "content" \notin Range(lines), line = "content"
        PROVE  Owed(u) = Append(Only(lines, Kept), line)
    <2> DEFINE g == CHOOSE i \in DOMAIN u : IsFirstContent(u, i)
    <2>1. \A i \in 1 .. n : u[i] # "content"
      BY <1>1, <1>4 DEF Range
    <2>2. IsFirstContent(u, n + 1)
      BY <1>1, <1>4, <2>1 DEF IsFirstContent
    <2>3. g \in 1 .. n + 1 /\ IsFirstContent(u, g)
      BY <1>1, <2>2
    <2> HIDE DEF g
    <2>4. g = n + 1
      BY <1>1, <2>1, <2>3 DEF IsFirstContent
    <2>5. "content" \in Range(u)
      BY <1>1, <1>4 DEF Range
    <2>6. SubSeq(u, 1, n) = lines /\ SubSeq(u, n + 1, n + 1) = <<line>> /\ (n + 1) - 1 = n
      <3>1. SubSeq(u, 1, n) = lines
        BY <1>1
      <3>2. SubSeq(u, n + 1, n + 1) = <<line>>
        <4> DEFINE x == SubSeq(u, n + 1, n + 1)
        <4>1. x \in Seq(Lines) /\ Len(x) = 1 /\ x[1] = line
          BY <1>1
        <4> HIDE DEF x
        <4>2. /\ <<line>> \in Seq(Lines) /\ Len(<<line>>) = 1 /\ <<line>>[1] = line
          OBVIOUS
        <4>3. x = <<line>>
          BY <4>1, <4>2, SeqEqual
        <4> QED BY <4>3 DEF x
      <3> QED BY <1>1, <3>1, <3>2
    <2>7. Owed(u) = Only(lines, Kept) \o <<line>>
      BY <1>1, <2>4, <2>5, <2>6 DEF Owed, g, Kept
    <2>8. Only(lines, Kept) \in Seq(Lines)
      BY OnlyTyped
    <2> QED BY <2>7, <2>8
  <1>5. ASSUME "content" \notin Range(lines), line # "content"
        PROVE  Owed(u) = << >>
    <2>1. "content" \notin Range(u)
      BY <1>1, <1>5 DEF Range
    <2> QED BY <2>1 DEF Owed
  <1> QED BY <1>2, <1>3, <1>4, <1>5, EmptySeq DEF u

(* What is owed only grows with the lines.                                    *)
LEMMA OwedGrows ==
    ASSUME NEW lines \in Seq(Lines), NEW more \in Seq(Lines)
    PROVE  IsPrefix(Owed(lines), Owed(lines \o more))
  <1> DEFINE P == {t \in Seq(Lines) : IsPrefix(Owed(lines), Owed(lines \o t))}
             o == Owed(lines)
  <1>1. << >> \in P
    <2>1. lines \o << >> = lines /\ o \in Seq(Lines) /\ << >> \in Seq(Lines)
      BY OwedAppend DEF Lines
    <2> HIDE DEF o
    <2>2. IsPrefix(o, o)
      BY <2>1 DEF IsPrefix
    <2> QED BY <2>1, <2>2 DEF o
  <1>2. \A t \in Seq(Lines), e \in Lines : t \in P => Append(t, e) \in P
    <2> SUFFICES ASSUME NEW t \in Seq(Lines), NEW e \in Lines, IsPrefix(o, Owed(lines \o t))
                 PROVE  Append(t, e) \in P
      OBVIOUS
    <2> DEFINE u == lines \o t
               v == Owed(u)
               w == Owed(Append(u, e))
    <2>1. /\ u \in Seq(Lines) /\ Append(t, e) \in Seq(Lines)
          /\ lines \o Append(t, e) = Append(u, e)
      OBVIOUS
    <2> HIDE DEF u
    <2>2. /\ o \in Seq(Lines) /\ v \in Seq(Lines) /\ w \in Seq(Lines)
          /\ v = << >> \/ w = Append(v, e)
      <3>1. w \in Seq(Lines)
        <4>1. Append(u, e) \in Seq(Lines)
          BY <2>1
        <4> QED BY <4>1, OwedAppend
      <3>2. "content" \notin Range(u) => v = << >>
        BY DEF Owed
      <3> QED BY <2>1, <3>1, <3>2, OwedAppend
    <2> HIDE DEF o, v, w
    <2>3. IsPrefix(o, v)
      BY DEF o, u, v
    <2>4. IsPrefix(o, w)
      <3>1. CASE v = << >>
        <4>1. Len(o) <= Len(v) /\ Len(v) = 0 /\ Len(o) \in Nat /\ Len(w) \in Nat
          <5>1. Len(o) <= Len(v)
            BY <2>3 DEF IsPrefix
          <5> QED BY <2>2, <3>1, <5>1
        <4>2. Len(o) = 0 /\ Len(o) <= Len(w) /\ \A i \in 1 .. Len(o) : o[i] = w[i]
          BY <4>1
        <4> QED BY <2>2, <4>2, PrefixIs
      <3>2. CASE w = Append(v, e)
        BY <2>2, <2>3, <3>2, PrefixAppend
      <3> QED BY <2>2, <3>1, <3>2
    <2> QED BY <2>1, <2>4 DEF o, w
  <1> HIDE DEF P
  <1>3. more \in P
    BY <1>1, <1>2, SeqInduction
  <1> QED BY <1>3 DEF P

-----------------------------------------------------------------------------
(* What is heard of an attempt on a wire.                                     *)
LinesOf(w, from) ==
    LET those == Only(w, {x \in WireLine : x.from = from})
    IN  [i \in DOMAIN those |-> those[i].line]

(* If all of it comes from one, that one is heard, and nobody else.           *)
LEMMA OneVoice ==
    ASSUME NEW w \in Seq(WireLine), NEW a, \A i \in DOMAIN w : w[i].from = a
    PROVE  /\ LinesOf(w, a) = [i \in 1 .. Len(w) |-> w[i].line]
           /\ \A b : b # a => LinesOf(w, b) = << >>
  <1>1. DOMAIN w = 1 .. Len(w) /\ \A i \in 1 .. Len(w) : w[i] \in WireLine
    OBVIOUS
  <1>2. Only(w, {x \in WireLine : x.from = a}) = w
    BY <1>1, OnlyAll
  <1>3. ASSUME NEW b, b # a PROVE LinesOf(w, b) = << >>
    <2>1. Only(w, {x \in WireLine : x.from = b}) = << >>
      BY <1>1, <1>3, OnlyNone
    <2>2. LinesOf(w, b) = [i \in DOMAIN << >> |-> << >>[i].line]
      BY <2>1 DEF LinesOf
    <2>3. DOMAIN << >> = 1 .. 0
      OBVIOUS
    <2> QED BY <2>2, <2>3
  <1> QED BY <1>1, <1>2, <1>3 DEF LinesOf

(* What another one says changes nothing.                                     *)
LEMMA OthersAreSilent ==
    ASSUME NEW w \in Seq(WireLine), NEW e \in WireLine, NEW a, e.from # a
    PROVE  LinesOf(Append(w, e), a) = LinesOf(w, a)
  <1>1. Only(Append(w, e), {x \in WireLine : x.from = a})
          = Only(w, {x \in WireLine : x.from = a})
    BY OnlyAppend
  <1> QED BY <1>1 DEF LinesOf

(* The gate knows whether anything had content and, as long as nothing had,   *)
(* holds back all there was; and the client has heard what it owes.           *)
HeardInv ==
    /\ Open =>
         /\ gate.sawContent <=> "content" \in Range(sent)
         /\ ~gate.sawContent => gate.preamble = Only(sent, Kept)
         /\ LinesFrom(attempt) = Owed(sent)
    /\ RelayIsFaithful

(* While an attempt goes on, all of the wire is what it has said.             *)
LEMMA HeardOnOpenWire ==
    ASSUME RelayInv, Open
    PROVE  /\ LinesFrom(attempt) = [i \in 1 .. Len(wire) |-> wire[i].line]
           /\ \A b : b # attempt => LinesFrom(b) = << >>
  <1>1. wire \in Seq(WireLine) /\ \A i \in DOMAIN wire : wire[i].from = attempt
    BY DEF RelayInv, TypeOK, WireInv, Open
  <1>2. \A b : LinesFrom(b) = LinesOf(wire, b)
    BY DEF LinesFrom, LinesOf
  <1>3. /\ LinesOf(wire, attempt) = [i \in 1 .. Len(wire) |-> wire[i].line]
        /\ \A b : b # attempt => LinesOf(wire, b) = << >>
    BY <1>1, OneVoice
  <1> QED BY <1>2, <1>3

(* Nothing is sent at first, and nothing is owed.                             *)
LEMMA InitHeardInv == Init => HeardInv
  <1> SUFFICES ASSUME Init PROVE HeardInv
    OBVIOUS
  <1>1. /\ Open /\ wire = << >> /\ sent = << >> /\ feed = << >> /\ attempt = 1
        /\ gate = NewGate
    BY DEF Init, Open
  <1>2. \A a : LinesFrom(a) = << >>
    BY <1>1, OnlyEmpty DEF LinesFrom
  <1>3. << >> \o << >> = << >> /\ IsPrefix(<< >>, << >>) /\ "content" \notin Range(<< >>)
    BY DEF Range, IsPrefix
  <1>4. gate.preamble = Only(sent, Kept) /\ ~gate.sawContent
    BY <1>1, OnlyEmpty DEF NewGate
  <1> QED BY <1>1, <1>2, <1>3, <1>4, OwedEmpty DEF HeardInv, RelayIsFaithful

(* An attempt is over, and another one may begin, of which nothing is heard.  *)
LEMMA AttemptFailsKeepsHeard ==
    ASSUME RelayInv, HeardInv, Open, AttemptFails, UNCHANGED <<wire, written, canceled>>
    PROVE  HeardInv'
  <1>1. CASE canceled \/ written \/ attempt = Attempts
    <2>1. /\ UNCHANGED <<attempt, wire, feed, sent, canceled>> /\ ~Open'
          /\ \A a : LinesFrom(a)' = LinesFrom(a)
      BY <1>1 DEF AttemptFails, Return, Open, LinesFrom
    <2> QED BY <2>1 DEF HeardInv, RelayIsFaithful
  <1>2. CASE ~canceled /\ ~written /\ attempt # Attempts
    <2>1. wire = << >>
      BY <1>2 DEF RelayInv, OpenInv
    <2>2. /\ Open' /\ gate' = NewGate /\ feed' = << >> /\ sent' = << >> /\ wire' = << >>
      BY <1>2, <2>1 DEF AttemptFails, NextAttempt, Open
    <2>3. \A a : LinesFrom(a)' = << >>
      BY <2>2, OnlyEmpty DEF LinesFrom
    <2>4. << >> \o << >> = << >> /\ IsPrefix(<< >>, << >>) /\ "content" \notin Range(<< >>)
      BY DEF Range, IsPrefix
    <2>5. gate'.preamble = Only(sent', Kept) /\ ~gate'.sawContent
      BY <2>2, OnlyEmpty DEF NewGate
    <2> QED BY <2>2, <2>3, <2>4, <2>5, OwedEmpty DEF HeardInv, RelayIsFaithful
  <1> QED BY <1>1, <1>2

(* What comes of the line that is fed.                                        *)
LEMMA FedLine ==
    ASSUME RelayInv, Open, feed # << >>
    PROVE  /\ sent \in Seq(Lines) /\ feed \in Seq(Lines)
           /\ Head(feed) \in Lines /\ Tail(feed) \in Seq(Lines)
           /\ Append(sent, Head(feed)) \in Seq(Lines)
           /\ Append(sent, Head(feed)) \o Tail(feed) = sent \o feed
           /\ IsPrefix(Owed(Append(sent, Head(feed))), Owed(sent \o feed))
  <1>1. sent \in Seq(Lines) /\ feed \in Seq(Lines)
    BY DEF RelayInv, TypeOK
  <1>2. Head(feed) \in Lines /\ Tail(feed) \in Seq(Lines)
    BY <1>1, HeadTailProperties
  <1>3. Append(sent, Head(feed)) \in Seq(Lines)
    BY <1>1, <1>2
  <1>4. Append(sent, Head(feed)) \o Tail(feed) = sent \o feed
    BY <1>1, <1>2
  <1> QED BY <1>1, <1>2, <1>3, <1>4, OwedGrows

(* The client has heard what was owed, and hears what the gate lets through:  *)
(* what is owed with this line.                                               *)
LEMMA OwedWithLine ==
    ASSUME RelayInv, HeardInv, Open, feed # << >>,
           NEW w, w = LinesToWrite(gate, Head(feed))
    PROVE  /\ w \in Seq(Lines) /\ Owed(sent) \in Seq(Lines)
           /\ Owed(Append(sent, Head(feed))) = Owed(sent) \o w
  <1>1. w \in Seq(Lines)
    BY FeedLineEffect
  <1>2. sent \in Seq(Lines) /\ Head(feed) \in Lines /\ gate.preamble \in Seq(Lines)
    BY FedLine DEF RelayInv, TypeOK
  <1>3. Owed(sent) \in Seq(Lines)
    BY <1>2, OwedAppend
  <1>4. CASE gate.sawContent
    <2>1. w = <<Head(feed)>> /\ "content" \in Range(sent)
      BY <1>4 DEF LinesToWrite, HeardInv
    <2>2. Owed(Append(sent, Head(feed))) = Append(Owed(sent), Head(feed))
      BY <1>2, <2>1, OwedAppend
    <2> DEFINE o == Owed(sent)
               h == Head(feed)
    <2>3. o \in Seq(Lines) /\ h \in Lines
      BY <1>2, <1>3
    <2> HIDE DEF o, h
    <2>4. Append(o, h) = o \o <<h>>
      BY <2>3
    <2> QED BY <1>1, <1>3, <2>1, <2>2, <2>4 DEF o, h
  <1>5. CASE ~gate.sawContent
    <2>1. "content" \notin Range(sent) /\ gate.preamble = Only(sent, Kept)
      BY <1>5 DEF HeardInv
    <2>2. Owed(sent) = << >>
      BY <2>1 DEF Owed
    <2>3. Owed(Append(sent, Head(feed))) = w
      BY <1>2, <1>5, <2>1, OwedAppend DEF LinesToWrite
    <2> QED BY <1>1, <1>3, <2>2, <2>3
  <1> QED BY <1>1, <1>3, <1>4, <1>5

(* What an attempt puts behind what it has said is heard behind it.           *)
LEMMA HeardGrows ==
    ASSUME NEW v \in Seq(WireLine), NEW lines \in Seq(Lines), attempt \in 1 .. Attempts,
           \A i \in DOMAIN v : v[i].from = attempt,
           NEW u, u = v \o FromAttempt(lines)
    PROVE  /\ LinesOf(v, attempt) \in Seq(Lines \cup {"error", "failure500"})
           /\ LinesOf(u, attempt) = LinesOf(v, attempt) \o lines
           /\ \A b : b # attempt => LinesOf(u, b) = << >>
  <1> DEFINE All  == Lines \cup {"error", "failure500"}
             a    == attempt
             said == [i \in 1 .. Len(v) |-> v[i].line]
             says == [i \in 1 .. Len(u) |-> u[i].line]
  <1>1. /\ u \in Seq(WireLine) /\ Len(u) = Len(v) + Len(lines)
        /\ DOMAIN u = 1 .. Len(v) + Len(lines)
        /\ \A i \in 1 .. Len(v) : u[i] = v[i]
        /\ \A i \in 1 .. Len(lines) : u[Len(v) + i] = [from |-> a, line |-> lines[i]]
    BY WireGrows
  <1>2. /\ Len(v) \in Nat /\ Len(lines) \in Nat /\ DOMAIN v = 1 .. Len(v)
        /\ \A i \in 1 .. Len(v) : v[i] \in WireLine
        /\ \A i \in 1 .. Len(lines) : lines[i] \in Lines
    OBVIOUS
  <1>3. LinesOf(v, a) = said
    BY OneVoice
  <1>4. \A i \in DOMAIN u : u[i].from = a
    <2> TAKE i \in DOMAIN u
    <2>1. CASE i \in 1 .. Len(v)
      BY <1>1, <1>2, <2>1
    <2>2. CASE i \notin 1 .. Len(v)
      <3>1. i - Len(v) \in 1 .. Len(lines) /\ Len(v) + (i - Len(v)) = i
        BY <1>1, <1>2, <2>2
      <3>2. u[i] = [from |-> a, line |-> lines[i - Len(v)]]
        BY <1>1, <3>1
      <3> QED BY <3>2
    <2> QED BY <2>1, <2>2
  <1>5. LinesOf(u, a) = says /\ \A b : b # a => LinesOf(u, b) = << >>
    BY <1>1, <1>4, OneVoice
  <1>6. /\ said \in Seq(All) /\ Len(said) = Len(v)
        /\ \A i \in 1 .. Len(v) : said[i] = v[i].line
    BY <1>2 DEF WireLine
  <1>7. /\ says \in Seq(All) /\ Len(says) = Len(v) + Len(lines)
        /\ \A i \in 1 .. Len(v) + Len(lines) : says[i] = u[i].line
    <2>1. \A i \in 1 .. Len(u) : u[i].line \in All
      <3>1. \A i \in 1 .. Len(u) : u[i] \in WireLine
        BY <1>1
      <3>2. \A y \in WireLine : y.line \in All
        BY DEF WireLine
      <3> QED BY <3>1, <3>2
    <2>2. Len(u) \in Nat
      BY <1>1
    <2> QED BY <1>1, <2>1, <2>2
  <1>8. lines \in Seq(All)
    BY <1>2
  <1> HIDE DEF said, says, All, a
  <1>9. /\ said \o lines \in Seq(All)
        /\ Len(said \o lines) = Len(v) + Len(lines)
        /\ \A i \in 1 .. Len(v) + Len(lines) :
             (said \o lines)[i] = IF i <= Len(v) THEN said[i] ELSE lines[i - Len(v)]
    BY <1>6, <1>8
  <1>10. \A i \in 1 .. Len(says) : says[i] = (said \o lines)[i]
    <2> TAKE i \in 1 .. Len(says)
    <2>1. i \in 1 .. Len(v) + Len(lines) /\ says[i] = u[i].line
      BY <1>7
    <2>2. CASE i <= Len(v)
      BY <1>1, <1>2, <1>6, <1>9, <2>1, <2>2
    <2>3. CASE ~(i <= Len(v))
      <3>1. i - Len(v) \in 1 .. Len(lines) /\ Len(v) + (i - Len(v)) = i
        BY <1>2, <2>1, <2>3
      <3>2. u[i] = [from |-> a, line |-> lines[i - Len(v)]]
        BY <1>1, <3>1
      <3> QED BY <1>9, <2>1, <2>3, <3>2
    <2> QED BY <2>2, <2>3
  <1>11. says = said \o lines
    BY <1>7, <1>9, <1>10, SeqEqual
  <1> QED BY <1>3, <1>5, <1>6, <1>11 DEF a, All

(* A line passes the gate.                                                    *)
LEMMA FeedLineKeepsHeard ==
    ASSUME RelayInv, HeardInv, FeedLine
    PROVE  HeardInv'
  <1> DEFINE line == Head(feed)
             w    == LinesToWrite(gate, line)
  <1>1. /\ Open /\ Open' /\ feed # << >> /\ wire' = wire \o FromAttempt(w)
        /\ gate' = GateAfter(gate, line) /\ sent' = Append(sent, line)
        /\ feed' = Tail(feed) /\ UNCHANGED <<attempt, canceled, result>>
    BY DEF FeedLine, Open
  <1>2. /\ sent \in Seq(Lines) /\ line \in Lines /\ sent' \in Seq(Lines)
        /\ sent' \o feed' = sent \o feed
        /\ IsPrefix(Owed(sent'), Owed(sent' \o feed'))
    BY <1>1, FedLine
  <1>3. w \in Seq(Lines) /\ Owed(sent') = Owed(sent) \o w
    BY <1>1, OwedWithLine
  <1>4. /\ wire \in Seq(WireLine) /\ attempt \in 1 .. Attempts
        /\ \A i \in DOMAIN wire : wire[i].from = attempt
    BY <1>1 DEF RelayInv, TypeOK, WireInv, Open
  <1> HIDE DEF w, line
  <1>5. /\ LinesOf(wire', attempt) = LinesOf(wire, attempt) \o w
        /\ \A b : b # attempt => LinesOf(wire', b) = << >>
    BY <1>1, <1>3, <1>4, HeardGrows
  <1>6. /\ LinesFrom(attempt)' = Owed(sent')
        /\ \A i \in 1 .. attempt' - 1 : LinesFrom(i)' = << >>
    <2>1. LinesOf(wire, attempt) = Owed(sent)
      BY <1>1 DEF HeardInv, LinesFrom, LinesOf
    <2>2. \A b : b # attempt => LinesFrom(b)' = << >>
      BY <1>1, <1>5 DEF LinesFrom, LinesOf
    <2>3. LinesFrom(attempt)' = LinesOf(wire', attempt)
      BY <1>1 DEF LinesFrom, LinesOf
    <2>4. \A i \in 1 .. attempt' - 1 : i # attempt
      BY <1>1, <1>4
    <2> QED BY <1>3, <1>5, <2>1, <2>2, <2>3, <2>4
  <1>7. "content" \in Range(sent') <=> "content" \in Range(sent) \/ line = "content"
    <2>1. /\ DOMAIN sent = 1 .. Len(sent) /\ DOMAIN sent' = 1 .. Len(sent) + 1
          /\ Len(sent) \in Nat
          /\ sent'[Len(sent) + 1] = line
          /\ \A i \in 1 .. Len(sent) : sent'[i] = sent[i]
      BY <1>1, <1>2
    <2> QED BY <2>1 DEF Range
  <1>8. gate'.sawContent <=> gate.sawContent \/ line = "content"
    BY <1>1 DEF GateAfter, RelayInv, TypeOK
  <1>9. ~gate'.sawContent => gate'.preamble = Only(sent', Kept)
    <2> HAVE ~gate'.sawContent
    <2>1. ~gate.sawContent /\ line # "content" /\ gate.preamble = Only(sent, Kept)
      BY <1>1, <1>8 DEF HeardInv
    <2>2. Only(sent', Kept) = IF line \in Kept THEN Append(Only(sent, Kept), line)
                              ELSE Only(sent, Kept)
      BY <1>1, <1>2, OnlyAppend
    <2>3. gate'.preamble = IF line = "done" THEN gate.preamble
                           ELSE Append(gate.preamble, line)
      BY <1>1, <2>1 DEF GateAfter, RelayInv, TypeOK
    <2> QED BY <1>2, <2>1, <2>2, <2>3 DEF Kept
  <1>10. gate'.sawContent <=> "content" \in Range(sent')
    BY <1>1, <1>7, <1>8 DEF HeardInv
  <1>11. RelayIsFaithful'
    BY <1>1, <1>2, <1>6 DEF RelayIsFaithful
  <1> QED BY <1>1, <1>6, <1>9, <1>10, <1>11 DEF HeardInv

(* The client is lost: what it has heard is the beginning of what is owed.    *)
LEMMA FeedLineFailsKeepsHeard ==
    ASSUME RelayInv, HeardInv, FeedLineFails
    PROVE  HeardInv'
  <1> DEFINE line == Head(feed)
             w    == LinesToWrite(gate, line)
             o    == Owed(sent)
             p    == Owed(sent \o feed)
  <1>1. /\ Open /\ ~Open' /\ feed # << >>
        /\ UNCHANGED <<attempt, feed, sent, canceled>>
        /\ result'.error = IF canceled THEN "canceled" ELSE "clientWrite"
    BY DEF FeedLineFails, Open, Return
  <1>2. PICK n \in 1 .. Len(w) : wire' = wire \o FromAttempt(SubSeq(w, 1, n - 1))
    BY DEF FeedLineFails
  <1>3. /\ sent \in Seq(Lines) /\ feed \in Seq(Lines)
        /\ IsPrefix(Owed(Append(sent, line)), p)
    BY <1>1, FedLine
  <1>4. w \in Seq(Lines) /\ o \in Seq(Lines) /\ Owed(Append(sent, line)) = o \o w
    BY <1>1, OwedWithLine
  <1>5. p \in Seq(Lines)
    <2>1. sent \o feed \in Seq(Lines) /\ "done" \in Lines
      BY <1>3 DEF Lines
    <2> QED BY <2>1, OwedAppend
  <1>6. /\ wire \in Seq(WireLine) /\ attempt \in 1 .. Attempts
        /\ \A i \in DOMAIN wire : wire[i].from = attempt
    BY <1>1 DEF RelayInv, TypeOK, WireInv, Open
  <1> DEFINE x == SubSeq(w, 1, n - 1)
  <1> HIDE DEF w, o, p, line
  <1>7. /\ x \in Seq(Lines) /\ Len(x) = n - 1
        /\ \A i \in 1 .. n - 1 : x[i] = w[i]
    BY <1>2, <1>4
  <1>8. wire' = wire \o FromAttempt(x)
    BY <1>2
  <1> HIDE DEF x
  <1>9. /\ LinesOf(wire', attempt) = LinesOf(wire, attempt) \o x
        /\ \A b : b # attempt => LinesOf(wire', b) = << >>
    BY <1>6, <1>7, <1>8, HeardGrows
  <1>10. /\ LinesFrom(attempt)' = o \o x
         /\ \A i \in 1 .. attempt' - 1 : LinesFrom(i)' = << >>
    <2>1. LinesOf(wire, attempt) = o
      BY <1>1 DEF HeardInv, LinesFrom, LinesOf, o
    <2>2. \A b : b # attempt => LinesFrom(b)' = << >>
      BY <1>1, <1>9 DEF LinesFrom, LinesOf
    <2>3. LinesFrom(attempt)' = LinesOf(wire', attempt)
      BY <1>1 DEF LinesFrom, LinesOf
    <2>4. \A i \in 1 .. attempt' - 1 : i # attempt
      BY <1>1, <1>6
    <2> QED BY <1>9, <2>1, <2>2, <2>3, <2>4
  <1>11. IsPrefix(o \o x, p)
    <2>1. Len(o) \in Nat /\ Len(w) \in Nat /\ n \in 1 .. Len(w)
      BY <1>2, <1>4
    <2>2. /\ o \o w \in Seq(Lines) /\ Len(o \o w) = Len(o) + Len(w)
          /\ \A i \in 1 .. Len(o) + Len(w) :
               (o \o w)[i] = IF i <= Len(o) THEN o[i] ELSE w[i - Len(o)]
      BY <1>4
    <2>3. /\ o \o x \in Seq(Lines) /\ Len(o \o x) = Len(o) + (n - 1)
          /\ \A i \in 1 .. Len(o) + (n - 1) :
               (o \o x)[i] = IF i <= Len(o) THEN o[i] ELSE x[i - Len(o)]
      <3>1. /\ o \o x \in Seq(Lines) /\ Len(o \o x) = Len(o) + Len(x)
            /\ \A i \in 1 .. Len(o) + Len(x) :
                 (o \o x)[i] = IF i <= Len(o) THEN o[i] ELSE x[i - Len(o)]
        <4>1. o \in Seq(Lines) /\ x \in Seq(Lines)
          BY <1>4, <1>7
        <4> QED BY <4>1, ConcatProperties
      <3> QED BY <1>7, <3>1
    <2>4. \A i \in 1 .. Len(o \o x) : (o \o x)[i] = (o \o w)[i]
      BY <1>7, <2>1, <2>2, <2>3
    <2>5. /\ Len(o \o w) <= Len(p)
          /\ \A i \in 1 .. Len(o \o w) : (o \o w)[i] = p[i]
      BY <1>3, <1>4, <1>5, <2>2, PrefixIs
    <2>6. /\ Len(o \o x) <= Len(p)
          /\ \A i \in 1 .. Len(o \o x) : (o \o x)[i] = p[i]
      <3>1. 1 .. Len(o \o x) \subseteq 1 .. Len(o \o w) /\ Len(o \o x) <= Len(o \o w)
        BY <2>1, <2>2, <2>3
      <3>2. Len(p) \in Nat
        BY <1>5
      <3>3. Len(o \o x) <= Len(p)
        BY <2>1, <2>2, <2>3, <2>5, <3>2
      <3> QED BY <2>4, <2>5, <3>1, <3>3
    <2> QED BY <1>5, <2>3, <2>6, PrefixIs
  <1>12. RelayIsFaithful'
    BY <1>1, <1>10, <1>11 DEF RelayIsFaithful, p
  <1> QED BY <1>1, <1>12 DEF HeardInv

(* More lines to feed make more that may be owed.                             *)
LEMMA ReadKeepsHeard ==
    ASSUME RelayInv, RelayInv', HeardInv, Read
    PROVE  HeardInv'
  <1>1. /\ Open /\ Open' /\ UNCHANGED <<attempt, gate, wire, canceled, result, sent>>
    BY DEF Read, ReadSSELine, ReadOllamaChunk, ReadJSONAnswer, Open
  <1>2. \A a : LinesFrom(a)' = LinesFrom(a)
    BY <1>1 DEF LinesFrom
  <1>3. sent \in Seq(Lines) /\ feed' \in Seq(Lines)
    BY DEF RelayInv, TypeOK
  <1>4. IsPrefix(Owed(sent), Owed(sent \o feed'))
    BY <1>3, OwedGrows
  <1> QED BY <1>1, <1>2, <1>4 DEF HeardInv, RelayIsFaithful

(* What the handler adds is no model's.                                       *)
LEMMA HandleResultKeepsHeard ==
    ASSUME RelayInv, HeardInv, HandleResult
    PROVE  HeardInv'
  <1>1. /\ ~Open /\ ~Open' /\ UNCHANGED <<attempt, feed, canceled, result, sent>>
    BY DEF HandleResult, Open
  <1>2. /\ wire \in Seq(WireLine) /\ attempt \in 1 .. Attempts
        /\ result.error \in {"none", "canceled", "clientWrite", "failed"}
    BY DEF RelayInv, TypeOK
  <1> DEFINE Said(line) == [from |-> 0, line |-> line]
  <1>3. \A line \in {"done", "error", "failure500"} :
          Said(line) \in WireLine /\ Said(line).from = 0
    BY RelayAssumption DEF WireLine, Lines
  <1>4. ASSUME NEW w \in Seq(WireLine), NEW line \in {"done", "error", "failure500"}
        PROVE  /\ w \o FromHandler(line) \in Seq(WireLine)
               /\ \A a \in 1 .. Attempts :
                    LinesOf(w \o FromHandler(line), a) = LinesOf(w, a)
    <2> DEFINE e == Said(line)
    <2>1. e \in WireLine /\ e.from = 0 /\ FromHandler(line) = <<e>>
      BY <1>3 DEF FromHandler
    <2> HIDE DEF e
    <2>2. w \o <<e>> = Append(w, e) /\ Append(w, e) \in Seq(WireLine)
      BY <2>1
    <2>3. \A a \in 1 .. Attempts : LinesOf(Append(w, e), a) = LinesOf(w, a)
      <3> TAKE a \in 1 .. Attempts
      <3>1. e.from # a
        BY <2>1, RelayAssumption
      <3> QED BY <2>1, <3>1, OthersAreSilent
    <2> QED BY <2>1, <2>2, <2>3
  <1> DEFINE Quiet(w) == /\ w \in Seq(WireLine)
                         /\ \A a \in 1 .. Attempts : LinesOf(w, a) = LinesOf(wire, a)
  <1>5. ASSUME NEW w, Quiet(w), NEW line \in {"done", "error", "failure500"}
        PROVE  Quiet(w \o FromHandler(line))
    BY <1>4, <1>5
  <1>6. Quiet(wire)
    BY <1>2
  <1>7. ASSUME NEW w, Quiet(w) PROVE Quiet(w \o Done)
    <2>1. CASE result.upstreamDone
      <3>1. w \o Done = w
        BY <1>7, <2>1 DEF Done
      <3> QED BY <1>7, <3>1
    <2>2. CASE ~result.upstreamDone
      BY <1>5, <1>7, <2>2 DEF Done
    <2> QED BY <2>1, <2>2
  <1> HIDE DEF Quiet
  <1>8. Quiet(wire')
    <2>1. CASE ClientIsGone
      <3>1. wire' = wire
        BY <2>1 DEF HandleResult, ClientIsGone
      <3> QED BY <1>6, <3>1
    <2>2. CASE result.error = "none"
      <3>1. wire' = wire \o Done
        BY <2>2 DEF HandleResult, ClientIsGone
      <3> QED BY <1>6, <1>7, <3>1
    <2>3. CASE result.error = "failed" /\ written
      <3>1. wire' = wire \o FromHandler("error") \o Done
        BY <2>3 DEF HandleResult, ClientIsGone
      <3> QED BY <1>5, <1>6, <1>7, <3>1
    <2>4. CASE result.error = "failed" /\ ~written
      <3>1. wire' = wire \o FromHandler("failure500")
        BY <2>4 DEF HandleResult, ClientIsGone
      <3> QED BY <1>5, <1>6, <3>1
    <2> QED BY <1>2, <2>1, <2>2, <2>3, <2>4 DEF ClientIsGone
  <1>9. \A a \in 1 .. Attempts : LinesFrom(a)' = LinesFrom(a)
    BY <1>8 DEF Quiet, LinesFrom, LinesOf
  <1>10. \A a \in 1 .. attempt - 1 : a \in 1 .. Attempts
    BY <1>2, RelayAssumption
  <1>11. LinesFrom(attempt)' = LinesFrom(attempt)
    BY <1>1, <1>2, <1>9 DEF LinesFrom
  <1>12. RelayIsFaithful'
    BY <1>1, <1>9, <1>10, <1>11 DEF HeardInv, RelayIsFaithful
  <1> QED BY <1>1, <1>12 DEF HeardInv

(* Every step. *)
LEMMA NextKeepsHeardInv ==
    ASSUME RelayInv, RelayInv', HeardInv, [Next]_vars
    PROVE  HeardInv'
  <1>1. CASE CanceledBeforeCall
    <2>1. /\ Open /\ ~Open' /\ canceled'
          /\ UNCHANGED <<attempt, feed, sent, wire>>
      BY <1>1 DEF CanceledBeforeCall, Return, Open
    <2>2. \A a : LinesFrom(a)' = LinesFrom(a)
      BY <2>1 DEF LinesFrom
    <2> QED BY <2>1, <2>2 DEF HeardInv, RelayIsFaithful
  <1>2. CASE CallAnswered \/ Cancel \/ UNCHANGED vars
    <2>1. /\ Open' <=> Open
          /\ canceled => canceled'
          /\ UNCHANGED <<attempt, feed, gate, wire, result, sent>>
      BY <1>2 DEF CallAnswered, Cancel, vars, Open
    <2>2. \A a : LinesFrom(a)' = LinesFrom(a)
      BY <2>1 DEF LinesFrom
    <2> QED BY <2>1, <2>2 DEF HeardInv, RelayIsFaithful
  <1>3. CASE CallRefused
    BY <1>3, AttemptFailsKeepsHeard DEF CallRefused, Open
  <1>4. CASE Read
    BY <1>4, ReadKeepsHeard
  <1>5. CASE FeedLine
    BY <1>5, FeedLineKeepsHeard
  <1>6. CASE FeedLineFails
    BY <1>6, FeedLineFailsKeepsHeard
  <1>7. CASE BodyEnds
    <2>1. Open /\ UNCHANGED <<wire, written, canceled>>
      BY <1>7 DEF BodyEnds, Open
    <2>2. CASE ~gate.sawContent
      BY <1>7, <2>1, <2>2, AttemptFailsKeepsHeard DEF BodyEnds
    <2>3. CASE gate.sawContent
      <3>1. ~Open' /\ UNCHANGED <<attempt, feed, sent, wire, canceled>>
        BY <1>7, <2>3 DEF BodyEnds, Return, Open
      <3>2. \A a : LinesFrom(a)' = LinesFrom(a)
        BY <3>1 DEF LinesFrom
      <3> QED BY <2>1, <3>1, <3>2 DEF HeardInv, RelayIsFaithful
    <2> QED BY <2>2, <2>3
  <1>8. CASE BodyBreaks
    BY <1>8, AttemptFailsKeepsHeard DEF BodyBreaks, Open
  <1>9. CASE HandleResult
    BY <1>9, HandleResultKeepsHeard
  <1> QED BY <1>1, <1>2, <1>3, <1>4, <1>5, <1>6, <1>7, <1>8, <1>9 DEF Next

(* For every number of models and lines, and whatever the upstreams send: the *)
(* client never sees a line of a model that is abandoned, and it has exactly  *)
(* the lines of the model that answers, in their order and from the first one *)
(* on, as soon as one of them has content, or the beginning of them if the    *)
(* connection has failed.                                                     *)
THEOREM RelayStaysFaithful == Spec => []RelayIsFaithful
  <1>1. RelayInv /\ RelayInv' /\ HeardInv /\ [Next]_vars => HeardInv'
    BY NextKeepsHeardInv
  <1>2. HeardInv => RelayIsFaithful
    BY DEF HeardInv
  <1> QED BY <1>1, <1>2, InitHeardInv, RelayInvariant, PTL DEF Spec

-----------------------------------------------------------------------------
(* While an attempt goes on, and until the handler has written the end, the   *)
(* client hears this attempt or nobody.                                       *)
LEMMA SpeakerIsAttempt ==
    ASSUME RelayInv, pc # "end"
    PROVE  /\ Speaker = IF wire = << >> THEN 0 ELSE attempt
           /\ attempt # 0
           /\ attempt \in 1 .. Attempts
  <1>1. attempt \in 1 .. Attempts
    BY DEF RelayInv, TypeOK
  <1>2. wire # << >> => 1 \in DOMAIN wire
    BY LenProperties, EmptySeq DEF RelayInv, TypeOK
  <1> QED BY <1>1, <1>2 DEF Speaker, RelayInv, WireInv

(* Init is an initial state of the client. *)
LEMMA InitRefines == Init => Client!ClientInit
  BY DEF Init, Client!ClientInit, Speaker, Over, ClientIsGone, NoResult

(* An attempt that is over says nothing; the client may be lost. *)
LEMMA AttemptFailsRefines ==
    ASSUME RelayInv, Open, AttemptFails, UNCHANGED <<wire, written, canceled>>
    PROVE  Client!ClientNext \/ UNCHANGED Client!clientVars
  <1>1. ~Over /\ ~ClientIsGone
    BY DEF Over, Open, RelayInv, OpenInv
  <1>2. UNCHANGED <<wire, Speaker>>
    BY DEF Speaker
  <1>3. CASE canceled
    <2>1. Over' /\ ClientIsGone'
      BY <1>3 DEF AttemptFails, Return, Over, ClientIsGone
    <2>2. attempt \in 1 .. Attempts
      BY DEF RelayInv, TypeOK
    <2>3. Client!Lose(attempt)
      BY <1>1, <1>2, <2>1 DEF Client!Lose, Client!GrowsBy, RelayInv, TypeOK
    <2> QED BY <2>2, <2>3 DEF Client!ClientNext
  <1>4. CASE ~canceled
    <2>1. ~Over' /\ ~ClientIsGone'
      BY <1>1, <1>4 DEF AttemptFails, Return, NextAttempt, Over, ClientIsGone
    <2> QED BY <1>1, <1>2, <2>1 DEF Client!clientVars, Over, ClientIsGone
  <1> QED BY <1>3, <1>4

(* What a line lets through, or the beginning of it that can be written, has  *)
(* no [DONE] but in its last place, and is a blank behind one on the wire.    *)
LEMMA OnlyBlanksBehindDone ==
    ASSUME ~TrailingLines, RelayInv, Open, feed # << >>,
           NEW w, w = LinesToWrite(gate, Head(feed)),
           NEW x \in Seq(Lines), Len(x) <= Len(w),
           \A i \in 1 .. Len(x) : x[i] = w[i],
           wire' = wire \o FromAttempt(x),
           NEW i \in Len(wire) + 1 .. Len(wire'), NEW j \in 1 .. i - 1,
           wire'[j].line = "done"
    PROVE  wire'[i].line = "blank"
  <1>1. wire \in Seq(WireLine) /\ attempt \in 1 .. Attempts /\ feed \in Seq(Lines)
    BY DEF RelayInv, TypeOK
  <1>2. /\ Len(wire) \in Nat /\ Len(x) \in Nat
        /\ Len(wire') = Len(wire) + Len(x)
        /\ DOMAIN wire = 1 .. Len(wire)
        /\ \A n \in 1 .. Len(wire) : wire'[n] = wire[n]
        /\ \A n \in 1 .. Len(x) :
             wire'[Len(wire) + n] = [from |-> attempt, line |-> x[n]]
    BY <1>1, WireGrows, LenProperties
  <1>3. /\ w \in Seq(Lines) /\ Len(w) \in Nat
        /\ w = << >> => Len(w) = 0
        /\ gate.sawContent => w = <<Head(feed)>>
        /\ ~gate.sawContent /\ Head(feed) # "content" => w = << >>
        /\ ~gate.sawContent /\ Head(feed) = "content" =>
             w = Append(gate.preamble, "content")
    BY FeedLineEffect
  <1>4. /\ i - Len(wire) \in 1 .. Len(x) /\ i = Len(wire) + (i - Len(wire))
        /\ wire'[i].line = w[i - Len(wire)]
    <2>1. i - Len(wire) \in 1 .. Len(x) /\ i = Len(wire) + (i - Len(wire))
      BY <1>2
    <2>2. wire'[i] = [from |-> attempt, line |-> x[i - Len(wire)]]
      BY <1>2, <2>1
    <2> QED BY <2>1, <2>2
  <1>5. CASE j \in 1 .. Len(wire)
    <2>1. DoneOnWire /\ wire # << >>
      <3>1. wire[j].line = "done" /\ j \in DOMAIN wire
        BY <1>2, <1>5
      <3>2. wire # << >>
        BY <3>1
      <3> QED BY <3>1, <3>2 DEF DoneOnWire
    <2>2. gate.sawContent /\ gate.sawDone
      BY <2>1 DEF RelayInv, OpenInv
    <2>3. Head(feed) = "blank"
      <3>1. 1 \in DOMAIN feed /\ Head(feed) = feed[1]
        BY <1>1
      <3> QED BY <2>2, <3>1 DEF RelayInv, FeedInv
    <2>4. w = <<"blank">> /\ Len(w) = 1
      BY <1>3, <2>2, <2>3
    <2>5. i - Len(wire) = 1
      BY <1>2, <1>4, <2>4
    <2> QED BY <1>4, <2>4, <2>5
  <1>6. CASE j \notin 1 .. Len(wire)
    <2> DEFINE n == j - Len(wire)
    <2>1. /\ n \in 1 .. Len(x) /\ n < i - Len(wire) /\ j = Len(wire) + n
          /\ n \in 1 .. Len(w) - 1
      BY <1>2, <1>3, <1>4, <1>6
    <2>2. wire'[j] = [from |-> attempt, line |-> x[n]]
      BY <1>2, <2>1
    <2>3. w[n] = "done"
      BY <2>1, <2>2
    <2>4. ~gate.sawContent /\ Head(feed) = "content"
      <3>1. gate.sawContent => Len(w) = 1
        BY <1>3
      <3>2. Len(w) # 1 /\ Len(w) # 0
        BY <1>3, <2>1
      <3>3. gate.sawContent \in BOOLEAN
        BY DEF RelayInv, TypeOK
      <3> QED BY <1>3, <3>1, <3>2, <3>3
    <2>5. gate.preamble \in Seq(Lines)
      BY DEF RelayInv, TypeOK
    <2>6. n \in DOMAIN gate.preamble /\ w[n] = gate.preamble[n]
      <3> DEFINE held == gate.preamble
      <3>1. w = Append(held, "content") /\ held \in Seq(Lines)
        BY <1>3, <2>4, <2>5
      <3> HIDE DEF held, n
      <3>2. Len(w) = Len(held) + 1 /\ \A m \in 1 .. Len(held) : w[m] = held[m]
        <4>1. "content" \in Lines
          BY DEF Lines
        <4> QED BY <3>1, <4>1, AppendProperties
      <3>3. n \in 1 .. Len(held) /\ DOMAIN held = 1 .. Len(held)
        BY <2>1, <3>1, <3>2
      <3> QED BY <3>2, <3>3 DEF held
    <2> QED BY <2>3, <2>6 DEF RelayInv, OpenInv
  <1> QED BY <1>5, <1>6

(* What a line lets through is heard. *)
LEMMA FeedLineRefines ==
    ASSUME ~TrailingLines, RelayInv, RelayInv', FeedLine
    PROVE  Client!ClientNext \/ UNCHANGED Client!clientVars
  <1> DEFINE w == LinesToWrite(gate, Head(feed))
  <1>1. /\ Open /\ feed # << >> /\ ~Over /\ ~Over'
        /\ wire' = wire \o FromAttempt(w)
        /\ UNCHANGED attempt /\ pc # "end" /\ pc' # "end"
        /\ ~ClientIsGone /\ ~ClientIsGone'
    BY DEF FeedLine, Open, Over, RelayInv, OpenInv, ClientIsGone
  <1>2. /\ w \in Seq(Lines) /\ Len(w) \in Nat
        /\ w = << >> => Len(w) = 0
        /\ ~gate.sawContent /\ Head(feed) # "content" => w = << >>
        /\ ~gate.sawContent /\ Head(feed) = "content" =>
             Len(w) > 0 /\ w[Len(w)] = "content"
    BY <1>1, FeedLineEffect
  <1>3. wire \in Seq(WireLine) /\ attempt \in 1 .. Attempts /\ attempt # 0
    BY DEF RelayInv, TypeOK
  <1> HIDE DEF w
  <1>4. /\ wire' \in Seq(WireLine)
        /\ Len(wire) \in Nat
        /\ Len(wire') = Len(wire) + Len(w)
        /\ DOMAIN wire = 1 .. Len(wire)
        /\ DOMAIN wire' = 1 .. Len(wire) + Len(w)
        /\ \A i \in 1 .. Len(wire) : wire'[i] = wire[i]
        /\ \A i \in 1 .. Len(w) :
             wire'[Len(wire) + i] = [from |-> attempt, line |-> w[i]]
    BY <1>1, <1>2, <1>3, WireGrows, LenProperties
  <1>5. /\ Speaker = IF wire = << >> THEN 0 ELSE attempt
        /\ Speaker' = IF wire' = << >> THEN 0 ELSE attempt
    <2>1. Speaker = IF wire = << >> THEN 0 ELSE attempt
      BY <1>1, SpeakerIsAttempt
    <2>2. wire' # << >> => 1 \in DOMAIN wire'
      BY <1>2, <1>4
    <2>3. Speaker' = IF wire' = << >> THEN 0 ELSE attempt
      BY <1>1, <2>2 DEF Speaker, RelayInv, WireInv
    <2> QED BY <2>1, <2>3
  <1>6. CASE wire' = wire
    BY <1>1, <1>5, <1>6 DEF Client!clientVars, Over, ClientIsGone
  <1>7. CASE wire' # wire
    <2>1. Len(w) > 0
      <3>1. Len(wire') # Len(wire)
        BY <1>3, <1>4, <1>7, SeqEqual
      <3>2. /\ Len(w) \in Nat /\ Len(wire) \in Nat
            /\ Len(wire') = Len(wire) + Len(w)
        BY <1>2, <1>4
      <3> QED BY <3>1, <3>2
    <2>2. wire' # << >>
      BY <1>2, <1>4, <2>1
    <2>3. Client!GrowsBy(attempt)
      <3>1. \A i \in Len(wire) + 1 .. Len(wire') : wire'[i].from = attempt
        <4>1. \A i \in DOMAIN wire' : wire'[i].from = attempt
          BY <1>1 DEF RelayInv, WireInv
        <4> QED BY <1>2, <1>4, <4>1
      <3>2. \A i \in Len(wire) + 1 .. Len(wire') :
              (\E j \in 1 .. i - 1 : wire'[j].line = "done") => wire'[i].line = "blank"
        <4>1. Len(w) <= Len(w) /\ \A i \in 1 .. Len(w) : w[i] = w[i]
          BY <1>2
        <4>2. w = LinesToWrite(gate, Head(feed))
          BY DEF w
        <4> QED BY <1>1, <1>2, <4>1, <4>2, OnlyBlanksBehindDone
      <3>3. Len(wire') >= Len(wire) /\ \A i \in DOMAIN wire : wire'[i] = wire[i]
        BY <1>2, <1>4
      <3> QED BY <3>1, <3>2, <3>3 DEF Client!GrowsBy
    <2>4. Speaker = 0 => wire'[Len(wire')].line = "content"
      <3> SUFFICES ASSUME Speaker = 0 PROVE wire'[Len(wire')].line = "content"
        OBVIOUS
      <3>1. wire = << >> /\ Len(wire) = 0
        BY <1>3, <1>5
      <3>2. ~gate.sawContent
        BY <1>1, <3>1 DEF RelayInv, OpenInv
      <3>3. w[Len(w)] = "content"
        BY <1>2, <2>1, <3>2
      <3>4. Len(w) \in 1 .. Len(w) /\ Len(wire') = Len(wire) + Len(w)
        BY <1>2, <1>4, <2>1
      <3>5. wire'[Len(wire) + Len(w)] = [from |-> attempt, line |-> w[Len(w)]]
        BY <1>4, <3>4
      <3> QED BY <3>3, <3>4, <3>5
    <2>5. Client!Hear(attempt)
      <3>1. Speaker \in {0, attempt} /\ Speaker' = attempt
        BY <1>5, <2>2
      <3> QED BY <1>1, <1>7, <2>3, <2>4, <3>1 DEF Client!Hear, Over, ClientIsGone
    <2> QED BY <1>3, <2>5 DEF Client!ClientNext
  <1> QED BY <1>6, <1>7

(* A line that could not be written is the loss of the client. *)
LEMMA FeedLineFailsRefines ==
    ASSUME ~TrailingLines, RelayInv, FeedLineFails
    PROVE  Client!ClientNext
  <1>1. /\ pc # "end" /\ ~Over /\ Over' /\ ClientIsGone'
        /\ attempt \in 1 .. Attempts
        /\ Speaker = IF wire = << >> THEN 0 ELSE attempt
    <2>1. pc # "end" /\ ~Over
      BY DEF FeedLineFails, Over
    <2>2. Over' /\ ClientIsGone'
      BY PartOfLines DEF Over, ClientIsGone
    <2> QED BY <2>1, <2>2, SpeakerIsAttempt
  <1>2. Client!GrowsBy(attempt)
    <2>1. ASSUME NEW i \in Len(wire) + 1 .. Len(wire'), NEW j \in 1 .. i - 1,
                 wire'[j].line = "done"
          PROVE  wire'[i].line = "blank"
      <3> DEFINE w == LinesToWrite(gate, Head(feed))
      <3>1. Open /\ feed # << >>
        BY DEF FeedLineFails, Open
      <3>2. PICK n \in 1 .. Len(w) : wire' = wire \o FromAttempt(SubSeq(w, 1, n - 1))
        BY DEF FeedLineFails
      <3>3. w \in Seq(Lines) /\ Len(w) \in Nat
        BY <3>1, GateProperties, LenProperties DEF RelayInv
      <3> DEFINE x == SubSeq(w, 1, n - 1)
      <3>4. w = LinesToWrite(gate, Head(feed))
        OBVIOUS
      <3> HIDE DEF w
      <3>5. /\ x \in Seq(Lines) /\ Len(x) <= Len(w)
            /\ \A m \in 1 .. Len(x) : x[m] = w[m]
        BY <3>2, <3>3
      <3> HIDE DEF x
      <3>6. wire' = wire \o FromAttempt(x)
        BY <3>2 DEF x
      <3> QED BY <2>1, <3>1, <3>4, <3>5, <3>6, OnlyBlanksBehindDone
    <2> QED BY <2>1, PartOfLines DEF Client!GrowsBy
  <1>3. wire' # wire => Speaker \in {0, attempt} /\ Speaker' = attempt
    <2> SUFFICES ASSUME wire' # wire PROVE Speaker \in {0, attempt} /\ Speaker' = attempt
      OBVIOUS
    <2>1. wire \in Seq(WireLine) /\ wire' \in Seq(WireLine)
      BY PartOfLines DEF RelayInv, TypeOK
    <2>2. wire' # << >>
      <3>1. ASSUME wire' = << >> PROVE FALSE
        <4>1. Len(wire') = 0 /\ Len(wire) = 0
          BY <2>1, <3>1, PartOfLines
        <4>2. wire = << >>
          BY <2>1, <4>1
        <4> QED BY <3>1, <4>2
      <3> QED BY <3>1
    <2>3. 1 \in DOMAIN wire'
      BY <2>1, <2>2
    <2>4. wire'[1].from = attempt
      BY <2>3, PartOfLines
    <2> QED BY <1>1, <2>2, <2>4 DEF Speaker
  <1>4. wire' = wire => UNCHANGED Speaker
    BY DEF Speaker
  <1> QED BY <1>1, <1>2, <1>3, <1>4 DEF Client!Lose, Client!ClientNext

(* The end of the answer: nothing for a client that is gone, and otherwise    *)
(* the end the client has not heard yet, or an error and another end.         *)
LEMMA HandleResultRefines ==
    ASSUME ~TrailingLines, RelayInv, HandleResult
    PROVE  Client!ClientNext \/ UNCHANGED Client!clientVars
  <1>1. /\ pc = "handle" /\ pc # "end" /\ Over'
        /\ attempt \in 1 .. Attempts /\ attempt # 0
        /\ wire \in Seq(WireLine)
        /\ Speaker = IF wire = << >> THEN 0 ELSE attempt
        /\ result.error \in {"none", "canceled", "clientWrite", "failed"}
        /\ result.upstreamDone \in BOOLEAN
    BY SpeakerIsAttempt DEF HandleResult, RelayInv, TypeOK, Over
  <1>2. (Over <=> ClientIsGone) /\ (ClientIsGone' <=> ClientIsGone)
    BY <1>1 DEF Over, HandleResult, ClientIsGone
  <1>3. ASSUME NEW x \in {<< [from |-> 0, line |-> "done"] >>,
                           << [from |-> 0, line |-> "error"], [from |-> 0, line |-> "done"] >>},
               wire # << >>, wire' = wire \o x
        PROVE  UNCHANGED Speaker
    <2>1. 1 \in DOMAIN wire /\ Len(wire) \in Nat \ {0}
      BY <1>1, <1>3
    <2>2. [from |-> 0, line |-> "done"] \in WireLine /\ [from |-> 0, line |-> "error"] \in WireLine
      BY RelayAssumption DEF WireLine, Lines
    <2>3. x \in Seq(WireLine) /\ x # << >>
      <3>1. \A a, b \in WireLine :
              /\ <<a>> \in Seq(WireLine) /\ <<a>> # << >>
              /\ <<a, b>> \in Seq(WireLine) /\ <<a, b>> # << >>
        OBVIOUS
      <3> QED BY <2>2, <3>1
    <2>4. wire'[1] = wire[1] /\ wire' # << >>
      BY <1>1, <1>3, <2>1, <2>3, ConcatProperties
    <2> QED BY <1>3, <2>4 DEF Speaker
  <1>4. CASE ClientIsGone
    <2>1. wire' = wire
      BY <1>4 DEF HandleResult, ClientIsGone
    <2> QED BY <1>1, <1>2, <1>4, <2>1 DEF Client!clientVars, Speaker, Over
  <1>5. CASE result.error = "none"
    <2>1. wire # << >> /\ (result.upstreamDone <=> DoneOnWire) /\ ~ClientIsGone
      BY <1>1, <1>5 DEF RelayInv, WireInv, ClientIsGone
    <2>2. wire' = wire \o Done
      BY <1>5 DEF HandleResult, ClientIsGone
    <2>3. Client!IsEnded <=> DoneOnWire
      BY DEF Client!IsEnded, DoneOnWire
    <2>4. CASE DoneOnWire
      <3>1. wire' = wire
        BY <1>1, <2>1, <2>2, <2>4, ConcatEmptySeq DEF Done
      <3> QED
        BY <1>1, <1>2, <1>5, <2>1, <2>3, <2>4, <3>1
        DEF Client!Finish, Client!ClientNext, Speaker, ClientIsGone
    <2>5. CASE ~DoneOnWire
      <3>1. wire' = wire \o << [from |-> 0, line |-> "done"] >>
        BY <2>1, <2>2, <2>5 DEF Done, FromHandler
      <3>2. [from |-> 0, line |-> "done"] \in WireLine
        BY RelayAssumption DEF WireLine, Lines
      <3>3. wire' = Append(wire, [from |-> 0, line |-> "done"])
        BY <1>1, <3>1, <3>2, AppendIsConcat
      <3>4. UNCHANGED Speaker
        BY <1>3, <2>1, <3>1
      <3> QED
        BY <1>1, <1>2, <1>5, <2>1, <2>3, <2>5, <3>3, <3>4
        DEF Client!Finish, Client!ClientNext, ClientIsGone
    <2> QED BY <2>4, <2>5
  <1>6. CASE result.error = "failed"
    <2>1. ~result.upstreamDone /\ (written <=> wire # << >>) /\ ~ClientIsGone
      BY <1>1, <1>6 DEF RelayInv, WireInv, ClientIsGone
    <2>2. CASE wire # << >>
      <3>1. wire' = (wire \o FromHandler("error")) \o FromHandler("done")
        BY <1>6, <2>1, <2>2 DEF HandleResult, ClientIsGone, Done
      <3>2. [from |-> 0, line |-> "done"] \in WireLine /\ [from |-> 0, line |-> "error"] \in WireLine
        BY RelayAssumption DEF WireLine, Lines
      <3>3. wire' = wire \o << [from |-> 0, line |-> "error"], [from |-> 0, line |-> "done"] >>
        BY <1>1, <3>1, <3>2 DEF FromHandler
      <3>4. UNCHANGED Speaker
        BY <1>3, <2>2, <3>3
      <3>5. Client!TheClientIsTold
        BY <1>1, <1>2, <1>6, <2>1, <2>2, <3>3, <3>4
        DEF Client!TheClientIsTold, ClientIsGone
      <3> QED BY <3>5 DEF Client!BreakOff, Client!BreakLate, Client!ClientNext
    <2>3. CASE wire = << >>
      <3>1. [from |-> 0, line |-> "failure500"] \in WireLine
        BY RelayAssumption DEF WireLine
      <3>2. wire' = << [from |-> 0, line |-> "failure500"] >>
        <4>1. wire' = wire \o FromHandler("failure500")
          BY <1>6, <2>1, <2>3 DEF HandleResult, ClientIsGone
        <4> QED BY <2>3, <3>1, <4>1, ConcatEmptySeq DEF FromHandler
      <3>3. UNCHANGED Speaker
        BY <2>3, <3>2 DEF Speaker
      <3> QED
        BY <1>1, <1>2, <1>6, <2>1, <2>3, <3>2, <3>3
        DEF Client!Refuse, Client!ClientNext, ClientIsGone
    <2> QED BY <2>2, <2>3
  <1> QED BY <1>1, <1>4, <1>5, <1>6 DEF ClientIsGone

(* Every step of the relay is a step of the client or none. *)
LEMMA NextRefines ==
    ASSUME ~TrailingLines, RelayInv, RelayInv', [Next]_vars
    PROVE  [Client!ClientNext]_Client!clientVars
  <1>1. CASE CanceledBeforeCall
    <2>1. /\ ~Over /\ Over' /\ ClientIsGone' /\ UNCHANGED <<wire, Speaker>>
          /\ attempt \in 1 .. Attempts /\ wire \in Seq(WireLine)
      BY <1>1 DEF CanceledBeforeCall, Return, Over, ClientIsGone, Speaker, RelayInv, TypeOK
    <2>2. Client!Lose(attempt)
      BY <2>1 DEF Client!Lose, Client!GrowsBy
    <2> QED BY <2>1, <2>2 DEF Client!ClientNext
  <1>2. CASE CallAnswered \/ Cancel \/ Read
    <2>1. ~Over /\ ~Over' /\ UNCHANGED <<wire, ClientIsGone>>
      BY <1>2
      DEF CallAnswered, Cancel, Read, ReadSSELine, ReadOllamaChunk, ReadJSONAnswer, Over,
          ClientIsGone
    <2> QED BY <2>1 DEF Client!clientVars, Speaker, Over
  <1>3. CASE CallRefused
    BY <1>3, AttemptFailsRefines DEF CallRefused, Open
  <1>4. CASE FeedLine
    BY <1>4, FeedLineRefines
  <1>5. CASE FeedLineFails
    BY <1>5, FeedLineFailsRefines
  <1>6. CASE BodyEnds
    <2>1. Open /\ UNCHANGED <<wire, written, canceled>>
      BY <1>6 DEF BodyEnds, Open
    <2>2. CASE ~gate.sawContent
      BY <1>6, <2>1, <2>2, AttemptFailsRefines DEF BodyEnds
    <2>3. CASE gate.sawContent
      <3>1. /\ ~Over /\ ~ClientIsGone /\ UNCHANGED Speaker
            /\ attempt \in 1 .. Attempts /\ wire \in Seq(WireLine)
        BY <2>1 DEF Over, Open, Speaker, RelayInv, TypeOK, OpenInv
      <3>2. CASE canceled
        <4>1. Over' /\ ClientIsGone'
          BY <1>6, <2>3, <3>2 DEF BodyEnds, Return, Over, ClientIsGone
        <4>2. Client!Lose(attempt)
          BY <2>1, <3>1, <4>1 DEF Client!Lose, Client!GrowsBy
        <4> QED BY <3>1, <4>2 DEF Client!ClientNext
      <3>3. CASE ~canceled
        <4>1. ~Over' /\ ~ClientIsGone'
          BY <1>6, <2>3, <3>3 DEF BodyEnds, Return, Over, ClientIsGone
        <4> QED BY <2>1, <3>1, <4>1 DEF Client!clientVars, Over, ClientIsGone
      <3> QED BY <3>2, <3>3
    <2> QED BY <2>2, <2>3
  <1>7. CASE BodyBreaks
    BY <1>7, AttemptFailsRefines DEF BodyBreaks, Open
  <1>8. CASE HandleResult
    BY <1>8, HandleResultRefines
  <1>9. CASE UNCHANGED vars
    BY <1>9 DEF vars, Client!clientVars, Speaker, Over, ClientIsGone
  <1> QED BY <1>1, <1>2, <1>3, <1>4, <1>5, <1>6, <1>7, <1>8, <1>9 DEF Next

(* The relay implements the promise to the client, for every number of        *)
(* models and lines, if no upstream sends content behind its [DONE]: one      *)
(* model's lines, nothing but blanks behind its [DONE], and an end, which is  *)
(* a second [DONE] only behind the error of a model that broke off after its  *)
(* own.                                                                       *)
THEOREM RelayImplementsClientStream ==
    ASSUME ~TrailingLines
    PROVE  Spec => ImplementsClientStream
  <1>1. RelayInv /\ RelayInv' /\ [Next]_vars => [Client!ClientNext]_Client!clientVars
    BY NextRefines
  <1> QED
    BY <1>1, InitRefines, RelayInvariant, PTL
    DEF Spec, ImplementsClientStream, Client!ClientSpec

-----------------------------------------------------------------------------
(* A body decoded into an object gives an object.                             *)
LEMMA DecodeType ==
    ASSUME NEW body \in Body, NEW o \in Object
    PROVE  Decode(body, Reset(o)) \in Object
  <1>1. Len(body.calls) \in 0 .. MaxMessages
    BY DEF Body, SeqOf
  <1>2. \A i \in DOMAIN body.calls : body.calls[i] \in Values \cup {Zero}
    BY DEF Body, SeqOf
  <1>3. /\ Reset(o).fields \in [Fields -> Values \cup {Zero}]
        /\ Reset(o).calls \in [1 .. MaxMessages -> Values \cup {Zero}]
    BY DEF Reset, Object
  <1> QED BY <1>1, <1>2, <1>3 DEF Decode, Body, Object

(* Decoded behind the reset, an object says of the fields that the reset names*)
(* what the body says, and has the messages the body has.                     *)
LEMMA DecodeIsOwn ==
    ASSUME NEW body \in Body, NEW o \in Object
    PROVE  /\ \A f \in ResetFields :
                Decode(body, Reset(o)).fields[f] = body.fields[f]
           /\ Decode(body, Reset(o)).len = Len(body.calls)
  BY DEF Decode, Reset, Object, Fields

(* The inductive invariant.                                                   *)
PoolInv == PoolTypeOK /\ ObjectHasOneUser /\ ResetFieldsAreOwn

(* No handler has begun.                                                      *)
LEMMA InitPoolInv ==
    ASSUME MaxMessages \in Nat, PoolInit PROVE PoolInv
  <1>1. NewObject \in Object
    BY DEF NewObject, Object
  <1>2. PoolTypeOK
    BY <1>1 DEF PoolInit, PoolTypeOK
  <1>3. ObjectHasOneUser /\ ResetFieldsAreOwn
    BY DEF PoolInit, ObjectHasOneUser, ResetFieldsAreOwn, Used
  <1> QED BY <1>2, <1>3 DEF PoolInv

(* An object decoded anew for a handler that goes on to serve it, or that     *)
(* gives it back.                                                             *)
LEMMA ReadStep ==
    ASSUME PoolInv, NEW h \in Handlers, handler[h].pc = "reset",
           NEW to \in {"idle", "serving"},
           object' = [object EXCEPT ![handler[h].obj] =
                        Decode(handler[h].body, Reset(object[handler[h].obj]))],
           handler' = [handler EXCEPT ![h].pc = to],
           pool' = IF to = "idle" THEN pool \cup {handler[h].obj} ELSE pool
    PROVE  PoolInv'
  <1> DEFINE o == handler[h].obj
             d == Decode(handler[h].body, Reset(object[o]))
  <1>1. /\ o \in Objects /\ handler[h].body \in Body /\ object[o] \in Object
        /\ object \in [Objects -> Object] /\ pool \subseteq Objects
        /\ handler \in [Handlers -> HandlerState]
    BY DEF PoolInv, PoolTypeOK, HandlerState
  <1>2. d \in Object
    BY <1>1, DecodeType
  <1>3. /\ \A f \in ResetFields : d.fields[f] = handler[h].body.fields[f]
        /\ d.len = Len(handler[h].body.calls)
    BY <1>1, DecodeIsOwn
  <1> HIDE DEF d
  <1>4. object' = [object EXCEPT ![o] = d]
    BY DEF d
  <1>5. \A g \in Handlers :
          /\ handler'[g].obj = handler[g].obj
          /\ handler'[g].body = handler[g].body
          /\ handler'[g].pc = IF g = h THEN to ELSE handler[g].pc
    BY <1>1 DEF HandlerState
  <1>6. PoolTypeOK'
    BY <1>1, <1>2, <1>4 DEF PoolTypeOK, HandlerState
  <1>7. ObjectHasOneUser'
    BY <1>1, <1>5 DEF PoolInv, ObjectHasOneUser, Used
  <1>8. ResetFieldsAreOwn'
    <2> SUFFICES ASSUME NEW g \in Handlers, handler'[g].pc = "serving"
                 PROVE  /\ \A f \in ResetFields : Says(g, f)'
                        /\ object'[handler'[g].obj].len = Len(handler'[g].body.calls)
      BY DEF ResetFieldsAreOwn
    <2>1. CASE g = h
      BY <1>1, <1>3, <1>4, <1>5, <2>1 DEF Says
    <2>2. CASE g # h
      <3>1. handler[g].pc = "serving" /\ handler[g].obj # o
        BY <1>5, <2>2 DEF PoolInv, ObjectHasOneUser
      <3>2. object'[handler[g].obj] = object[handler[g].obj]
        BY <1>1, <1>4, <3>1
      <3> QED BY <1>5, <3>1, <3>2 DEF PoolInv, ResetFieldsAreOwn, Says
    <2> QED BY <2>1, <2>2
  <1> QED BY <1>6, <1>7, <1>8 DEF PoolInv

(* An object comes out of the pool, or is new, for one handler.               *)
LEMMA GetStep ==
    ASSUME MaxMessages \in Nat, PoolInv, NEW h \in Handlers, Get(h)
    PROVE  PoolInv'
  <1>1. PICK o \in Objects \ Used, body \in Body :
          /\ object' = IF o \in pool THEN object ELSE [object EXCEPT ![o] = NewObject]
          /\ pool' = pool \ {o}
          /\ handler' = [handler EXCEPT ![h] = [pc |-> "reset", obj |-> o, body |-> body]]
    BY DEF Get
  <1>2. NewObject \in Object
    BY DEF NewObject, Object
  <1>3. PoolTypeOK'
    BY <1>1, <1>2 DEF PoolInv, PoolTypeOK, HandlerState
  <1>4. handler'[h] = [pc |-> "reset", obj |-> o, body |-> body]
    BY <1>1 DEF PoolInv, PoolTypeOK
  <1>5. \A g \in Handlers \ {h} : handler'[g] = handler[g]
    BY <1>1 DEF PoolInv, PoolTypeOK
  <1>6. \A g \in Handlers \ {h} : handler[g].pc # "idle" => handler[g].obj # o
    BY DEF Used
  <1>7. ObjectHasOneUser'
    BY <1>1, <1>4, <1>5, <1>6 DEF PoolInv, ObjectHasOneUser, Used
  <1>8. ResetFieldsAreOwn'
    <2> SUFFICES ASSUME NEW g \in Handlers, handler'[g].pc = "serving"
                 PROVE  /\ \A f \in ResetFields : Says(g, f)'
                        /\ object'[handler'[g].obj].len = Len(handler'[g].body.calls)
      BY DEF ResetFieldsAreOwn
    <2>1. g # h /\ handler'[g] = handler[g] /\ handler[g].obj # o
      BY <1>4, <1>5, <1>6
    <2>2. object'[handler[g].obj] = object[handler[g].obj]
      BY <1>1, <2>1 DEF PoolInv, PoolTypeOK, HandlerState
    <2> QED BY <2>1, <2>2 DEF PoolInv, ResetFieldsAreOwn, Says
  <1> QED BY <1>3, <1>7, <1>8 DEF PoolInv

(* The test handler changes the object and its request alike.                 *)
LEMMA ProbeStep ==
    ASSUME PoolInv, NEW h \in Handlers, NEW value \in Values, MakeProbe(h, value)
    PROVE  PoolInv'
  <1> DEFINE o == handler[h].obj
             s == [object[o].fields EXCEPT !["probe"] = value]
             b == [handler[h].body.fields EXCEPT !["probe"] = value]
  <1>1. /\ o \in Objects /\ object[o] \in Object /\ handler[h].body \in Body
        /\ handler[h].pc = "serving" /\ handler[h] \in HandlerState
        /\ object \in [Objects -> Object] /\ pool \subseteq Objects
        /\ handler \in [Handlers -> HandlerState] /\ pool' = pool
    BY DEF PoolInv, PoolTypeOK, HandlerState, MakeProbe
  <1>2. /\ s \in [Fields -> Values \cup {Zero}]
        /\ b \in [Fields -> Values \cup {Zero}]
        /\ \A f \in ResetFields : Says(h, f) => s[f] = b[f]
    BY <1>1 DEF Object, Body, Says, Fields, ResetFields
  <1> HIDE DEF s, b
  <1>3. object' = [object EXCEPT ![o] = [object[o] EXCEPT !.fields = s]]
    BY <1>1 DEF MakeProbe, Object, s
  <1>4. handler' = [handler EXCEPT
          ![h] = [handler[h] EXCEPT !.body = [handler[h].body EXCEPT !.fields = b]]]
    BY <1>1 DEF MakeProbe, HandlerState, Body, b
  <1>5. [object[o] EXCEPT !.fields = s] \in Object
    BY <1>1, <1>2 DEF Object
  <1>6. [handler[h].body EXCEPT !.fields = b] \in Body
    BY <1>1, <1>2 DEF Body
  <1>7. [handler[h] EXCEPT !.body = [handler[h].body EXCEPT !.fields = b]] \in HandlerState
    BY <1>1, <1>6 DEF HandlerState
  <1>8. PoolTypeOK'
    BY <1>1, <1>3, <1>4, <1>5, <1>7 DEF PoolTypeOK
  <1>9. /\ \A g \in Handlers : /\ handler'[g].obj = handler[g].obj
                               /\ handler'[g].pc = handler[g].pc
        /\ \A g \in Handlers \ {h} : handler'[g] = handler[g]
        /\ handler'[h].body.fields = b /\ handler'[h].body.calls = handler[h].body.calls
    BY <1>1, <1>4 DEF HandlerState, Body
  <1>10. ObjectHasOneUser'
    BY <1>1, <1>9 DEF PoolInv, ObjectHasOneUser, Used
  <1>11. ResetFieldsAreOwn'
    <2> SUFFICES ASSUME NEW g \in Handlers, handler'[g].pc = "serving"
                 PROVE  /\ \A f \in ResetFields : Says(g, f)'
                        /\ object'[handler'[g].obj].len = Len(handler'[g].body.calls)
      BY DEF ResetFieldsAreOwn
    <2>1. handler[g].pc = "serving"
      BY <1>9
    <2>2. CASE g = h
      <3>1. object'[o].fields = s /\ object'[o].len = object[o].len
        BY <1>1, <1>3 DEF Object
      <3> QED BY <1>2, <1>9, <2>1, <2>2, <3>1 DEF PoolInv, ResetFieldsAreOwn, Says
    <2>3. CASE g # h
      <3>1. handler[g].obj # o /\ handler[g].obj \in Objects
        BY <1>1, <2>1, <2>3 DEF PoolInv, ObjectHasOneUser, HandlerState
      <3>2. object'[handler[g].obj] = object[handler[g].obj]
        BY <1>1, <1>3, <3>1
      <3> QED BY <1>9, <2>1, <2>3, <3>2 DEF PoolInv, ResetFieldsAreOwn, Says
    <2> QED BY <2>2, <2>3
  <1> QED BY <1>8, <1>10, <1>11 DEF PoolInv

(* A handler that returns gives its object back and uses it no more.          *)
LEMMA PutStep ==
    ASSUME PoolInv, NEW h \in Handlers, Put(h)
    PROVE  PoolInv'
  <1>1. /\ pool' = pool \cup {handler[h].obj} /\ object' = object
        /\ handler[h].obj \in Objects /\ handler[h].pc # "idle"
    BY DEF PoolInv, PoolTypeOK, HandlerState, Put
  <1>2. \A g \in Handlers :
          /\ handler'[g].obj = handler[g].obj
          /\ handler'[g].body = handler[g].body
          /\ handler'[g].pc = IF g = h THEN "idle" ELSE handler[g].pc
    BY DEF PoolInv, PoolTypeOK, HandlerState, Put
  <1>3. PoolTypeOK'
    BY <1>1 DEF PoolInv, PoolTypeOK, HandlerState, Put
  <1>4. ObjectHasOneUser'
    BY <1>1, <1>2 DEF PoolInv, ObjectHasOneUser, Used
  <1>5. ResetFieldsAreOwn'
    BY <1>1, <1>2 DEF PoolInv, ResetFieldsAreOwn, Says
  <1> QED BY <1>3, <1>4, <1>5 DEF PoolInv

(* Every step keeps the invariant.                                            *)
LEMMA NextPoolInv ==
    ASSUME MaxMessages \in Nat, PoolInv, [PoolNext]_poolVars
    PROVE  PoolInv'
  <1>1. CASE Collect
    BY <1>1 DEF Collect, PoolInv, PoolTypeOK, ObjectHasOneUser, ResetFieldsAreOwn, Used, Says
  <1>2. ASSUME NEW h \in Handlers, ReadProxyRequest(h) PROVE PoolInv'
    BY <1>2, ReadStep DEF ReadProxyRequest
  <1>3. ASSUME NEW h \in Handlers, ReadFails(h) PROVE PoolInv'
    BY <1>3, ReadStep DEF ReadFails
  <1>4. CASE UNCHANGED poolVars
    BY <1>4 DEF poolVars, PoolInv, PoolTypeOK, ObjectHasOneUser, ResetFieldsAreOwn, Used, Says
  <1> QED BY <1>1, <1>2, <1>3, <1>4, GetStep, ProbeStep, PutStep DEF PoolNext

(* The invariant, from which the two theorems below follow.                   *)
THEOREM PoolInvariance == ASSUME MaxMessages \in Nat PROVE PoolSpec => []PoolInv
  <1>1. PoolInit => PoolInv
    BY InitPoolInv
  <1>2. PoolInv /\ [PoolNext]_poolVars => PoolInv'
    BY NextPoolInv
  <1> QED BY <1>1, <1>2, PTL DEF PoolSpec

(* readProxyRequest puts an object back when it fails, its callers do when it *)
(* does not, and each of them once: no object has two users, or one while it  *)
(* lies in the pool.                                                          *)
THEOREM ObjectsAreNotShared ==
    ASSUME MaxMessages \in Nat PROVE PoolSpec => []ObjectHasOneUser
  <1>1. PoolInv => ObjectHasOneUser
    BY DEF PoolInv
  <1> QED BY <1>1, PoolInvariance, PTL

(* Of the fields the reset names, and of the number of messages, a request    *)
(* that is served says what its own body says, whoever used its object before *)
(* and however that request was decoded.                                      *)
THEOREM ResetIsClean ==
    ASSUME MaxMessages \in Nat PROVE PoolSpec => []ResetFieldsAreOwn
  <1>1. PoolInv => ResetFieldsAreOwn
    BY DEF PoolInv
  <1> QED BY <1>1, PoolInvariance, PTL
=============================================================================
