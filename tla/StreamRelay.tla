----------------------------- MODULE StreamRelay -----------------------------
(* What the client of a streaming request sees: the gate that holds back the  *)
(* lines of an upstream until one has content (proxy/proxy.go), the attempts  *)
(* of Stream that share one connection to the client, and the end of the      *)
(* answer that the handler of main.go writes.  The circuit breaker is left    *)
(* to Failover; an attempt fails here for any reason it may fail there.       *)
EXTENDS Naturals, SequencesExt, Sequencing

CONSTANTS
    Attempts,       \* how many models Stream may try
    Formats,        \* how upstreams answer: "sse", "ollama" or "json"
    MaxLines,       \* bound: lines read of one attempt
    TrailingLines   \* whether an upstream sends content after its [DONE]

ASSUME RelayAssumption ==
    /\ Attempts \in Nat \ {0}
    /\ Formats \subseteq {"sse", "ollama", "json"}
    /\ MaxLines \in Nat
    /\ TrailingLines \in BOOLEAN

VARIABLES
    pc,         \* where Stream and, after it, the handler are
    attempt,    \* the number of the model being tried
    format,     \* of its answer
    feed,       \* lines read, still to be given to the gate
    gate,       \* substantiveSSEGate
    wire,       \* what the client has received, line by line
    written,    \* TrackingResponseWriter.written
    canceled,   \* the request's context
    result,     \* what Stream returns
    sent        \* history: the lines this attempt has given to the gate

vars == <<pc, attempt, format, feed, gate, wire, written, canceled, result, sent>>

(* "content": sseLineHasSubstantiveContent.  "pre": any other line of data,   *)
(* "blank": the end of an event, "done": the end of the stream.               *)
Lines == {"pre", "content", "blank", "done"}

(* A line of the wire and the attempt it comes from, 0 for the handler.       *)
WireLine == [from : 0 .. Attempts, line : Lines \cup {"error", "failure500"}]

NewGate == [preamble |-> << >>, sawContent |-> FALSE, sawDone |-> FALSE]

NoResult == [error |-> "none", upstreamDone |-> FALSE]

TypeOK ==
    /\ pc \in {"connect", "read", "closed", "handle", "end"}
    /\ attempt \in 1 .. Attempts
    /\ format \in Formats
    /\ feed \in Seq(Lines)
    /\ gate \in [preamble : Seq(Lines), sawContent : BOOLEAN, sawDone : BOOLEAN]
    /\ wire \in Seq(WireLine)
    /\ written \in BOOLEAN
    /\ canceled \in BOOLEAN
    /\ result \in [error : {"none", "canceled", "clientWrite", "failed"},
                   upstreamDone : BOOLEAN]
    /\ sent \in Seq(Lines)

Init ==
    /\ pc = "connect"
    /\ attempt = 1
    /\ format \in Formats
    /\ feed = << >>
    /\ gate = NewGate
    /\ wire = << >>
    /\ written = FALSE
    /\ canceled = FALSE
    /\ result = NoResult
    /\ sent = << >>

-----------------------------------------------------------------------------
FromAttempt(lines) == [i \in DOMAIN lines |-> [from |-> attempt, line |-> lines[i]]]
FromHandler(line)  == << [from |-> 0, line |-> line] >>

Return(error, upstreamDone) ==
    /\ pc' = "handle"
    /\ result' = [error |-> error, upstreamDone |-> upstreamDone]
    /\ UNCHANGED <<attempt, format, feed, gate, sent>>

NextAttempt ==
    /\ pc' = "connect"
    /\ attempt' = attempt + 1
    /\ format' \in Formats
    /\ feed' = << >>
    /\ gate' = NewGate
    /\ sent' = << >>
    /\ UNCHANGED result

(* A faulty variant: one model too many is tried. *)
AttemptFailsOnce ==
    IF canceled THEN Return("canceled", FALSE)
    ELSE IF written THEN Return("failed", FALSE)
    ELSE NextAttempt

(* A faulty variant: nobody asks whether data has reached the client. *)
AttemptFailsOver ==
    IF canceled THEN Return("canceled", FALSE)
    ELSE IF attempt = Attempts THEN Return("failed", FALSE)
    ELSE NextAttempt

(* Stream after an attempt that failed or was empty: data that has reached    *)
(* the client rules out another one.                                          *)
AttemptFails ==
    IF canceled THEN Return("canceled", FALSE)
    ELSE IF written \/ attempt = Attempts THEN Return("failed", FALSE)
    ELSE NextAttempt

-----------------------------------------------------------------------------
(* The head of the loop, and the call up to the status of the answer. *)
CanceledBeforeCall ==
    /\ pc = "connect"
    /\ canceled
    /\ Return("canceled", FALSE)
    /\ UNCHANGED <<wire, written, canceled>>

CallAnswered ==
    /\ pc = "connect"
    /\ ~canceled
    /\ pc' = "read"
    /\ UNCHANGED <<attempt, format, feed, gate, wire, written, canceled, result, sent>>

CallRefused ==
    /\ pc = "connect"
    /\ ~canceled
    /\ AttemptFails
    /\ UNCHANGED <<wire, written, canceled>>

(* The client disconnects. *)
Cancel ==
    /\ pc \in {"connect", "read", "closed"}
    /\ ~canceled
    /\ canceled' = TRUE
    /\ UNCHANGED <<pc, attempt, format, feed, gate, wire, written, result, sent>>

-----------------------------------------------------------------------------
(* What one read of the body gives to the gate: a line of SSE as it is; for a *)
(* chunk of Ollama an event, and the end of the stream with the last one; for *)
(* a JSON answer with content one event.  The last two close the body.        *)
ReadSSELine ==
    /\ format = "sse"
    /\ \E line \in Lines :
         /\ "done" \in Range(sent) /\ ~TrailingLines => line = "blank"
         /\ feed' = <<line>>
    /\ pc' = "read"

ReadOllamaChunk ==
    /\ format = "ollama"
    /\ \E line \in {"pre", "content"} :
         \/ feed' = <<line, "blank">> /\ pc' = "read"
         \/ feed' = <<line, "blank", "done", "blank">> /\ pc' = "closed"

ReadJSONAnswer ==
    /\ format = "json"
    /\ feed' = <<"content", "blank">>
    /\ pc' = "closed"

Read ==
    /\ pc = "read"
    /\ feed = << >>
    /\ Len(sent) < MaxLines
    /\ ReadSSELine \/ ReadOllamaChunk \/ ReadJSONAnswer
    /\ UNCHANGED <<attempt, format, gate, wire, written, canceled, result, sent>>

(* A faulty variant: what was held back is forgotten. *)
LinesToWriteBare(g, line) ==
    IF g.sawContent \/ line = "content" THEN <<line>> ELSE << >>

(* What FeedLine writes for a line, and what it leaves of the gate. *)
LinesToWrite(g, line) ==
    IF g.sawContent THEN <<line>>
    ELSE IF line = "content" THEN Append(g.preamble, line)
    ELSE << >>

GateAfter(g, line) ==
    IF line = "done" THEN [g EXCEPT !.sawDone = TRUE]
    ELSE IF g.sawContent THEN g
    ELSE IF line = "content" THEN [g EXCEPT !.sawContent = TRUE, !.preamble = << >>]
    ELSE [g EXCEPT !.preamble = Append(@, line)]

FeedLine ==
    /\ pc \in {"read", "closed"}
    /\ feed # << >>
    /\ wire' = wire \o FromAttempt(LinesToWrite(gate, Head(feed)))
    /\ written' = (written \/ LinesToWrite(gate, Head(feed)) # << >>)
    /\ gate' = GateAfter(gate, Head(feed))
    /\ sent' = Append(sent, Head(feed))
    /\ feed' = Tail(feed)
    /\ UNCHANGED <<pc, attempt, format, canceled, result>>

(* One of the writes fails; those before it have reached the client. *)
FeedLineFails ==
    /\ pc \in {"read", "closed"}
    /\ feed # << >>
    /\ \E n \in 1 .. Len(LinesToWrite(gate, Head(feed))) :
         wire' = wire \o FromAttempt(SubSeq(LinesToWrite(gate, Head(feed)), 1, n - 1))
    /\ written' = TRUE
    /\ Return(IF canceled THEN "canceled" ELSE "clientWrite", FALSE)
    /\ UNCHANGED canceled

(* The end of the body: Finish, and success unless nothing had content. *)
BodyEnds ==
    /\ pc \in {"read", "closed"}
    /\ feed = << >>
    /\ IF ~gate.sawContent
       THEN AttemptFails
       ELSE IF canceled
       THEN Return("canceled", FALSE)
       ELSE Return("none", gate.sawDone)
    /\ UNCHANGED <<wire, written, canceled>>

(* The body cannot be read to its end or decoded: the upstream or the network *)
(* fails, a line is too long, the context is canceled.                        *)
BodyBreaks ==
    /\ pc \in {"read", "closed"}
    /\ pc = "closed" => format = "ollama"
    /\ feed = << >>
    /\ AttemptFails
    /\ UNCHANGED <<wire, written, canceled>>

-----------------------------------------------------------------------------
(* chatCompletionsHandler, behind Stream. *)
ClientIsGone == result.error \in {"canceled", "clientWrite"}

Done == IF result.upstreamDone THEN << >> ELSE FromHandler("done")

HandleResult ==
    /\ pc = "handle"
    /\ pc' = "end"
    /\ wire' =
         CASE ClientIsGone            -> wire
           [] result.error = "none"   -> wire \o Done
           [] result.error = "failed" ->
                IF written THEN wire \o FromHandler("error") \o Done
                ELSE wire \o FromHandler("failure500")
    /\ UNCHANGED <<attempt, format, feed, gate, written, canceled, result, sent>>

Next ==
    \/ CanceledBeforeCall
    \/ CallAnswered
    \/ CallRefused
    \/ Cancel
    \/ Read
    \/ FeedLine
    \/ FeedLineFails
    \/ BodyEnds
    \/ BodyBreaks
    \/ HandleResult

Spec == Init /\ [][Next]_vars

-----------------------------------------------------------------------------
LinesFrom(from) ==
    LET those == Only(wire, {w \in WireLine : w.from = from})
    IN  [i \in DOMAIN those |-> those[i].line]

IsFirstContent(lines, i) ==
    /\ lines[i] = "content"
    /\ \A j \in 1 .. i - 1 : lines[j] # "content"

(* What the gate owes the client of the lines it was given: all of them, from *)
(* the first one on, once one has content, but for a [DONE] that came before. *)
Owed(lines) ==
    LET first == CHOOSE i \in DOMAIN lines : IsFirstContent(lines, i)
        held  == SubSeq(lines, 1, first - 1)
    IN  IF "content" \in Range(lines)
        THEN Only(held, Lines \ {"done"}) \o SubSeq(lines, first, Len(lines))
        ELSE << >>

(* The client never sees a line of a model that is abandoned for another one, *)
(* and while the connection holds it has exactly the lines the model that     *)
(* answers has sent, in their order and from the first one on, as soon as     *)
(* one of them has content, and none before.                                  *)
RelayIsFaithful ==
    /\ \A i \in 1 .. attempt - 1 : LinesFrom(i) = << >>
    /\ result.error # "clientWrite" /\ ~canceled => LinesFrom(attempt) = Owed(sent)
    /\ IsPrefix(LinesFrom(attempt), Owed(sent \o feed))

-----------------------------------------------------------------------------
(* The client as ClientStream describes it: it hears the model of its first   *)
(* line, and nothing comes any more once Stream has given it up or the        *)
(* handler is done.                                                           *)
Speaker == IF wire = << >> THEN 0 ELSE wire[1].from

Over ==
    \/ pc = "end"
    \/ pc = "handle" /\ ClientIsGone

Client == INSTANCE ClientStream WITH
            Models <- 1 .. Attempts, model <- Speaker, heard <- wire,
            over <- Over, gone <- ClientIsGone

(* Whatever attempts fail, break off, are empty or are given up, the client   *)
(* gets one model's lines from the first one with content on, nothing but     *)
(* blanks behind that model's [DONE], and an end of its answer, written by    *)
(* the model or in its place by the handler.  It gets a second [DONE] only    *)
(* behind the error of a model that broke off after its own.                  *)
ImplementsClientStream == Client!ClientSpec
=============================================================================
