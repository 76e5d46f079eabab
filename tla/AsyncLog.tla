------------------------------ MODULE AsyncLog ------------------------------
(* The logger (logger/logger.go, logger/ring_buffer.go): whoever logs puts an *)
(* entry on a channel, one goroutine takes them off, keeps the last ones in a *)
(* ring for the readers of the log and prints each.  A lock keeps Shutdown    *)
(* from closing the channel between the look of a sender at initialized and   *)
(* its send.                                                                  *)
EXTENDS Naturals, SequencesExt, Sequencing

CONSTANTS
    Loggers,        \* goroutines that log
    Nobody,
    Levels,         \* zerolog levels, a higher one is more severe
    LogCap,         \* 1000
    RingSize,       \* 100
    LevelOf,        \* the level at which each goroutine logs
    MaxLogs         \* bound: messages of each goroutine

ASSUME LogAssumption ==
    /\ Nobody \notin Loggers
    /\ Levels \subseteq Nat
    /\ LogCap \in Nat
    /\ RingSize \in Nat \ {0}
    /\ LevelOf \in [Loggers -> Levels]
    /\ MaxLogs \in [Loggers -> Nat]

VARIABLES
    logReady,       \* initialized
    logMu,          \* the sender that holds mu
    sends,          \* the calls of send that have returned, of each goroutine
    logChan,
    logClosed,      \* close(logChan)
    writer,         \* asyncWriter
    holding,        \* the entry it has taken and not yet printed, if any
    ring,           \* GlobalRingBuffer
    printed,        \* what has been printed, in order
    logged,         \* history: what the channel took, in order
    shutdown        \* Shutdown, up to its return

logVars ==
    <<logReady, logMu, sends, logChan, logClosed, writer, holding, ring, printed,
      logged, shutdown>>

gate   == <<logReady, logMu, sends>>
output == <<writer, holding, ring, printed>>

EntryOf(p) == [by : {p}, n : 1 .. MaxLogs[p], level : {LevelOf[p]}]

Entry == UNION {EntryOf(p) : p \in Loggers}

Slots == 0 .. RingSize - 1

(* An entry that make() has left at its zero value. *)
NoEntry == [by |-> Nobody, n |-> 0, level |-> 0]

LogTypeOK ==
    /\ logReady \in BOOLEAN
    /\ logMu \in Loggers \cup {Nobody}
    /\ sends \in [Loggers -> Nat]
    /\ logChan \in Seq(Entry)
    /\ Len(logChan) <= LogCap
    /\ logClosed \in BOOLEAN
    /\ writer \in {"none", "running", "exited"}
    /\ holding \in Seq(Entry)
    /\ Len(holding) <= 1
    /\ ring \in [entries : [Slots -> Entry \cup {NoEntry}], head : Slots, full : BOOLEAN]
    /\ printed \in Seq(Entry)
    /\ logged \in Seq(Entry)
    /\ shutdown \in {"none", "sealed", "waiting", "returned"}

LogInit ==
    /\ logReady = FALSE
    /\ logMu = Nobody
    /\ sends = [p \in Loggers |-> 0]
    /\ logChan = << >>
    /\ logClosed = FALSE
    /\ writer = "none"
    /\ holding = << >>
    /\ ring = [entries |-> [i \in Slots |-> NoEntry], head |-> 0, full |-> FALSE]
    /\ printed = << >>
    /\ logged = << >>
    /\ shutdown = "none"

-----------------------------------------------------------------------------
(* logger.Init, which main calls first. *)
StartLog ==
    /\ writer = "none"
    /\ shutdown = "none"
    /\ logReady' = TRUE
    /\ writer' = "running"
    /\ UNCHANGED <<logMu, sends, logChan, logClosed, holding, ring, printed, logged, shutdown>>

(* send, up to the look at initialized.                                       *)
SendLocks(p) ==
    /\ logMu = Nobody
    /\ sends[p] < MaxLogs[p]
    /\ IF logReady
       THEN logMu' = p /\ UNCHANGED sends
       ELSE sends' = [sends EXCEPT ![p] = @ + 1] /\ UNCHANGED logMu
    /\ UNCHANGED <<logReady, logChan, logClosed, output, logged, shutdown>>

(* The send never blocks: what finds the channel full is dropped. *)
SendPuts(p) ==
    /\ logMu = p
    /\ IF Len(logChan) < LogCap
       THEN LET entry == [by |-> p, n |-> sends[p] + 1, level |-> LevelOf[p]]
            IN  logChan' = Append(logChan, entry) /\ logged' = Append(logged, entry)
       ELSE UNCHANGED <<logChan, logged>>
    /\ logMu' = Nobody
    /\ sends' = [sends EXCEPT ![p] = @ + 1]
    /\ UNCHANGED <<logReady, logClosed, output, shutdown>>

-----------------------------------------------------------------------------
(* A faulty variant: the ring is full when its last slot is the next one. *)
RingAddFullEarly(entry) ==
    LET head == (ring.head + 1) % RingSize
    IN  [entries |-> [ring.entries EXCEPT ![ring.head] = entry],
         head    |-> head,
         full    |-> ring.full \/ head = RingSize - 1]

RingAdd(entry) ==
    LET head == (ring.head + 1) % RingSize
    IN  [entries |-> [ring.entries EXCEPT ![ring.head] = entry],
         head    |-> head,
         full    |-> ring.full \/ head = 0]

AtLeast(level) == {entry \in Entry \cup {NoEntry} : entry.level >= level}

(* What a reader of the log gets: NoLevel, which asks for all of it, is the    *)
(* lowest level here.                                                         *)
RingGet(level) ==
    LET start == IF ring.full THEN ring.head ELSE 0
        count == IF ring.full THEN RingSize ELSE ring.head
    IN  Only([i \in 1 .. count |-> ring.entries[(start + i - 1) % RingSize]],
             AtLeast(level))

(* asyncWriter *)
WriterReceives ==
    /\ writer = "running"
    /\ holding = << >>
    /\ logChan # << >>
    /\ ring' = RingAdd(Head(logChan))
    /\ holding' = <<Head(logChan)>>
    /\ logChan' = Tail(logChan)
    /\ UNCHANGED <<gate, logClosed, writer, printed, logged, shutdown>>

WriterPrints ==
    /\ writer = "running"
    /\ holding # << >>
    /\ printed' = Append(printed, Head(holding))
    /\ holding' = << >>
    /\ UNCHANGED <<gate, logChan, logClosed, writer, ring, logged, shutdown>>

(* A faulty variant: the writer leaves when it hears of the end. *)
WriterExitsAtOnce ==
    /\ writer = "running"
    /\ holding = << >>
    /\ logClosed
    /\ writer' = "exited"
    /\ UNCHANGED <<gate, logChan, logClosed, holding, ring, printed, logged, shutdown>>

(* range ends when the channel is closed and empty. *)
WriterExits ==
    /\ writer = "running"
    /\ holding = << >>
    /\ logClosed /\ logChan = << >>
    /\ writer' = "exited"
    /\ UNCHANGED <<gate, logChan, logClosed, holding, ring, printed, logged, shutdown>>

-----------------------------------------------------------------------------
(* A faulty variant: the lock is not taken. *)
SealWithoutLock ==
    /\ shutdown = "none"
    /\ logReady' = FALSE
    /\ shutdown' = IF logReady THEN "sealed" ELSE "returned"
    /\ UNCHANGED <<logMu, sends, logChan, logClosed, output, logged>>

(* Shutdown, up to its unlock. *)
SealLog ==
    /\ shutdown = "none"
    /\ logMu = Nobody
    /\ logReady' = FALSE
    /\ shutdown' = IF logReady THEN "sealed" ELSE "returned"
    /\ UNCHANGED <<logMu, sends, logChan, logClosed, output, logged>>

CloseLog ==
    /\ shutdown = "sealed"
    /\ logClosed' = TRUE
    /\ shutdown' = "waiting"
    /\ UNCHANGED <<gate, logChan, output, logged>>

(* wg.Wait *)
ShutdownReturns ==
    /\ shutdown = "waiting"
    /\ writer = "exited"
    /\ shutdown' = "returned"
    /\ UNCHANGED <<gate, logChan, logClosed, output, logged>>

Send(p) == SendLocks(p) \/ SendPuts(p)

WriterStep == WriterReceives \/ WriterPrints \/ WriterExits

ShutdownStep == SealLog \/ CloseLog \/ ShutdownReturns

LogNext ==
    \/ StartLog
    \/ \E p \in Loggers : Send(p)
    \/ WriterStep
    \/ ShutdownStep

LogSpec == LogInit /\ [][LogNext]_logVars

-----------------------------------------------------------------------------
(* "releasing it before the non-blocking send would allow Shutdown() to close *)
(* logChan between the initialized check and the send": a sender that has     *)
(* seen the logger initialized never meets a closed channel, and a send on a  *)
(* closed channel would panic.                                                *)
NoSendOnClosed == logMu # Nobody => ~logClosed

(* What the writer has taken off the channel.                                 *)
Received == SubSeq(logged, 1, Len(logged) - Len(logChan))

(* Entries are printed once, in the order in which the channel took them.     *)
PrintedInOrder ==
    logged = printed \o holding \o logChan

(* The ring holds the last entries received; its readers get those of a level *)
(* in chronological order, before and after it has wrapped around.            *)
RingHoldsTheLast ==
    LET n    == Len(Received)
        last == SubSeq(Received, IF n > RingSize THEN n - RingSize + 1 ELSE 1, n)
    IN  \A level \in Levels :
            RingGet(level) = Only(last, AtLeast(level))

(* What is logged appears in one order, on the output and to the readers of   *)
(* the ring, whatever the interleaving of those who log.                      *)
LogIsInOrder == PrintedInOrder /\ RingHoldsTheLast

LogPhase ==
    IF shutdown = "returned" THEN "returned"
    ELSE IF shutdown # "none" THEN "sealed"
    ELSE IF logReady THEN "open" ELSE "new"

(* "Shutdown gracefully stops the logger, flushing remaining entries": an     *)
(* entry that send took is printed before Shutdown returns, and none is taken *)
(* after it has begun.                                                        *)
LogQueue == INSTANCE AsyncQueue WITH
    Items   <- Entry,
    phase   <- LogPhase,
    taken   <- Range(logged),
    handled <- Range(printed)

LogIsAsyncQueue == LogQueue!AsyncSpec
=============================================================================
