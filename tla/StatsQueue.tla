----------------------------- MODULE StatsQueue -----------------------------
(* The asynchronous writes of the statistics (db/db.go) and the end of the    *)
(* program that they depend on (main.go).  The requests and the warm-up put   *)
(* jobs on a channel, workers collect them into batches and write each batch  *)
(* in one transaction, and main closes the channel as soon as the server has  *)
(* stopped to listen, which is before its last requests are over.             *)
EXTENDS Naturals, SequencesExt

CONSTANTS
    Requests,       \* handlers of the HTTP server
    Background,     \* warm-ups: goroutines that the server does not know
    Workers,        \* 2
    Kinds,          \* request, rate limit, error: a buffer each
    ChanCap,        \* 500
    MaxBatch,       \* 100
    MaxJobs         \* bound: jobs of one producer

ASSUME QueueAssumption ==
    /\ Requests \cap Background = {}
    /\ Workers # {}
    /\ ChanCap \in Nat
    /\ MaxBatch \in Nat \ {0}
    /\ MaxJobs \in Nat

Producers == Requests \cup Background

VARIABLES
    main,           \* where the main goroutine is
    initialized,
    dbChan,         \* what the channel holds
    closed,         \* close(dbChan)
    worker,
    producer,
    accepted,       \* history: the jobs the channel took
    stored,         \* the rows of the database
    lost            \* history: the jobs of transactions that failed

queue == <<dbChan, closed, accepted>>
rows  == <<stored, lost>>
vars  == <<main, initialized, dbChan, closed, worker, producer, accepted, stored, lost>>

Job == [by : Producers, n : 1 .. MaxJobs, kind : Kinds]

EmptyBatch == [kind \in Kinds |-> << >>]

(* "flush" and "last": in flushBatch, in the loop or behind it. *)
WorkerState == [pc : {"none", "select", "flush", "last", "exited"},
                batch : [Kinds -> Seq(Job)]]

ProducerState == [pc : {"idle", "active", "done", "panicked"}, n : 0 .. MaxJobs]

TypeOK ==
    /\ main \in {"start", "serving", "closing", "waiting", "closed", "exited", "crashed"}
    /\ initialized \in BOOLEAN
    /\ dbChan \in Seq(Job)
    /\ Len(dbChan) <= ChanCap
    /\ closed \in BOOLEAN
    /\ worker \in [Workers -> WorkerState]
    /\ producer \in [Producers -> ProducerState]
    /\ accepted \subseteq Job
    /\ stored \subseteq Job
    /\ lost \subseteq Job

Init ==
    /\ main = "start"
    /\ initialized = FALSE
    /\ dbChan = << >>
    /\ closed = FALSE
    /\ worker = [w \in Workers |-> [pc |-> "none", batch |-> EmptyBatch]]
    /\ producer = [p \in Producers |-> [pc |-> "idle", n |-> 0]]
    /\ accepted = {}
    /\ stored = {}
    /\ lost = {}

Alive == main \notin {"exited", "crashed"}

-----------------------------------------------------------------------------
(* main.  InitDB may fail; logger.Fatal reports it and returns.               *)
InitDB ==
    /\ main = "start"
    /\ main' = "serving"
    /\ initialized' = TRUE
    /\ worker' = [w \in Workers |-> [worker[w] EXCEPT !.pc = "select"]]
    /\ UNCHANGED <<queue, producer, rows>>

InitDBFails ==
    /\ main = "start"
    /\ main' = "serving"
    /\ UNCHANGED <<initialized, queue, worker, producer, rows>>

(* A signal: Shutdown makes ListenAndServe return at once, and waits for the  *)
(* requests in a goroutine that nobody waits for.                             *)
StopListening ==
    /\ main = "serving"
    /\ main' = "closing"
    /\ UNCHANGED <<initialized, queue, worker, producer, rows>>

Close ==
    /\ main = "closing"
    /\ closed' = initialized
    /\ main' = "waiting"
    /\ UNCHANGED <<initialized, dbChan, worker, producer, accepted, rows>>

(* A faulty variant: the workers are not waited for. *)
CloseReturnsAtOnce ==
    /\ main = "waiting"
    /\ main' = "closed"
    /\ UNCHANGED <<initialized, queue, worker, producer, rows>>

(* wg.Wait, and the database is closed. *)
CloseReturns ==
    /\ main = "waiting"
    /\ \A w \in Workers : worker[w].pc \in {"none", "exited"}
    /\ main' = "closed"
    /\ UNCHANGED <<initialized, queue, worker, producer, rows>>

(* main returns, after what it does behind db.Close. *)
Exit ==
    /\ main = "closed"
    /\ main' = "exited"
    /\ UNCHANGED <<initialized, queue, worker, producer, rows>>

-----------------------------------------------------------------------------
(* The producers.  A timer may start a warm-up at any time.                   *)
StartProducer(p) ==
    /\ producer[p].pc = "idle"
    /\ IF p \in Requests THEN main = "serving" ELSE Alive /\ main # "start"
    /\ producer' = [producer EXCEPT ![p].pc = "active"]
    /\ UNCHANGED <<main, initialized, queue, worker, rows>>

FinishProducer(p) ==
    /\ Alive
    /\ producer[p].pc = "active"
    /\ producer' = [producer EXCEPT ![p].pc = "done"]
    /\ UNCHANGED <<main, initialized, queue, worker, rows>>

Enqueues(p) ==
    /\ Alive
    /\ producer[p].pc = "active"
    /\ producer[p].n < MaxJobs

(* A faulty variant: the channel is taken to be without a capacity. *)
EnqueueAlways(p, kind) ==
    /\ Enqueues(p)
    /\ ~closed
    /\ LET job == [by |-> p, n |-> producer[p].n + 1, kind |-> kind]
       IN  IF initialized
           THEN dbChan' = Append(dbChan, job) /\ accepted' = accepted \cup {job}
           ELSE UNCHANGED <<dbChan, accepted>>
    /\ producer' = [producer EXCEPT ![p].n = @ + 1]
    /\ UNCHANGED <<main, initialized, closed, worker, rows>>

(* Before InitDB, and when the channel is full, the job is dropped. *)
Enqueue(p, kind) ==
    /\ Enqueues(p)
    /\ ~closed
    /\ LET job == [by |-> p, n |-> producer[p].n + 1, kind |-> kind]
       IN  IF initialized /\ Len(dbChan) < ChanCap
           THEN /\ dbChan' = Append(dbChan, job)
                /\ accepted' = accepted \cup {job}
           ELSE UNCHANGED <<dbChan, accepted>>
    /\ producer' = [producer EXCEPT ![p].n = @ + 1]
    /\ UNCHANGED <<main, initialized, closed, worker, rows>>

(* A send on a closed channel panics.  The server recovers the panic of a     *)
(* handler; that of a warm-up ends the program.                               *)
EnqueuePanics(p) ==
    /\ Enqueues(p)
    /\ closed
    /\ producer' = [producer EXCEPT ![p].pc = "panicked"]
    /\ main' = IF p \in Background THEN "crashed" ELSE main
    /\ UNCHANGED <<initialized, queue, worker, rows>>

-----------------------------------------------------------------------------
(* The workers. *)
Buffered(w) == UNION {Range(worker[w].batch[kind]) : kind \in Kinds}

IsFull(batch) == \E kind \in Kinds : Len(batch[kind]) >= MaxBatch

(* A faulty variant: only the buffer of the job itself is looked at, and it   *)
(* starts again from the job that has filled it.                              *)
ReceiveOverwrites(w) ==
    /\ Alive
    /\ worker[w].pc = "select"
    /\ dbChan # << >>
    /\ LET job == Head(dbChan)
       IN  worker' = [worker EXCEPT
             ![w].batch[job.kind] = IF Len(@) + 1 >= MaxBatch THEN <<job>>
                                    ELSE Append(@, job)]
    /\ dbChan' = Tail(dbChan)
    /\ UNCHANGED <<main, initialized, closed, producer, accepted, rows>>

Receive(w) ==
    /\ Alive
    /\ worker[w].pc = "select"
    /\ dbChan # << >>
    /\ LET job   == Head(dbChan)
           batch == [worker[w].batch EXCEPT ![job.kind] = Append(@, job)]
       IN  worker' = [worker EXCEPT
             ![w] = [pc |-> IF IsFull(batch) THEN "flush" ELSE "select",
                     batch |-> batch]]
    /\ dbChan' = Tail(dbChan)
    /\ UNCHANGED <<main, initialized, closed, producer, accepted, rows>>

(* A faulty variant: a batch is written when it is full, and only then. *)
FlushTickWhenFull(w) ==
    /\ Alive
    /\ worker[w].pc = "select"
    /\ IsFull(worker[w].batch)
    /\ worker' = [worker EXCEPT ![w].pc = "flush"]
    /\ UNCHANGED <<main, initialized, queue, producer, rows>>

FlushTick(w) ==
    /\ Alive
    /\ worker[w].pc = "select"
    /\ Buffered(w) # {}
    /\ worker' = [worker EXCEPT ![w].pc = "flush"]
    /\ UNCHANGED <<main, initialized, queue, producer, rows>>

(* A faulty variant: the end of the channel is taken for one more tick. *)
ReceiveCloseGoesOn(w) ==
    /\ Alive
    /\ worker[w].pc = "select"
    /\ closed /\ dbChan = << >>
    /\ worker' = [worker EXCEPT ![w].pc = "flush"]
    /\ UNCHANGED <<main, initialized, queue, producer, rows>>

(* A closed channel is received from once it is empty. *)
ReceiveClose(w) ==
    /\ Alive
    /\ worker[w].pc = "select"
    /\ closed /\ dbChan = << >>
    /\ worker' = [worker EXCEPT ![w].pc = "last"]
    /\ UNCHANGED <<main, initialized, queue, producer, rows>>

(* flushBatch is one transaction: all of the batch is written or none of it,  *)
(* and what is not written is not kept.                                       *)
FlushBatch(w) ==
    /\ Alive
    /\ worker[w].pc \in {"flush", "last"}
    /\ \/ stored' = stored \cup Buffered(w) /\ UNCHANGED lost
       \/ lost' = lost \cup Buffered(w) /\ UNCHANGED stored
    /\ worker' = [worker EXCEPT
         ![w] = [pc |-> IF @.pc = "last" THEN "exited" ELSE "select",
                 batch |-> EmptyBatch]]
    /\ UNCHANGED <<main, initialized, queue, producer>>

-----------------------------------------------------------------------------
WorkerStep(w) == Receive(w) \/ FlushTick(w) \/ ReceiveClose(w) \/ FlushBatch(w)

Next ==
    \/ InitDB
    \/ InitDBFails
    \/ StopListening
    \/ Close
    \/ CloseReturns
    \/ Exit
    \/ \E p \in Producers :
         \/ StartProducer(p)
         \/ FinishProducer(p)
         \/ \E kind \in Kinds : Enqueue(p, kind)
         \/ EnqueuePanics(p)
    \/ \E w \in Workers : WorkerStep(w)

Spec == Init /\ [][Next]_vars

-----------------------------------------------------------------------------
(* A job the channel took is at every time in exactly one place, the channel, *)
(* the buffer of a worker, the rows or a transaction that failed: no worker   *)
(* drops it between a receive and a flush, and no row is written twice.       *)
InBuffers == UNION {Buffered(w) : w \in Workers}

BuffersAreApart ==
    \A v, w \in Workers : \A k, l \in Kinds :
        \A i \in DOMAIN worker[v].batch[k], j \in DOMAIN worker[w].batch[l] :
            worker[v].batch[k][i] = worker[w].batch[l][j]
              => v = w /\ k = l /\ i = j

ChannelIsApart ==
    /\ \A i, j \in DOMAIN dbChan : dbChan[i] = dbChan[j] => i = j
    /\ Range(dbChan) \cap InBuffers = {}

RowsAreApart ==
    /\ (Range(dbChan) \cup InBuffers) \cap (stored \cup lost) = {}
    /\ stored \cap lost = {}

JobIsInOnePlace ==
    /\ accepted = Range(dbChan) \cup InBuffers \cup stored \cup lost
    /\ BuffersAreApart
    /\ ChannelIsApart
    /\ RowsAreApart

DbPhase ==
    IF main = "crashed" THEN "dead"
    ELSE IF main \in {"closed", "exited"} THEN "returned"
    ELSE IF ~initialized THEN "new"
    ELSE IF closed THEN "sealed" ELSE "open"

(* Close waits for the workers: it returns when every job the channel took    *)
(* has been written, or was in a transaction that failed, and the channel     *)
(* takes none after it has begun.                                             *)
DbQueue == INSTANCE AsyncQueue WITH
    Items   <- Job,
    phase   <- DbPhase,
    taken   <- accepted,
    handled <- stored \cup lost

DbIsAsyncQueue == DbQueue!AsyncSpec

(* No job stays in a buffer: when no more jobs come, each one the channel     *)
(* took is written or its transaction fails, unless a panic ends the program. *)
JobsAreWritten == []<>(accepted = stored \cup lost \/ main = "crashed")
=============================================================================
