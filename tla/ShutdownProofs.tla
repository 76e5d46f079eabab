--------------------------- MODULE ShutdownProofs ---------------------------
(* Proofs about the process: the statistics queue and the logger are          *)
(* asynchronous queues, on their own and under everything else the process    *)
(* does; a job is in one place; no sender meets a closed channel of the log.  *)
EXTENDS Shutdown, TLAPS

-----------------------------------------------------------------------------
(* What the elements of a sequence are behind an Append and a Tail.           *)
LEMMA AppendRange ==
    ASSUME NEW S, NEW s \in Seq(S), NEW e \in S
    PROVE  /\ Append(s, e) \in Seq(S)
           /\ Range(Append(s, e)) = Range(s) \cup {e}
  BY DEF Range

(* What a receive takes off a channel, and what it leaves there.              *)
LEMMA HeadTail ==
    ASSUME NEW S, NEW s \in Seq(S), s # << >>
    PROVE  /\ Head(s) \in S /\ Tail(s) \in Seq(S)
           /\ Range(s) = Range(Tail(s)) \cup {Head(s)}
           /\ Len(Tail(s)) = Len(s) - 1
           /\ \A i \in DOMAIN Tail(s) : i + 1 \in DOMAIN s /\ Tail(s)[i] = s[i + 1]
  <1>1. /\ Head(s) \in S /\ Tail(s) \in Seq(S) /\ Len(Tail(s)) = Len(s) - 1
        /\ \A i \in DOMAIN Tail(s) : i + 1 \in DOMAIN s /\ Tail(s)[i] = s[i + 1]
    OBVIOUS
  <1>2. ASSUME NEW i \in DOMAIN s PROVE s[i] \in Range(Tail(s)) \cup {Head(s)}
    <2>1. CASE i = 1
      BY <2>1
    <2>2. CASE i # 1
      <3>1. i - 1 \in DOMAIN Tail(s) /\ Tail(s)[i - 1] = s[i]
        BY <2>2
      <3> QED BY <3>1 DEF Range
    <2> QED BY <2>1, <2>2
  <1>3. Range(Tail(s)) \cup {Head(s)} \subseteq Range(s)
    BY <1>1 DEF Range
  <1> QED BY <1>1, <1>2, <1>3 DEF Range

-----------------------------------------------------------------------------
(* The statistics queue.  QueueShape relates where main is to the channel and *)
(* to the workers; it is what makes Close wait for the right thing.           *)
QueueShape ==
    /\ ~initialized =>
         /\ dbChan = << >> /\ accepted = {} /\ ~closed
         /\ \A w \in Workers : worker[w].pc = "none"
    /\ initialized => main # "start" /\ \A w \in Workers : worker[w].pc # "none"
    /\ closed => main \in {"waiting", "closed", "exited", "crashed"}
    /\ initialized /\ main \in {"waiting", "closed", "exited"} => closed
    /\ main \in {"closed", "exited"} =>
         \A w \in Workers : worker[w].pc \in {"none", "exited"}

(* A worker that has heard of the end leaves nothing behind.                  *)
WorkersLeaveClean ==
    \A w \in Workers :
        /\ worker[w].pc \in {"last", "exited"} => closed /\ dbChan = << >>
        /\ worker[w].pc = "exited" => worker[w].batch = EmptyBatch

(* A job that has been accepted is not the next one of its producer.          *)
JobsAreNumbered == \A job \in accepted : job.n <= producer[job.by].n

QueueInv ==
    TypeOK /\ QueueShape /\ WorkersLeaveClean /\ JobsAreNumbered /\ JobIsInOnePlace

(* Nothing is on the queue at first.                                          *)
LEMMA InitQueueInv == Init => QueueInv
  <1> SUFFICES ASSUME Init PROVE QueueInv
    OBVIOUS
  <1>1. EmptyBatch \in [Kinds -> Seq(Job)]
    BY DEF EmptyBatch
  <1>2. TypeOK
    <2>1. worker \in [Workers -> WorkerState]
      BY <1>1 DEF Init, WorkerState
    <2>2. producer \in [Producers -> ProducerState]
      BY QueueAssumption DEF Init, ProducerState
    <2>3. dbChan \in Seq(Job) /\ Len(dbChan) <= ChanCap
      BY QueueAssumption DEF Init
    <2> QED BY <2>1, <2>2, <2>3 DEF Init, TypeOK
  <1>3. QueueShape /\ WorkersLeaveClean /\ JobsAreNumbered
    BY DEF Init, QueueShape, WorkersLeaveClean, JobsAreNumbered
  <1>4. InBuffers = {} /\ Range(dbChan) = {}
    BY DEF Init, InBuffers, Buffered, EmptyBatch, Range
  <1>5. JobIsInOnePlace
    BY <1>4 DEF Init, JobIsInOnePlace, BuffersAreApart, ChannelIsApart, RowsAreApart,
                EmptyBatch
  <1> QED BY <1>2, <1>3, <1>5 DEF QueueInv

(* What a step that moves no job leaves as it was.                            *)
LEMMA JobsStay ==
    ASSUME JobIsInOnePlace, UNCHANGED <<dbChan, accepted, rows>>,
           \A w \in Workers : worker'[w].batch = worker[w].batch
    PROVE  JobIsInOnePlace'
  <1>1. \A w \in Workers : Buffered(w)' = Buffered(w)
    BY DEF Buffered
  <1>2. InBuffers' = InBuffers
    BY <1>1 DEF InBuffers
  <1>3. BuffersAreApart'
    BY DEF JobIsInOnePlace, BuffersAreApart
  <1> QED BY <1>2, <1>3 DEF JobIsInOnePlace, ChannelIsApart, RowsAreApart, rows

(* The steps of main, which move no job.                                      *)
LEMMA MainQueueStep ==
    ASSUME QueueInv,
           InitDB \/ InitDBFails \/ StopListening \/ Close \/ CloseReturns \/ Exit
    PROVE  QueueInv'
  <1> USE DEF QueueInv, queue, rows
  <1>1. \A w \in Workers : worker'[w].batch = worker[w].batch
    BY DEF InitDB, InitDBFails, StopListening, Close, CloseReturns, Exit, TypeOK, WorkerState
  <1>2. UNCHANGED <<dbChan, accepted, rows, producer>>
    BY DEF InitDB, InitDBFails, StopListening, Close, CloseReturns, Exit
  <1>3. JobIsInOnePlace'
    BY <1>1, <1>2, JobsStay
  <1>4. JobsAreNumbered'
    BY <1>2 DEF JobsAreNumbered
  <1>5. TypeOK'
    <2>1. CASE InitDB
      BY <2>1 DEF InitDB, TypeOK, WorkerState
    <2>2. CASE InitDBFails \/ StopListening \/ Close \/ CloseReturns \/ Exit
      BY <2>2 DEF InitDBFails, StopListening, Close, CloseReturns, Exit, TypeOK
    <2> QED BY <2>1, <2>2
  <1>6. QueueShape' /\ WorkersLeaveClean'
    <2>1. CASE InitDB
      <3>1. \A w \in Workers : worker'[w].pc = "select"
        BY <2>1 DEF InitDB, TypeOK, WorkerState
      <3>2. ~closed
        BY <2>1 DEF InitDB, QueueShape
      <3> QED BY <2>1, <3>1, <3>2 DEF InitDB, QueueShape, WorkersLeaveClean
    <2>2. CASE InitDBFails
      BY <2>2 DEF InitDBFails, QueueShape, WorkersLeaveClean
    <2>3. CASE StopListening
      BY <2>3 DEF StopListening, QueueShape, WorkersLeaveClean
    <2>4. CASE Close
      BY <2>4 DEF Close, QueueShape, WorkersLeaveClean
    <2>5. CASE CloseReturns
      BY <2>5 DEF CloseReturns, QueueShape, WorkersLeaveClean
    <2>6. CASE Exit
      BY <2>6 DEF Exit, QueueShape, WorkersLeaveClean
    <2> QED BY <2>1, <2>2, <2>3, <2>4, <2>5, <2>6
  <1> QED BY <1>3, <1>4, <1>5, <1>6

(* A producer begins or ends, or is ended by its panic.                       *)
LEMMA ProducerQueueStep ==
    ASSUME QueueInv, NEW p \in Producers,
           StartProducer(p) \/ FinishProducer(p) \/ EnqueuePanics(p)
    PROVE  QueueInv'
  <1> USE DEF QueueInv, queue, rows
  <1>7. UNCHANGED <<initialized, dbChan, closed, accepted, rows, worker>>
    BY DEF StartProducer, FinishProducer, EnqueuePanics
  <1>8. PICK pc \in {"active", "done", "panicked"} :
          producer' = [producer EXCEPT ![p].pc = pc]
    BY DEF StartProducer, FinishProducer, EnqueuePanics
  <1>9. producer \in [Producers -> ProducerState]
    BY DEF TypeOK
  <1>1. /\ UNCHANGED <<initialized, dbChan, closed, accepted, rows, worker>>
        /\ \A q \in Producers : producer'[q].n = producer[q].n
        /\ producer' \in [Producers -> ProducerState]
    BY <1>7, <1>8, <1>9 DEF ProducerState
  <1>2. main' = main \/ main' = "crashed"
    BY DEF StartProducer, FinishProducer, EnqueuePanics
  <1>3. JobIsInOnePlace'
    BY <1>1, JobsStay
  <1>4. JobsAreNumbered'
    BY <1>1 DEF JobsAreNumbered, TypeOK, Job
  <1>5. TypeOK'
    BY <1>1, <1>2 DEF TypeOK
  <1>6. QueueShape' /\ WorkersLeaveClean'
    BY <1>1, <1>2 DEF QueueShape, WorkersLeaveClean
  <1> QED BY <1>3, <1>4, <1>5, <1>6

(* A job is put on the channel, as a new one.                                 *)
LEMMA EnqueueStep ==
    ASSUME QueueInv, NEW p \in Producers, NEW kind \in Kinds, Enqueue(p, kind)
    PROVE  /\ QueueInv'
           /\ UNCHANGED <<main, initialized, closed, rows>>
           /\ \/ UNCHANGED accepted
              \/ /\ initialized /\ ~closed
                 /\ \E job \in Job \ accepted : accepted' = accepted \cup {job}
  <1> DEFINE job == [by |-> p, n |-> producer[p].n + 1, kind |-> kind]
  <1>6. /\ UNCHANGED <<main, initialized, closed, worker, rows>> /\ ~closed
        /\ producer' = [producer EXCEPT ![p].n = @ + 1]
        /\ producer[p].n < MaxJobs
    BY DEF Enqueue, Enqueues
  <1>7. producer[p].n \in Nat /\ MaxJobs \in Nat
    BY QueueAssumption DEF QueueInv, TypeOK, ProducerState
  <1>1. /\ producer[p].n + 1 \in 1 .. MaxJobs /\ job \in Job
        /\ UNCHANGED <<main, initialized, closed, worker, rows>> /\ ~closed
        /\ producer' = [producer EXCEPT ![p].n = @ + 1]
    BY <1>6, <1>7 DEF Job
  <1>2. /\ producer'[p].n = producer[p].n + 1
        /\ producer' \in [Producers -> ProducerState]
        /\ \A q \in Producers : producer'[q].n >= producer[q].n
    BY <1>1 DEF QueueInv, TypeOK, ProducerState
  <1>3. job \notin accepted
    BY <1>1 DEF QueueInv, JobsAreNumbered, TypeOK, ProducerState
  <1>4. CASE UNCHANGED <<dbChan, accepted>>
    <2>1. TypeOK'
      BY <1>1, <1>2, <1>4 DEF QueueInv, TypeOK, rows
    <2>2. QueueShape' /\ WorkersLeaveClean'
      BY <1>1, <1>4 DEF QueueInv, QueueShape, WorkersLeaveClean
    <2>3. JobsAreNumbered'
      BY <1>2, <1>4 DEF QueueInv, JobsAreNumbered, TypeOK, Job, ProducerState
    <2>4. JobIsInOnePlace'
      BY <1>1, <1>4, JobsStay DEF QueueInv
    <2> QED BY <1>1, <1>4, <2>1, <2>2, <2>3, <2>4 DEF QueueInv
  <1>5. CASE initialized /\ Len(dbChan) < ChanCap
    <2>1. dbChan' = Append(dbChan, job) /\ accepted' = accepted \cup {job}
      BY <1>5 DEF Enqueue
    <2> HIDE DEF job
    <2>2. dbChan \in Seq(Job)
      BY DEF QueueInv, TypeOK
    <2>3. /\ dbChan' \in Seq(Job) /\ Len(dbChan') = Len(dbChan) + 1
          /\ Range(dbChan') = Range(dbChan) \cup {job}
      BY <1>1, <2>1, <2>2, AppendRange
    <2>4. TypeOK'
      BY <1>1, <1>2, <1>5, <2>1, <2>3, QueueAssumption DEF QueueInv, TypeOK, rows
    <2>5. QueueShape'
      BY <1>1, <1>5, <2>1 DEF QueueInv, QueueShape
    <2>6. WorkersLeaveClean'
      BY <1>1 DEF QueueInv, WorkersLeaveClean
    <2>7. JobsAreNumbered'
      <3>1. job.n = producer[p].n + 1 /\ job.by = p
        BY DEF job
      <3> QED BY <1>2, <2>1, <3>1 DEF QueueInv, JobsAreNumbered, TypeOK, Job, ProducerState
    <2>8. /\ \A w \in Workers : Buffered(w)' = Buffered(w)
          /\ InBuffers' = InBuffers /\ BuffersAreApart'
      BY <1>1 DEF QueueInv, JobIsInOnePlace, Buffered, InBuffers, BuffersAreApart
    <2>9. ChannelIsApart'
      <3>1. \A i \in DOMAIN dbChan : dbChan[i] # job
        BY <1>3 DEF QueueInv, JobIsInOnePlace, Range
      <3>2. \A i, j \in DOMAIN dbChan' : dbChan'[i] = dbChan'[j] => i = j
        BY <1>1, <2>1, <2>2, <3>1 DEF QueueInv, JobIsInOnePlace, ChannelIsApart
      <3> QED BY <1>3, <2>3, <2>8, <3>2 DEF QueueInv, JobIsInOnePlace, ChannelIsApart
    <2>10. RowsAreApart'
      BY <1>1, <1>3, <2>3, <2>8 DEF QueueInv, JobIsInOnePlace, RowsAreApart, rows
    <2>11. JobIsInOnePlace'
      BY <1>1, <2>1, <2>3, <2>8, <2>9, <2>10 DEF QueueInv, JobIsInOnePlace, rows
    <2> QED BY <1>1, <1>3, <1>5, <2>1, <2>4, <2>5, <2>6, <2>7, <2>11 DEF QueueInv
  <1> QED BY <1>4, <1>5 DEF Enqueue

(* A job goes from the channel to the buffer of one worker.                   *)
LEMMA ReceiveStep ==
    ASSUME QueueInv, NEW w \in Workers, Receive(w)
    PROVE  QueueInv'
  <1> DEFINE job == Head(dbChan)
             k   == job.kind
             b   == [worker[w].batch EXCEPT ![k] = Append(@, job)]
  <1>1. /\ dbChan # << >> /\ dbChan' = Tail(dbChan) /\ worker[w].pc = "select"
        /\ UNCHANGED <<main, initialized, closed, producer, accepted, rows>>
        /\ dbChan \in Seq(Job)
    BY DEF Receive, QueueInv, TypeOK
  <1>2. /\ job \in Job /\ Tail(dbChan) \in Seq(Job)
        /\ Range(dbChan) = Range(dbChan') \cup {job}
        /\ Len(dbChan') = Len(dbChan) - 1
        /\ \A i \in DOMAIN dbChan' : i + 1 \in DOMAIN dbChan /\ dbChan'[i] = dbChan[i + 1]
        /\ dbChan[1] = job /\ 1 \in DOMAIN dbChan
    BY <1>1, HeadTail
  <1>3. PICK pc \in {"flush", "select"} :
          worker' = [worker EXCEPT ![w] = [pc |-> pc, batch |-> b]]
    BY DEF Receive
  <1>4. worker \in [Workers -> WorkerState] /\ worker[w].batch \in [Kinds -> Seq(Job)]
    BY DEF QueueInv, TypeOK, WorkerState
  <1> HIDE DEF job
  <1>5. k \in Kinds
    BY <1>2 DEF Job
  <1>6. /\ b \in [Kinds -> Seq(Job)]
        /\ b[k] = Append(worker[w].batch[k], job)
        /\ \A l \in Kinds \ {k} : b[l] = worker[w].batch[l]
    BY <1>2, <1>4, <1>5
  <1> HIDE DEF b, k
  <1>7. /\ worker'[w] = [pc |-> pc, batch |-> b]
        /\ worker' \in [Workers -> WorkerState]
        /\ \A v \in Workers \ {w} : worker'[v] = worker[v]
    BY <1>3, <1>4, <1>6 DEF WorkerState
  <1>8. TypeOK'
    <2>1. Len(dbChan') <= ChanCap
      BY <1>1, <1>2, QueueAssumption DEF QueueInv, TypeOK
    <2> QED BY <1>1, <1>2, <1>7, <2>1 DEF QueueInv, TypeOK, rows
  <1>9. initialized /\ main \notin {"closed", "exited"}
    BY <1>1 DEF QueueInv, QueueShape
  <1>10. QueueShape'
    BY <1>1, <1>7, <1>9 DEF QueueInv, QueueShape
  <1>11. WorkersLeaveClean'
    BY <1>1, <1>7 DEF QueueInv, WorkersLeaveClean
  <1>12. JobsAreNumbered'
    BY <1>1 DEF QueueInv, JobsAreNumbered
  <1>13. /\ \A v \in Workers \ {w} : Buffered(v)' = Buffered(v)
         /\ Buffered(w)' = Buffered(w) \cup {job}
    <2>1. \A v \in Workers \ {w} : Buffered(v)' = Buffered(v)
      BY <1>7 DEF Buffered
    <2>2. /\ Range(b[k]) = Range(worker[w].batch[k]) \cup {job}
          /\ \A l \in Kinds \ {k} : Range(b[l]) = Range(worker[w].batch[l])
      BY <1>2, <1>4, <1>5, <1>6, AppendRange
    <2>3. Buffered(w)' = UNION {Range(b[l]) : l \in Kinds}
      BY <1>7 DEF Buffered
    <2>4. UNION {Range(b[l]) : l \in Kinds} = Buffered(w) \cup {job}
      BY <1>5, <2>2 DEF Buffered
    <2> QED BY <2>1, <2>3, <2>4
  <1>14. InBuffers' = InBuffers \cup {job}
    BY <1>13 DEF InBuffers
  <1>15. /\ job \notin InBuffers /\ job \notin stored \cup lost
         /\ job \notin Range(dbChan')
    <2>1. job \in Range(dbChan)
      BY <1>2
    <2>2. ASSUME NEW i \in DOMAIN dbChan', dbChan'[i] = job PROVE FALSE
      <3>1. i + 1 \in DOMAIN dbChan /\ dbChan[i + 1] = dbChan[1] /\ i + 1 # 1
        BY <1>1, <1>2, <2>2
      <3> QED BY <1>2, <3>1 DEF QueueInv, JobIsInOnePlace, ChannelIsApart
    <2> QED BY <2>1, <2>2 DEF QueueInv, JobIsInOnePlace, ChannelIsApart, RowsAreApart, Range
  <1>16. \A l \in Kinds : \A v \in Workers : \A i \in DOMAIN worker[v].batch[l] :
            worker[v].batch[l][i] # job
    BY <1>15 DEF InBuffers, Buffered, Range
  <1>17. BuffersAreApart'
    <2> SUFFICES ASSUME NEW u \in Workers, NEW v \in Workers,
                        NEW l \in Kinds, NEW m \in Kinds,
                        NEW i \in DOMAIN worker'[u].batch[l],
                        NEW j \in DOMAIN worker'[v].batch[m],
                        worker'[u].batch[l][i] = worker'[v].batch[m][j]
                 PROVE  u = v /\ l = m /\ i = j
      BY DEF BuffersAreApart
    <2> DEFINE New(x, y, z) == x = w /\ y = k /\ z = Len(worker[w].batch[k]) + 1
    <2>1. ASSUME NEW x \in Workers, NEW y \in Kinds, NEW z \in DOMAIN worker'[x].batch[y]
          PROVE  \/ /\ New(x, y, z) /\ worker'[x].batch[y][z] = job
                 \/ /\ ~New(x, y, z)
                    /\ z \in DOMAIN worker[x].batch[y]
                    /\ worker'[x].batch[y][z] = worker[x].batch[y][z]
      <3>1. CASE x = w /\ y = k
        <4> DEFINE old == worker[w].batch[k]
        <4>1. worker'[x].batch[y] = Append(old, job) /\ old \in Seq(Job)
          BY <1>4, <1>5, <1>6, <1>7, <3>1
        <4>2. old = worker[x].batch[y]
          BY <3>1
        <4> HIDE DEF old
        <4>3. z \in 1 .. Len(old) + 1 /\ DOMAIN old = 1 .. Len(old) /\ Len(old) \in Nat
          BY <4>1
        <4>4. CASE z = Len(old) + 1
          BY <1>2, <3>1, <4>1, <4>4 DEF old
        <4>5. CASE z # Len(old) + 1
          <5>1. z \in DOMAIN old /\ worker'[x].batch[y][z] = old[z]
            BY <1>2, <4>1, <4>3, <4>5
          <5>2. ~New(x, y, z)
            BY <4>5 DEF old
          <5> QED BY <4>2, <5>1, <5>2
        <4> QED BY <4>4, <4>5
      <3>2. CASE x = w /\ y # k
        BY <1>6, <1>7, <2>1, <3>2
      <3>3. CASE x # w
        BY <1>7, <2>1, <3>3
      <3> QED BY <3>1, <3>2, <3>3
    <2>2. New(u, l, i) <=> New(v, m, j)
      BY <1>16, <2>1
    <2>3. CASE New(u, l, i)
      BY <2>2, <2>3
    <2>4. CASE ~New(u, l, i)
      <3>1. /\ i \in DOMAIN worker[u].batch[l] /\ j \in DOMAIN worker[v].batch[m]
            /\ worker[u].batch[l][i] = worker[v].batch[m][j]
        BY <2>1, <2>2, <2>4
      <3> QED BY <3>1 DEF QueueInv, JobIsInOnePlace, BuffersAreApart
    <2> QED BY <2>3, <2>4
  <1>18. ChannelIsApart'
    <2>1. \A i, j \in DOMAIN dbChan' : dbChan'[i] = dbChan'[j] => i = j
      <3> SUFFICES ASSUME NEW i \in DOMAIN dbChan', NEW j \in DOMAIN dbChan',
                          dbChan'[i] = dbChan'[j]
                   PROVE  i = j
        OBVIOUS
      <3>1. i + 1 = j + 1
        BY <1>2 DEF QueueInv, JobIsInOnePlace, ChannelIsApart
      <3>2. i \in Int /\ j \in Int
        BY <1>1, <1>2
      <3> QED BY <3>1, <3>2
    <2> QED BY <1>2, <1>14, <1>15, <2>1 DEF QueueInv, JobIsInOnePlace, ChannelIsApart
  <1>19. RowsAreApart'
    BY <1>1, <1>2, <1>14, <1>15 DEF QueueInv, JobIsInOnePlace, RowsAreApart, rows
  <1>20. JobIsInOnePlace'
    BY <1>1, <1>2, <1>14, <1>17, <1>18, <1>19 DEF QueueInv, JobIsInOnePlace, rows
  <1> QED BY <1>8, <1>10, <1>11, <1>12, <1>20 DEF QueueInv

(* A worker turns to a flush.                                                 *)
LEMMA TurnStep ==
    ASSUME QueueInv, NEW w \in Workers, FlushTick(w) \/ ReceiveClose(w)
    PROVE  QueueInv'
  <1>1. /\ UNCHANGED <<main, initialized, dbChan, closed, accepted, producer, rows>>
        /\ worker[w].pc = "select"
    BY DEF FlushTick, ReceiveClose, queue
  <1>2. PICK pc \in {"flush", "last"} :
          /\ worker' = [worker EXCEPT ![w].pc = pc]
          /\ pc = "last" => closed /\ dbChan = << >>
    BY DEF FlushTick, ReceiveClose
  <1>3. worker \in [Workers -> WorkerState]
    BY DEF QueueInv, TypeOK
  <1>4. /\ worker' \in [Workers -> WorkerState]
        /\ \A v \in Workers : /\ worker'[v].batch = worker[v].batch
                              /\ worker'[v].pc = IF v = w THEN pc ELSE worker[v].pc
    BY <1>2, <1>3 DEF WorkerState
  <1>5. TypeOK'
    BY <1>1, <1>4 DEF QueueInv, TypeOK, rows
  <1>6. QueueShape'
    BY <1>1, <1>4 DEF QueueInv, QueueShape
  <1>7. WorkersLeaveClean'
    BY <1>1, <1>2, <1>4 DEF QueueInv, WorkersLeaveClean
  <1>8. JobsAreNumbered'
    BY <1>1 DEF QueueInv, JobsAreNumbered
  <1>9. JobIsInOnePlace'
    BY <1>1, <1>4, JobsStay DEF QueueInv
  <1> QED BY <1>5, <1>6, <1>7, <1>8, <1>9 DEF QueueInv

(* The jobs of one buffer become rows, or are lost with their transaction.    *)
LEMMA FlushStep ==
    ASSUME QueueInv, NEW w \in Workers, FlushBatch(w)
    PROVE  /\ QueueInv'
           /\ UNCHANGED <<main, initialized, closed, accepted>>
           /\ initialized /\ main \notin {"closed", "exited", "crashed"}
           /\ stored \cup lost \subseteq stored' \cup lost'
  <1>1. /\ UNCHANGED <<main, initialized, dbChan, closed, accepted, producer>>
        /\ worker[w].pc \in {"flush", "last"}
        /\ main \notin {"exited", "crashed"}
    BY DEF FlushBatch, queue, Alive
  <1>2. PICK pc \in {"exited", "select"} :
          /\ worker' = [worker EXCEPT ![w] = [pc |-> pc, batch |-> EmptyBatch]]
          /\ pc = "exited" => worker[w].pc = "last"
    BY DEF FlushBatch
  <1>3. worker \in [Workers -> WorkerState] /\ EmptyBatch \in [Kinds -> Seq(Job)]
    BY DEF QueueInv, TypeOK, EmptyBatch
  <1>4. /\ worker' \in [Workers -> WorkerState]
        /\ \A v \in Workers \ {w} : worker'[v] = worker[v]
        /\ worker'[w].pc = pc /\ worker'[w].batch = EmptyBatch
    BY <1>2, <1>3 DEF WorkerState
  <1>5. initialized /\ main \notin {"closed", "exited", "crashed"}
    BY <1>1 DEF QueueInv, QueueShape
  <1>6. /\ \A v \in Workers \ {w} : Buffered(v)' = Buffered(v)
        /\ Buffered(w)' = {}
    BY <1>4 DEF Buffered, EmptyBatch, Range
  <1>7. Buffered(w) \subseteq Job
    BY <1>3 DEF Buffered, Range, WorkerState
  <1>8. stored' \subseteq Job /\ lost' \subseteq Job
    BY <1>7 DEF FlushBatch, QueueInv, TypeOK
  <1>9. TypeOK'
    BY <1>1, <1>4, <1>8 DEF QueueInv, TypeOK
  <1>10. QueueShape'
    BY <1>1, <1>4, <1>5 DEF QueueInv, QueueShape
  <1>11. WorkersLeaveClean'
    BY <1>1, <1>2, <1>4 DEF QueueInv, WorkersLeaveClean
  <1>12. JobsAreNumbered'
    BY <1>1 DEF QueueInv, JobsAreNumbered
  <1>13. /\ InBuffers' \subseteq InBuffers
         /\ InBuffers = InBuffers' \cup Buffered(w)
    BY <1>6 DEF InBuffers
  <1>14. InBuffers' \cap Buffered(w) = {}
    <2> SUFFICES ASSUME NEW v \in Workers \ {w}, NEW job \in Buffered(v),
                        job \in Buffered(w)
                 PROVE  FALSE
      <3>1. InBuffers' = UNION {Buffered(v)' : v \in Workers}
        BY DEF InBuffers
      <3> QED BY <1>6, <3>1
    <2>1. \E k \in Kinds : \E i \in DOMAIN worker[v].batch[k] : job = worker[v].batch[k][i]
      BY DEF Buffered, Range
    <2>2. \E l \in Kinds : \E j \in DOMAIN worker[w].batch[l] : job = worker[w].batch[l][j]
      BY DEF Buffered, Range
    <2>3. BuffersAreApart /\ v # w
      BY DEF QueueInv, JobIsInOnePlace
    <2>4. PICK k \in Kinds : \E i \in DOMAIN worker[v].batch[k] : job = worker[v].batch[k][i]
      BY <2>1
    <2>5. PICK l \in Kinds : \E j \in DOMAIN worker[w].batch[l] : job = worker[w].batch[l][j]
      BY <2>2
    <2>6. PICK i \in DOMAIN worker[v].batch[k] : job = worker[v].batch[k][i]
      BY <2>4
    <2>7. PICK j \in DOMAIN worker[w].batch[l] : job = worker[w].batch[l][j]
      BY <2>5
    <2>8. /\ v \in Workers /\ worker[v].batch[k][i] = worker[w].batch[l][j]
          /\ i \in DOMAIN worker[v].batch[k] /\ j \in DOMAIN worker[w].batch[l]
      BY <2>6, <2>7
    <2>9. v = w
      BY <2>3, <2>8 DEF BuffersAreApart
    <2> QED BY <2>3, <2>9
  <1>15. BuffersAreApart'
    <2> SUFFICES ASSUME NEW u \in Workers, NEW v \in Workers,
                        NEW l \in Kinds, NEW m \in Kinds,
                        NEW i \in DOMAIN worker'[u].batch[l],
                        NEW j \in DOMAIN worker'[v].batch[m],
                        worker'[u].batch[l][i] = worker'[v].batch[m][j]
                 PROVE  u = v /\ l = m /\ i = j
      BY DEF BuffersAreApart
    <2>1. u # w /\ v # w
      BY <1>4 DEF EmptyBatch
    <2> QED BY <1>4, <2>1 DEF QueueInv, JobIsInOnePlace, BuffersAreApart
  <1>16. ChannelIsApart'
    BY <1>1, <1>13 DEF QueueInv, JobIsInOnePlace, ChannelIsApart
  <1>17. /\ stored' \cup lost' = stored \cup lost \cup Buffered(w)
         /\ stored' \cap lost' = {}
    BY <1>13 DEF FlushBatch, QueueInv, JobIsInOnePlace, RowsAreApart
  <1>18. RowsAreApart'
    BY <1>1, <1>13, <1>14, <1>17 DEF QueueInv, JobIsInOnePlace, RowsAreApart, ChannelIsApart
  <1>19. JobIsInOnePlace'
    BY <1>1, <1>13, <1>15, <1>16, <1>17, <1>18 DEF QueueInv, JobIsInOnePlace
  <1> QED BY <1>1, <1>5, <1>9, <1>10, <1>11, <1>12, <1>17, <1>19 DEF QueueInv

(* Every step of the queue keeps all of it.                                   *)
LEMMA QueueStep ==
    ASSUME QueueInv, [Next]_vars
    PROVE  QueueInv'
  <1>1. CASE Next
    <2>1. CASE InitDB \/ InitDBFails \/ StopListening \/ Close \/ CloseReturns \/ Exit
      BY <2>1, MainQueueStep
    <2>2. ASSUME NEW p \in Producers, StartProducer(p) \/ FinishProducer(p) \/ EnqueuePanics(p)
          PROVE  QueueInv'
      BY <2>2, ProducerQueueStep
    <2>3. ASSUME NEW p \in Producers, NEW kind \in Kinds, Enqueue(p, kind)
          PROVE  QueueInv'
      BY <2>3, EnqueueStep
    <2>4. ASSUME NEW w \in Workers, WorkerStep(w)
          PROVE  QueueInv'
      BY <2>4, ReceiveStep, TurnStep, FlushStep DEF WorkerStep
    <2> QED BY <1>1, <2>1, <2>2, <2>3, <2>4 DEF Next
  <1>2. CASE UNCHANGED vars
    <2>1. TypeOK' /\ QueueShape' /\ WorkersLeaveClean' /\ JobsAreNumbered'
      BY <1>2 DEF vars, QueueInv, TypeOK, QueueShape, WorkersLeaveClean, JobsAreNumbered
    <2>2. JobIsInOnePlace'
      BY <1>2, JobsStay DEF vars, rows, QueueInv
    <2> QED BY <2>1, <2>2 DEF QueueInv
  <1> QED BY <1>1, <1>2

(* When all workers have left, every job is dealt with.                       *)
LEMMA NothingIsLeft ==
    ASSUME QueueInv, main = "waiting",
           \A w \in Workers : worker[w].pc \in {"none", "exited"}
    PROVE  accepted = stored \cup lost
  <1>1. CASE ~initialized
    <2>1. accepted = {}
      BY <1>1 DEF QueueInv, QueueShape
    <2> QED BY <2>1 DEF QueueInv, JobIsInOnePlace
  <1>2. CASE initialized
    <2>1. \A w \in Workers : worker[w].pc = "exited" /\ worker[w].batch = EmptyBatch
      BY <1>2 DEF QueueInv, QueueShape, WorkersLeaveClean
    <2>2. Range(dbChan) = {}
      BY <2>1, QueueAssumption DEF QueueInv, WorkersLeaveClean, Range
    <2>3. InBuffers = {}
      BY <2>1 DEF InBuffers, Buffered, EmptyBatch, Range
    <2> QED BY <2>2, <2>3 DEF QueueInv, JobIsInOnePlace
  <1> QED BY <1>1, <1>2

(* Every step of the queue is one of the asynchronous queue, or none.         *)
LEMMA QueueRefines ==
    ASSUME QueueInv, [Next]_vars
    PROVE  [DbQueue!AsyncNext]_(DbQueue!vars)
  <1> USE DEF queue, rows
  <1>1. QueueInv'
    BY QueueStep
  <1>2. CASE InitDB
    <2>1. DbQueue!Open
      BY <1>2 DEF InitDB, DbQueue!Open, DbPhase, QueueInv, QueueShape
    <2> QED BY <2>1 DEF DbQueue!AsyncNext
  <1>3. CASE InitDBFails \/ StopListening \/ Exit
    BY <1>3 DEF InitDBFails, StopListening, Exit, DbQueue!vars, DbPhase
  <1>4. CASE Close
    <2>1. CASE initialized
      <3>1. DbQueue!Seal
        BY <1>4, <2>1 DEF Close, DbQueue!Seal, DbPhase, QueueInv, QueueShape
      <3> QED BY <3>1 DEF DbQueue!AsyncNext
    <2>2. CASE ~initialized
      BY <1>4, <2>2 DEF Close, DbQueue!vars, DbPhase
    <2> QED BY <2>1, <2>2
  <1>5. CASE CloseReturns
    <2>1. accepted = stored \cup lost
      BY <1>5, NothingIsLeft DEF CloseReturns
    <2>2. DbPhase \in {"new", "sealed"}
      BY <1>5 DEF CloseReturns, DbPhase, QueueInv, QueueShape
    <2>3. DbPhase' = "returned" /\ UNCHANGED <<accepted, stored, lost>>
      BY <1>5 DEF CloseReturns, DbPhase
    <2>4. DbQueue!Return
      BY <2>1, <2>2, <2>3 DEF DbQueue!Return
    <2> QED BY <2>4 DEF DbQueue!AsyncNext
  <1>6. ASSUME NEW p \in Producers, StartProducer(p) \/ FinishProducer(p)
        PROVE  UNCHANGED DbQueue!vars
    BY <1>6 DEF StartProducer, FinishProducer, DbQueue!vars, DbPhase
  <1>7. ASSUME NEW p \in Producers, NEW kind \in Kinds, Enqueue(p, kind)
        PROVE  [DbQueue!AsyncNext]_(DbQueue!vars)
    <2>1. UNCHANGED <<main, initialized, closed, stored, lost>>
      BY <1>7, EnqueueStep
    <2>2. CASE UNCHANGED accepted
      BY <2>1, <2>2 DEF DbQueue!vars, DbPhase
    <2>3. CASE /\ initialized /\ ~closed
               /\ \E job \in Job \ accepted : accepted' = accepted \cup {job}
      <3>1. PICK job \in Job \ accepted : accepted' = accepted \cup {job}
        BY <2>3
      <3>2. DbPhase = "open" /\ DbPhase' = DbPhase
        BY <1>7, <2>1, <2>3 DEF DbPhase, Enqueue, Enqueues, Alive, QueueInv, QueueShape
      <3>3. DbQueue!Take(job)
        BY <2>1, <3>1, <3>2 DEF DbQueue!Take
      <3> QED BY <3>3 DEF DbQueue!AsyncNext
    <2> QED BY <1>7, <2>2, <2>3, EnqueueStep
  <1>8. ASSUME NEW p \in Producers, EnqueuePanics(p)
        PROVE  [DbQueue!AsyncNext]_(DbQueue!vars)
    <2>1. UNCHANGED <<initialized, closed, accepted, stored, lost>>
      BY <1>8 DEF EnqueuePanics
    <2>2. CASE main' = main
      BY <2>1, <2>2 DEF DbQueue!vars, DbPhase
    <2>3. CASE main' = "crashed"
      <3>1. DbQueue!Die
        BY <2>1, <2>3 DEF DbQueue!Die, DbPhase
      <3> QED BY <3>1 DEF DbQueue!AsyncNext
    <2> QED BY <1>8, <2>2, <2>3 DEF EnqueuePanics
  <1>9. ASSUME NEW w \in Workers, Receive(w) \/ FlushTick(w) \/ ReceiveClose(w)
        PROVE  UNCHANGED DbQueue!vars
    BY <1>9 DEF Receive, FlushTick, ReceiveClose, DbQueue!vars, DbPhase
  <1>10. ASSUME NEW w \in Workers, FlushBatch(w)
         PROVE  [DbQueue!AsyncNext]_(DbQueue!vars)
    <2>1. /\ UNCHANGED <<main, initialized, closed, accepted>>
          /\ initialized /\ main \notin {"closed", "exited", "crashed"}
          /\ stored \cup lost \subseteq stored' \cup lost'
      BY <1>10, FlushStep
    <2>2. DbPhase' = DbPhase /\ DbPhase \in {"open", "sealed"}
      BY <2>1 DEF DbPhase
    <2>3. stored' \cup lost' \subseteq accepted'
      BY <1>1 DEF QueueInv, JobIsInOnePlace
    <2>4. DbQueue!Handle
      BY <2>1, <2>2, <2>3 DEF DbQueue!Handle
    <2> QED BY <2>4 DEF DbQueue!AsyncNext
  <1>11. CASE UNCHANGED vars
    BY <1>11 DEF vars, DbQueue!vars, DbPhase
  <1> QED
    BY <1>2, <1>3, <1>4, <1>5, <1>6, <1>7, <1>8, <1>9, <1>10, <1>11 DEF Next, WorkerStep

(* What holds of every reachable state of the statistics queue.               *)
LEMMA QueueInvariance == Spec => []QueueInv
  <1>1. Init => QueueInv
    BY InitQueueInv
  <1>2. QueueInv /\ [Next]_vars => QueueInv'
    BY QueueStep
  <1> QED BY <1>1, <1>2, PTL DEF Spec

(* The workers and the producers lose no job between the channel and the      *)
(* database and write none twice, for every number of them and every size of  *)
(* the channel and of a batch (db/db.go).                                     *)
THEOREM JobsHaveOnePlace == Spec => []JobIsInOnePlace
  <1>1. QueueInv => JobIsInOnePlace
    BY DEF QueueInv
  <1> QED BY <1>1, QueueInvariance, PTL

(* The statistics are an asynchronous queue: whatever runs on while main is   *)
(* in db.Close, it returns behind the last job the channel took.              *)
THEOREM DbQueueIsAsync == Spec => DbIsAsyncQueue
  <1>1. Init => DbQueue!AsyncInit
    BY DEF Init, DbQueue!AsyncInit, DbPhase
  <1>2. QueueInv /\ [Next]_vars => [DbQueue!AsyncNext]_(DbQueue!vars)
    BY QueueRefines
  <1> QED BY <1>1, <1>2, QueueInvariance, PTL DEF Spec, DbIsAsyncQueue, DbQueue!AsyncSpec

-----------------------------------------------------------------------------
(* The logger.  LogShape says where the writer and Shutdown are, and who may  *)
(* hold the lock: the lock is what keeps a sender and CloseLog apart.         *)
LogShape ==
    /\ logMu # Nobody => logReady /\ sends[logMu] < MaxLogs[logMu]
    /\ logReady => shutdown = "none" /\ writer = "running"
    /\ logClosed => shutdown \in {"waiting", "returned"}
    /\ ~logReady /\ shutdown = "none" => writer = "none"
    /\ writer = "none" => logged = << >> /\ printed = << >>
    /\ writer = "exited" => logClosed /\ logChan = << >> /\ holding = << >>
    /\ shutdown = "returned" => writer \in {"none", "exited"}

(* An entry that was taken is not the next one of its sender.                 *)
EntriesAreNumbered == \A entry \in Range(logged) : entry.n <= sends[entry.by]

LogInv == LogTypeOK /\ LogShape /\ EntriesAreNumbered /\ PrintedInOrder

(* Two sequences of the same length and elements are the same.                *)
LEMMA SequencesEqual ==
    ASSUME NEW S, NEW s \in Seq(S), NEW t \in Seq(S), Len(s) = Len(t),
           \A i \in 1 .. Len(s) : s[i] = t[i]
    PROVE  s = t
  OBVIOUS

(* An entry goes from the head of the channel to the hands of the writer.     *)
LEMMA TakeHead ==
    ASSUME NEW S, NEW s \in Seq(S), NEW c \in Seq(S), c # << >>
    PROVE  s \o << >> \o c = s \o <<Head(c)>> \o Tail(c)
  OBVIOUS

(* A sequence of one element is its head.                                     *)
LEMMA OneElement ==
    ASSUME NEW S, NEW h \in Seq(S), h # << >>, Len(h) <= 1
    PROVE  h = <<Head(h)>>
  <1> DEFINE e == Head(h)
  <1>1. e \in S /\ h[1] = e /\ Len(h) = 1
    <2>1. e \in S /\ Tail(h) \in Seq(S) /\ Len(Tail(h)) = Len(h) - 1
      BY HeadTail
    <2> QED BY <2>1
  <1>2. /\ <<e>> \in Seq(S) /\ Len(<<e>>) = Len(h)
        /\ \A i \in 1 .. Len(h) : h[i] = <<e>>[i]
    BY <1>1
  <1> QED BY <1>2, SequencesEqual

(* From a sender to the channel.                                              *)
LEMMA AppendLast ==
    ASSUME NEW S, NEW s \in Seq(S), NEW c \in Seq(S), NEW e \in S
    PROVE  Append(s \o c, e) = s \o Append(c, e)
  OBVIOUS

(* The elements of a sequence put together of three.                          *)
LEMMA ConcatRange ==
    ASSUME NEW S, NEW s \in Seq(S), NEW h \in Seq(S), NEW c \in Seq(S)
    PROVE  Range(s) \subseteq Range(s \o h \o c)
  BY DEF Range

(* The head of the ring stays in it.                                          *)
LEMMA RingHead ==
    ASSUME NEW head \in Slots
    PROVE  (head + 1) % RingSize \in Slots
  BY LogAssumption DEF Slots

(* The logger has not begun.                                                  *)
LEMMA InitLogInv == LogInit => LogInv
  <1> SUFFICES ASSUME LogInit PROVE LogInv
    OBVIOUS
  <1>1. LogTypeOK
    <2>1. ring \in [entries : [Slots -> Entry \cup {NoEntry}], head : Slots, full : BOOLEAN]
      <3>1. 0 \in Slots
        BY LogAssumption DEF Slots
      <3> DEFINE zeros == [i \in Slots |-> NoEntry]
      <3>2. zeros \in [Slots -> Entry \cup {NoEntry}]
        OBVIOUS
      <3>3. ring = [entries |-> zeros, head |-> 0, full |-> FALSE]
        BY DEF LogInit
      <3> HIDE DEF zeros
      <3> QED BY <3>1, <3>2, <3>3
    <2>2. sends \in [Loggers -> Nat]
      BY DEF LogInit
    <2>3. /\ logReady \in BOOLEAN /\ logClosed \in BOOLEAN /\ logMu \in Loggers \cup {Nobody}
          /\ logChan \in Seq(Entry) /\ Len(logChan) <= LogCap
          /\ holding \in Seq(Entry) /\ Len(holding) <= 1
          /\ printed \in Seq(Entry) /\ logged \in Seq(Entry)
          /\ writer = "none" /\ shutdown = "none"
      <3> USE DEF LogInit
      <3>1. logReady \in BOOLEAN /\ logClosed \in BOOLEAN /\ logMu \in Loggers \cup {Nobody}
        OBVIOUS
      <3>2. logChan \in Seq(Entry) /\ Len(logChan) <= LogCap
        BY LogAssumption
      <3>3. /\ holding \in Seq(Entry) /\ Len(holding) <= 1
            /\ printed \in Seq(Entry) /\ logged \in Seq(Entry)
        OBVIOUS
      <3> QED BY <3>1, <3>2, <3>3
    <2> QED BY <2>1, <2>2, <2>3 DEF LogTypeOK
  <1>2. LogShape /\ EntriesAreNumbered
    BY DEF LogInit, LogShape, EntriesAreNumbered, Range
  <1>3. PrintedInOrder
    BY DEF LogInit, PrintedInOrder
  <1> QED BY <1>1, <1>2, <1>3 DEF LogInv

(* The steps of main keep it: Init, and what Shutdown does.                   *)
LEMMA MainLogStep ==
    ASSUME LogInv, StartLog \/ ShutdownStep
    PROVE  LogInv'
  <1>1. UNCHANGED <<logMu, sends, logChan, holding, ring, printed, logged>>
    BY DEF StartLog, ShutdownStep, SealLog, CloseLog, ShutdownReturns, gate, output
  <1>2. LogTypeOK'
    BY <1>1 DEF LogInv, LogTypeOK, StartLog, ShutdownStep, SealLog, CloseLog, ShutdownReturns,
                gate, output
  <1>3. LogShape'
    <2>1. CASE StartLog
      BY <1>1, <2>1 DEF LogInv, LogShape, StartLog, LogTypeOK
    <2>2. CASE SealLog
      BY <1>1, <2>2 DEF LogInv, LogShape, SealLog, LogTypeOK, output
    <2>3. CASE CloseLog
      BY <1>1, <2>3 DEF LogInv, LogShape, CloseLog, LogTypeOK, gate, output
    <2>4. CASE ShutdownReturns
      BY <1>1, <2>4 DEF LogInv, LogShape, ShutdownReturns, LogTypeOK, gate, output
    <2> QED BY <2>1, <2>2, <2>3, <2>4 DEF ShutdownStep
  <1>4. EntriesAreNumbered' /\ PrintedInOrder'
    BY <1>1 DEF LogInv, EntriesAreNumbered, PrintedInOrder
  <1> QED BY <1>2, <1>3, <1>4 DEF LogInv

(* A sender looks at the logger, or puts its entry on the channel.            *)
LEMMA SendStep ==
    ASSUME LogInv, NEW p \in Loggers, Send(p)
    PROVE  /\ LogInv'
           /\ UNCHANGED <<logReady, shutdown, printed>>
           /\ \/ UNCHANGED logged
              \/ /\ logReady
                 /\ \E entry \in Entry \ Range(logged) : Range(logged') = Range(logged) \cup {entry}
  <1> USE DEF output
  <1>1. CASE SendLocks(p)
    <2>1. UNCHANGED <<logReady, logChan, logClosed, output, logged, shutdown>>
      BY <1>1 DEF SendLocks
    <2>2. /\ sends' \in [Loggers -> Nat]
          /\ \A q \in Loggers : sends'[q] >= sends[q]
          /\ logMu' \in Loggers \cup {Nobody}
      <3>1. sends \in [Loggers -> Nat] /\ logMu \in Loggers \cup {Nobody}
        BY DEF LogInv, LogTypeOK
      <3>2. CASE logReady
        BY <1>1, <3>1, <3>2 DEF SendLocks
      <3>3. CASE ~logReady
        BY <1>1, <3>1, <3>3 DEF SendLocks
      <3> QED BY <3>2, <3>3
    <2>3. LogTypeOK'
      BY <2>1, <2>2 DEF LogInv, LogTypeOK
    <2>4. LogShape'
      BY <1>1, <2>1 DEF SendLocks, LogInv, LogShape
    <2>5. EntriesAreNumbered'
      <3>1. \A entry \in Range(logged) : entry.by \in Loggers /\ entry.n \in Nat
        BY LogAssumption DEF LogInv, LogTypeOK, Entry, EntryOf, Range
      <3> QED BY <2>1, <2>2, <3>1 DEF LogInv, LogTypeOK, EntriesAreNumbered
    <2>6. PrintedInOrder'
      BY <2>1 DEF LogInv, PrintedInOrder
    <2> QED BY <2>1, <2>3, <2>4, <2>5, <2>6 DEF LogInv
  <1>2. CASE SendPuts(p)
    <2> DEFINE entry == [by |-> p, n |-> sends[p] + 1, level |-> LevelOf[p]]
    <2>1. /\ UNCHANGED <<logReady, logClosed, output, shutdown>>
          /\ logMu = p /\ logMu' = Nobody
          /\ sends' = [sends EXCEPT ![p] = @ + 1]
      BY <1>2 DEF SendPuts
    <2>2. /\ sends \in [Loggers -> Nat] /\ sends' \in [Loggers -> Nat]
          /\ sends'[p] = sends[p] + 1
          /\ \A q \in Loggers : sends'[q] >= sends[q]
      BY <2>1 DEF LogInv, LogTypeOK
    <2>3. logReady /\ sends[p] < MaxLogs[p] /\ writer = "running"
      BY <2>1, LogAssumption DEF LogInv, LogShape
    <2>4. entry \in Entry
      <3>1. sends[p] + 1 \in 1 .. MaxLogs[p]
        BY <2>2, <2>3, LogAssumption
      <3>2. entry \in EntryOf(p)
        BY <3>1 DEF EntryOf
      <3> QED BY <3>2 DEF Entry
    <2>5. \A e \in Range(logged) : e.by \in Loggers /\ e.n \in Nat
      BY LogAssumption DEF LogInv, LogTypeOK, Entry, EntryOf, Range
    <2>6. entry \notin Range(logged)
      BY <2>2 DEF LogInv, EntriesAreNumbered
    <2>7. entry.by = p /\ entry.n = sends[p] + 1
      OBVIOUS
    <2>8. LogShape'
      BY <2>1, <2>3 DEF LogInv, LogShape
    <2>9. CASE UNCHANGED <<logChan, logged>>
      <3>1. LogTypeOK'
        BY <2>1, <2>2, <2>9 DEF LogInv, LogTypeOK
      <3>2. EntriesAreNumbered'
        BY <2>2, <2>5, <2>9 DEF LogInv, EntriesAreNumbered
      <3>3. PrintedInOrder'
        BY <2>1, <2>9 DEF LogInv, PrintedInOrder
      <3> QED BY <2>1, <2>8, <2>9, <3>1, <3>2, <3>3 DEF LogInv
    <2>10. CASE Len(logChan) < LogCap
      <3>1. logChan' = Append(logChan, entry) /\ logged' = Append(logged, entry)
        BY <1>2, <2>10 DEF SendPuts
      <3> HIDE DEF entry
      <3>2. /\ logChan \in Seq(Entry) /\ logged \in Seq(Entry)
            /\ printed \in Seq(Entry) /\ holding \in Seq(Entry)
        BY DEF LogInv, LogTypeOK
      <3>3. /\ logChan' \in Seq(Entry) /\ Len(logChan') = Len(logChan) + 1
            /\ logged' \in Seq(Entry) /\ Range(logged') = Range(logged) \cup {entry}
        BY <2>4, <3>1, <3>2, AppendRange
      <3>4. LogTypeOK'
        BY <2>1, <2>2, <2>10, <3>2, <3>3, LogAssumption DEF LogInv, LogTypeOK
      <3>5. EntriesAreNumbered'
        BY <2>2, <2>5, <2>7, <3>3 DEF LogInv, EntriesAreNumbered
      <3>6. PrintedInOrder'
        <4> DEFINE s == printed \o holding
        <4>1. s \in Seq(Entry) /\ logged = s \o logChan
          BY <3>2 DEF LogInv, PrintedInOrder
        <4>2. PrintedInOrder' <=> logged' = s \o logChan'
          BY <2>1 DEF PrintedInOrder
        <4> HIDE DEF s
        <4>3. Append(s \o logChan, entry) = s \o Append(logChan, entry)
          BY <2>4, <3>2, <4>1
        <4> QED BY <3>1, <4>1, <4>2, <4>3
      <3> QED BY <2>1, <2>3, <2>4, <2>6, <2>8, <3>3, <3>4, <3>5, <3>6 DEF LogInv
    <2> QED BY <1>2, <2>9, <2>10 DEF SendPuts
  <1> QED BY <1>1, <1>2 DEF Send

(* The writer takes an entry, prints it, or leaves.                           *)
LEMMA WriterLogStep ==
    ASSUME LogInv, WriterStep
    PROVE  /\ LogInv'
           /\ UNCHANGED <<logReady, shutdown, logged>>
           /\ writer = "running" /\ Range(printed) \subseteq Range(printed')
  <1> USE DEF gate
  <1>1. /\ UNCHANGED <<logReady, logMu, sends, logClosed, logged, shutdown>>
        /\ writer = "running" /\ writer' \in {"running", "exited"}
    BY DEF WriterStep, WriterReceives, WriterPrints, WriterExits
  <1>2. /\ logChan \in Seq(Entry) /\ holding \in Seq(Entry) /\ Len(holding) <= 1
        /\ printed \in Seq(Entry)
        /\ ring \in [entries : [Slots -> Entry \cup {NoEntry}], head : Slots, full : BOOLEAN]
    BY DEF LogInv, LogTypeOK
  <1>3. EntriesAreNumbered'
    BY <1>1 DEF LogInv, EntriesAreNumbered
  <1>4. LogShape'
    <2>1. WriterExits => logClosed /\ logChan' = << >> /\ holding' = << >>
      BY DEF WriterExits
    <2>2. writer' = "exited" => WriterExits
      BY <1>1 DEF WriterStep, WriterReceives, WriterPrints
    <2> QED BY <1>1, <2>1, <2>2 DEF LogInv, LogShape
  <1>5. CASE WriterReceives
    <2>1. /\ logChan # << >> /\ logChan' = Tail(logChan) /\ holding' = <<Head(logChan)>>
          /\ holding = << >> /\ UNCHANGED printed /\ ring' = RingAdd(Head(logChan))
      BY <1>5 DEF WriterReceives
    <2>2. /\ Head(logChan) \in Entry /\ Tail(logChan) \in Seq(Entry)
          /\ Len(Tail(logChan)) = Len(logChan) - 1
      BY <1>2, <2>1, HeadTail
    <2>3. ring' \in [entries : [Slots -> Entry \cup {NoEntry}], head : Slots, full : BOOLEAN]
      <3> DEFINE head  == (ring.head + 1) % RingSize
                 slots == [ring.entries EXCEPT ![ring.head] = Head(logChan)]
      <3>1. head \in Slots
        BY <1>2, RingHead
      <3>2. slots \in [Slots -> Entry \cup {NoEntry}]
        BY <1>2, <2>2
      <3>3. ring' = [entries |-> slots, head |-> head, full |-> ring.full \/ head = 0]
        BY <2>1 DEF RingAdd
      <3> HIDE DEF head, slots
      <3> QED BY <3>1, <3>2, <3>3
    <2>4. LogTypeOK'
      <3>1. holding' \in Seq(Entry) /\ Len(holding') <= 1
        BY <2>1, <2>2
      <3>2. logChan' \in Seq(Entry) /\ Len(logChan') <= LogCap
        BY <1>2, <2>1, <2>2, LogAssumption DEF LogInv, LogTypeOK
      <3> QED BY <1>1, <2>1, <2>3, <3>1, <3>2 DEF LogInv, LogTypeOK
    <2>5. PrintedInOrder'
      <3>1. printed \o << >> \o logChan = printed \o <<Head(logChan)>> \o Tail(logChan)
        BY <1>2, <2>1, TakeHead
      <3> QED BY <1>1, <2>1, <3>1 DEF LogInv, PrintedInOrder
    <2> QED BY <1>1, <1>3, <1>4, <2>1, <2>4, <2>5 DEF LogInv
  <1>6. CASE WriterPrints
    <2>1. /\ holding # << >> /\ holding' = << >>
          /\ printed' = Append(printed, Head(holding)) /\ UNCHANGED <<logChan, ring>>
      BY <1>6 DEF WriterPrints
    <2>2. Head(holding) \in Entry
      BY <1>2, <2>1, HeadTail
    <2>3. printed' \in Seq(Entry) /\ Range(printed') = Range(printed) \cup {Head(holding)}
      BY <1>2, <2>1, <2>2, AppendRange
    <2>4. LogTypeOK'
      <3>1. holding' \in Seq(Entry) /\ Len(holding') <= 1
        BY <2>1
      <3> QED BY <1>1, <2>1, <2>3, <3>1 DEF LogInv, LogTypeOK
    <2>5. PrintedInOrder'
      <3> DEFINE e == Head(holding)
      <3>1. holding = <<e>>
        BY <1>2, <2>1, OneElement
      <3> HIDE DEF e
      <3>2. printed \o <<e>> = Append(printed, e)
        BY <1>2
      <3>3. printed \o holding = printed'
        BY <2>1, <3>1, <3>2 DEF e
      <3>4. printed' \o << >> = printed'
        BY <2>3
      <3>5. logged = printed \o holding \o logChan
        BY DEF LogInv, PrintedInOrder
      <3> QED BY <1>1, <2>1, <3>3, <3>4, <3>5 DEF PrintedInOrder
    <2> QED BY <1>1, <1>3, <1>4, <2>3, <2>4, <2>5 DEF LogInv
  <1>7. CASE WriterExits
    <2>1. UNCHANGED <<logChan, holding, ring, printed>>
      BY <1>7 DEF WriterExits
    <2>2. LogTypeOK' /\ PrintedInOrder'
      BY <1>1, <2>1 DEF LogInv, LogTypeOK, PrintedInOrder
    <2> QED BY <1>1, <1>3, <1>4, <2>1, <2>2 DEF LogInv
  <1> QED BY <1>5, <1>6, <1>7 DEF WriterStep

(* Every step of the logger keeps all of it.                                  *)
LEMMA LogStep ==
    ASSUME LogInv, [LogNext]_logVars
    PROVE  LogInv'
  <1>1. CASE LogNext
    BY <1>1, MainLogStep, SendStep, WriterLogStep DEF LogNext
  <1>2. CASE UNCHANGED logVars
    BY <1>2 DEF logVars, LogInv, LogTypeOK, LogShape, EntriesAreNumbered, PrintedInOrder
  <1> QED BY <1>1, <1>2

(* What is printed was logged, and all of it is when the writer has left.     *)
LEMMA PrintedAreLogged ==
    ASSUME LogInv
    PROVE  /\ Range(printed) \subseteq Range(logged)
           /\ writer \in {"none", "exited"} => Range(printed) = Range(logged)
  <1>1. /\ printed \in Seq(Entry) /\ holding \in Seq(Entry) /\ logChan \in Seq(Entry)
        /\ logged = printed \o holding \o logChan
    BY DEF LogInv, LogTypeOK, PrintedInOrder
  <1>2. Range(printed) \subseteq Range(logged)
    BY <1>1, ConcatRange
  <1>4. CASE writer = "exited"
    <2>1. logged = printed \o << >> \o << >>
      BY <1>1, <1>4 DEF LogInv, LogShape
    <2>2. printed \o << >> = printed
      BY <1>1
    <2> QED BY <2>1, <2>2
  <1>5. CASE writer = "none"
    BY <1>5 DEF LogInv, LogShape
  <1> QED BY <1>2, <1>4, <1>5

(* Every step of the logger is one of the asynchronous queue, or none.        *)
LEMMA LogRefines ==
    ASSUME LogInv, [LogNext]_logVars
    PROVE  [LogQueue!AsyncNext]_(LogQueue!vars)
  <1> USE DEF gate, output
  <1>1. CASE StartLog
    <2>1. LogQueue!Open
      BY <1>1 DEF StartLog, LogQueue!Open, LogPhase, LogInv, LogShape
    <2> QED BY <2>1 DEF LogQueue!AsyncNext
  <1>2. ASSUME NEW p \in Loggers, Send(p)
        PROVE  [LogQueue!AsyncNext]_(LogQueue!vars)
    <2>1. UNCHANGED <<logReady, shutdown, printed>>
      BY <1>2, SendStep
    <2>2. CASE UNCHANGED logged
      BY <2>1, <2>2 DEF LogQueue!vars, LogPhase
    <2>3. CASE /\ logReady
               /\ \E entry \in Entry \ Range(logged) :
                     Range(logged') = Range(logged) \cup {entry}
      <3>1. PICK entry \in Entry \ Range(logged) :
                     Range(logged') = Range(logged) \cup {entry}
        BY <2>3
      <3>2. LogPhase = "open" /\ LogPhase' = LogPhase
        BY <2>1, <2>3 DEF LogPhase, LogInv, LogShape
      <3>3. Range(printed)' = Range(printed)
        BY <2>1
      <3>4. LogQueue!Take(entry)
        BY <3>1, <3>2, <3>3 DEF LogQueue!Take
      <3> QED BY <3>4 DEF LogQueue!AsyncNext
    <2> QED BY <1>2, <2>2, <2>3, SendStep
  <1>3. CASE WriterStep
    <2>1. /\ LogInv' /\ UNCHANGED <<logReady, shutdown, logged>>
          /\ writer = "running" /\ Range(printed) \subseteq Range(printed')
      BY <1>3, WriterLogStep
    <2>2. LogPhase' = LogPhase /\ LogPhase \in {"open", "sealed"}
      BY <2>1 DEF LogPhase, LogInv, LogShape
    <2>3. Range(printed') \subseteq Range(logged')
      <3>1. /\ printed' \in Seq(Entry) /\ holding' \in Seq(Entry) /\ logChan' \in Seq(Entry)
            /\ logged' = printed' \o holding' \o logChan'
        BY <2>1 DEF LogInv, LogTypeOK, PrintedInOrder
      <3> QED BY <3>1, ConcatRange
    <2>4. LogQueue!Handle
      BY <2>1, <2>2, <2>3 DEF LogQueue!Handle
    <2> QED BY <2>4 DEF LogQueue!AsyncNext
  <1>4. CASE SealLog
    <2>1. UNCHANGED <<Range(logged), Range(printed)>>
      BY <1>4 DEF SealLog
    <2>2. CASE logReady
      <3>1. LogQueue!Seal
        BY <1>4, <2>1, <2>2 DEF SealLog, LogQueue!Seal, LogPhase
      <3> QED BY <3>1 DEF LogQueue!AsyncNext
    <2>3. CASE ~logReady
      <3>1. Range(printed) = Range(logged)
        BY <1>4, <2>3 DEF SealLog, LogInv, LogShape
      <3>2. LogQueue!Return
        BY <1>4, <2>1, <2>3, <3>1 DEF SealLog, LogQueue!Return, LogPhase
      <3> QED BY <3>2 DEF LogQueue!AsyncNext
    <2> QED BY <2>2, <2>3
  <1>5. CASE CloseLog
    BY <1>5 DEF CloseLog, LogQueue!vars, LogPhase
  <1>6. CASE ShutdownReturns
    <2>1. Range(printed) = Range(logged)
      BY <1>6, PrintedAreLogged DEF ShutdownReturns
    <2>2. LogQueue!Return
      BY <1>6, <2>1 DEF ShutdownReturns, LogQueue!Return, LogPhase
    <2> QED BY <2>2 DEF LogQueue!AsyncNext
  <1>7. CASE UNCHANGED logVars
    BY <1>7 DEF logVars, LogQueue!vars, LogPhase
  <1> QED BY <1>1, <1>2, <1>3, <1>4, <1>5, <1>6, <1>7 DEF LogNext, ShutdownStep

(* What holds of every reachable state of the logger.                         *)
LEMMA LogInvariance == LogSpec => []LogInv
  <1>1. LogInit => LogInv
    BY InitLogInv
  <1>2. LogInv /\ [LogNext]_logVars => LogInv'
    BY LogStep
  <1> QED BY <1>1, <1>2, PTL DEF LogSpec

(* The lock of send keeps every sender away from a closed channel, for any    *)
(* number of goroutines and any size of the channel (logger/logger.go).       *)
THEOREM NoSenderMeetsTheClose == LogSpec => []NoSendOnClosed
  <1>1. LogInv => NoSendOnClosed
    BY DEF LogInv, LogShape, NoSendOnClosed
  <1> QED BY <1>1, LogInvariance, PTL

-----------------------------------------------------------------------------
(* The ring.  Its first head slots hold the entries received last, and, when  *)
(* it is full, the slots behind them those received before.                   *)
Count == Len(logged) - Len(logChan)

RingInv ==
    /\ ring.full <=> Count >= RingSize
    /\ ~ring.full => ring.head = Count
    /\ \A i \in 0 .. ring.head - 1 : ring.entries[i] = logged[Count - ring.head + i + 1]
    /\ ring.full => \A i \in ring.head .. RingSize - 1 :
                      ring.entries[i] = logged[Count - ring.head - RingSize + i + 1]

(* A place of the ring, once around it at most.                               *)
LEMMA Around ==
    ASSUME NEW i \in Nat, i < 2 * RingSize
    PROVE  i % RingSize = IF i < RingSize THEN i ELSE i - RingSize
  <1>1. RingSize \in Nat /\ RingSize > 0
    BY LogAssumption
  <1>2. CASE i < RingSize
    BY <1>1, <1>2
  <1>3. CASE i >= RingSize
    BY <1>1, <1>3
  <1> QED BY <1>1, <1>2, <1>3

(* What was logged is what was received, and behind it what is to be.         *)
LEMMA CountIsNat ==
    ASSUME LogTypeOK, PrintedInOrder
    PROVE  /\ Count \in Nat /\ Count + Len(logChan) = Len(logged)
           /\ logChan # << >> => Head(logChan) = logged[Count + 1]
  <1> DEFINE s == printed \o holding
  <1>1. s \in Seq(Entry) /\ logChan \in Seq(Entry) /\ logged = s \o logChan
    BY DEF LogTypeOK, PrintedInOrder
  <1> HIDE DEF s
  <1>2. /\ Len(logged) = Len(s) + Len(logChan) /\ Len(s) \in Nat /\ Len(logChan) \in Nat
        /\ logChan # << >> => logged[Len(s) + 1] = logChan[1] /\ Head(logChan) = logChan[1]
    BY <1>1
  <1>3. Count = Len(s)
    BY <1>2 DEF Count
  <1> QED BY <1>2, <1>3

(* The writer puts the next entry in the ring, whether or not it wraps around.*)
LEMMA RingAddKeeps ==
    ASSUME LogTypeOK, PrintedInOrder, RingInv, WriterReceives
    PROVE  RingInv'
  <1> DEFINE R == RingSize
             h == ring.head
             e == ring.entries
             n == Count
             x == Head(logChan)
  <1>1. /\ R \in Nat /\ R > 0 /\ h \in Nat /\ h < R /\ ring.full \in BOOLEAN
        /\ e \in [0 .. R - 1 -> Entry \cup {NoEntry}]
    BY LogAssumption DEF LogTypeOK, Slots
  <1>2. /\ logChan # << >> /\ logChan' = Tail(logChan) /\ logged' = logged
        /\ ring' = RingAdd(x)
    BY DEF WriterReceives
  <1>3. n \in Nat /\ x = logged[n + 1] /\ n' = n + 1
    <2>1. n \in Nat /\ x = logged[n + 1]
      BY <1>2, CountIsNat
    <2>2. Len(Tail(logChan)) = Len(logChan) - 1 /\ Len(logChan) \in Nat /\ Len(logged) \in Nat
      BY <1>2 DEF LogTypeOK
    <2> QED BY <1>2, <2>1, <2>2 DEF Count
  <1>4. (h + 1) % R = IF h + 1 < R THEN h + 1 ELSE 0
    <2>1. h + 1 \in Nat /\ h + 1 < 2 * R
      BY <1>1
    <2>2. (h + 1) % R = IF h + 1 < R THEN h + 1 ELSE h + 1 - R
      <3> DEFINE k == h + 1
      <3> HIDE DEF k
      <3>1. k \in Nat /\ k < 2 * RingSize
        BY <2>1 DEF k
      <3>2. k % RingSize = IF k < RingSize THEN k ELSE k - RingSize
        BY <3>1, Around
      <3> QED BY <1>1, <3>1, <3>2 DEF k
    <2> QED BY <1>1, <2>2
  <1>5. /\ ring'.head = IF h + 1 < R THEN h + 1 ELSE 0
        /\ ring'.full = (ring.full \/ ring'.head = 0)
        /\ ring'.entries = [e EXCEPT ![h] = x]
    BY <1>2, <1>4 DEF RingAdd
  <1>6. /\ ring'.entries[h] = x
        /\ \A i \in 0 .. R - 1 : i # h => ring'.entries[i] = e[i]
    BY <1>1, <1>5
  <1>7. /\ ring.full <=> n >= R
        /\ ~ring.full => h = n
        /\ \A i \in 0 .. h - 1 : e[i] = logged[n - h + i + 1]
        /\ ring.full => \A i \in h .. R - 1 : e[i] = logged[n - h - R + i + 1]
    BY DEF RingInv
  <1> DEFINE h2 == ring'.head
             f2 == ring'.full
             e2 == ring'.entries
  <1> SUFFICES /\ f2 <=> n + 1 >= R
               /\ ~f2 => h2 = n + 1
               /\ \A i \in 0 .. h2 - 1 : e2[i] = logged[n + 1 - h2 + i + 1]
               /\ f2 => \A i \in h2 .. R - 1 : e2[i] = logged[n + 1 - h2 - R + i + 1]
    <2>1. /\ Count' = Count + 1 /\ Count' \in Nat /\ Count \in Nat /\ logged' = logged
          /\ h2 \in Nat
      BY <1>1, <1>2, <1>3, <1>5
    <2>2. /\ f2 <=> Count' >= RingSize
          /\ ~f2 => h2 = Count'
          /\ \A i \in 0 .. h2 - 1 : e2[i] = logged'[Count' - h2 + i + 1]
          /\ f2 => \A i \in h2 .. RingSize - 1 : e2[i] = logged'[Count' - h2 - RingSize + i + 1]
      <3> HIDE DEF h2, f2, e2
      <3> QED BY <1>1, <2>1
    <2> QED BY <2>2 DEF RingInv
  <1>8. CASE h + 1 < R
    <2>1. h2 = h + 1 /\ (f2 <=> ring.full)
      BY <1>1, <1>5, <1>8
    <2>2. (f2 <=> n + 1 >= R) /\ (~f2 => h2 = n + 1)
      BY <1>1, <1>3, <1>7, <1>8, <2>1
    <2>3. ASSUME NEW i \in 0 .. h2 - 1
          PROVE  e2[i] = logged[n + 1 - h2 + i + 1]
      <3>1. n + 1 - h2 + i + 1 = n - h + i + 1
        BY <1>1, <1>3, <2>1
      <3>2. CASE i = h
        <4>1. n - h + i + 1 = n + 1
          BY <1>1, <1>3, <3>2
        <4> QED BY <1>3, <1>6, <3>1, <3>2, <4>1
      <3>3. CASE i # h
        <4>1. i \in 0 .. h - 1 /\ i \in 0 .. R - 1
          BY <1>1, <2>1, <3>3
        <4> QED BY <1>6, <1>7, <3>1, <3>3, <4>1
      <3> QED BY <3>2, <3>3
    <2>4. ASSUME f2, NEW i \in h2 .. R - 1
          PROVE  e2[i] = logged[n + 1 - h2 - R + i + 1]
      <3>1. n + 1 - h2 - R + i + 1 = n - h - R + i + 1
        BY <1>1, <1>3, <2>1
      <3>2. i \in h .. R - 1 /\ i \in 0 .. R - 1 /\ i # h
        BY <1>1, <2>1
      <3> QED BY <1>6, <1>7, <2>1, <2>4, <3>1, <3>2
    <2> QED BY <2>2, <2>3, <2>4
  <1>9. CASE h + 1 >= R
    <2>1. h = R - 1 /\ h2 = 0 /\ f2
      <3>1. h = R - 1 /\ ~(h + 1 < R)
        BY <1>1, <1>9
      <3> QED BY <1>5, <3>1
    <2>2. n + 1 >= R
      BY <1>1, <1>3, <1>7, <2>1
    <2>3. ASSUME NEW i \in h2 .. R - 1
          PROVE  e2[i] = logged[n + 1 - h2 - R + i + 1]
      <3>1. n + 1 - h2 - R + i + 1 = n - h + i + 1
        BY <1>1, <1>3, <2>1
      <3>2. CASE i = h
        <4>1. n - h + i + 1 = n + 1
          BY <1>1, <1>3, <3>2
        <4> QED BY <1>3, <1>6, <3>1, <3>2, <4>1
      <3>3. CASE i # h
        <4>1. i \in 0 .. h - 1 /\ i \in 0 .. R - 1
          BY <1>1, <2>1, <3>3
        <4> QED BY <1>6, <1>7, <3>1, <3>3, <4>1
      <3> QED BY <3>2, <3>3
    <2>4. 0 .. h2 - 1 = {}
      BY <2>1
    <2> QED BY <2>1, <2>2, <2>3, <2>4
  <1> QED BY <1>1, <1>8, <1>9

(* The other steps leave the ring, and what was received.                     *)
LEMMA RingStep ==
    ASSUME LogInv, RingInv, [LogNext]_logVars
    PROVE  RingInv'
  <1>1. LogTypeOK /\ PrintedInOrder
    BY DEF LogInv
  <1>2. ASSUME UNCHANGED <<ring, logged, logChan>> PROVE RingInv'
    BY <1>2 DEF RingInv, Count
  <1>3. CASE \E p \in Loggers : SendPuts(p)
    <2>1. PICK p \in Loggers : SendPuts(p)
      BY <1>3
    <2> DEFINE entry == [by |-> p, n |-> sends[p] + 1, level |-> LevelOf[p]]
    <2>2. CASE UNCHANGED <<logChan, logged>>
      BY <1>2, <2>1, <2>2 DEF SendPuts, output
    <2>3. CASE logChan' = Append(logChan, entry) /\ logged' = Append(logged, entry)
      <3> HIDE DEF entry
      <3>1. ring' = ring
        BY <2>1 DEF SendPuts, output
      <3>2. logChan \in Seq(Entry) /\ logged \in Seq(Entry)
        BY <1>1 DEF LogTypeOK
      <3>3. /\ Len(logChan') = Len(logChan) + 1 /\ Len(logged') = Len(logged) + 1
            /\ \A k \in 1 .. Len(logged) : logged'[k] = logged[k]
        BY <2>3, <3>2
      <3>4. Count' = Count /\ Count \in Nat /\ Count <= Len(logged) /\ Len(logged) \in Nat
        BY <1>1, <3>2, <3>3, CountIsNat DEF Count
      <3>5. ring.head \in Nat /\ ring.head < RingSize /\ RingSize \in Nat
        BY <1>1, LogAssumption DEF LogTypeOK, Slots
      <3>6. ring.head <= Count
        BY <3>4, <3>5 DEF RingInv
      <3>7. ASSUME NEW i \in 0 .. ring.head - 1
            PROVE  ring.entries[i] = logged'[Count - ring.head + i + 1]
        <4>1. Count - ring.head + i + 1 \in 1 .. Len(logged)
          BY <3>4, <3>5, <3>6
        <4> QED BY <3>3, <4>1 DEF RingInv
      <3>8. ASSUME ring.full, NEW i \in ring.head .. RingSize - 1
            PROVE  ring.entries[i] = logged'[Count - ring.head - RingSize + i + 1]
        <4>1. Count >= RingSize
          BY <3>8 DEF RingInv
        <4>2. Count - ring.head - RingSize + i + 1 \in 1 .. Len(logged)
          BY <3>4, <3>5, <4>1
        <4> QED BY <3>3, <3>8, <4>2 DEF RingInv
      <3> QED BY <3>1, <3>4, <3>7, <3>8 DEF RingInv
    <2> QED BY <2>1, <2>2, <2>3 DEF SendPuts
  <1>4. CASE WriterReceives
    BY <1>1, <1>4, RingAddKeeps
  <1>5. CASE \/ StartLog \/ ShutdownStep \/ WriterPrints \/ WriterExits \/ UNCHANGED logVars
             \/ \E p \in Loggers : SendLocks(p)
    <2>1. UNCHANGED <<ring, logged, logChan>>
      BY <1>5 DEF StartLog, ShutdownStep, SealLog, CloseLog, ShutdownReturns, WriterPrints,
                  WriterExits, SendLocks, logVars, gate, output
    <2> QED BY <1>2, <2>1
  <1> QED BY <1>3, <1>4, <1>5 DEF LogNext, Send, WriterStep

(* What a reader gets of such a ring.                                         *)
LEMMA RingIsRead ==
    ASSUME LogTypeOK, PrintedInOrder, RingInv
    PROVE  RingHoldsTheLast
  <1> DEFINE R     == RingSize
             h     == ring.head
             n     == Count
             start == IF ring.full THEN h ELSE 0
             count == IF ring.full THEN R ELSE h
             got   == [i \in 1 .. count |-> ring.entries[(start + i - 1) % R]]
             from  == IF n > R THEN n - R ELSE 0
             last  == SubSeq(Received, IF n > R THEN n - R + 1 ELSE 1, n)
  <1>1. R \in Nat /\ R > 0 /\ h \in Nat /\ h < R /\ ring.full \in BOOLEAN
    BY LogAssumption DEF LogTypeOK, Slots
  <1>2. /\ n \in Nat /\ n <= Len(logged) /\ logged \in Seq(Entry)
    <2>1. Len(logChan) \in Nat /\ logged \in Seq(Entry)
      BY DEF LogTypeOK
    <2> QED BY <2>1, CountIsNat
  <1>3. /\ ring.full <=> n >= R
        /\ ~ring.full => h = n
        /\ \A i \in 0 .. h - 1 : ring.entries[i] = logged[n - h + i + 1]
        /\ ring.full => \A i \in h .. R - 1 : ring.entries[i] = logged[n - h - R + i + 1]
    BY DEF RingInv
  <1>4. /\ Received \in Seq(Entry) /\ Len(Received) = n
        /\ \A k \in 1 .. n : Received[k] = logged[k]
    BY <1>2 DEF Received, Count
  <1>5. /\ last \in Seq(Entry) /\ Len(last) = count
        /\ \A i \in 1 .. count : last[i] = logged[from + i]
    <2> HIDE DEF n
    <2>1. CASE n > R
      <3>1. /\ last = SubSeq(Received, n - R + 1, n) /\ from = n - R /\ count = R
            /\ n - R + 1 \in 1 .. n
        BY <1>1, <1>2, <1>3, <2>1
      <3>2. /\ SubSeq(Received, n - R + 1, n) \in Seq(Entry)
            /\ Len(SubSeq(Received, n - R + 1, n)) = R
            /\ \A i \in 1 .. R : SubSeq(Received, n - R + 1, n)[i] = Received[n - R + i]
        BY <1>1, <1>2, <1>4, <3>1
      <3>3. \A i \in 1 .. R : n - R + i \in 1 .. n
        BY <1>1, <1>2, <2>1
      <3> QED BY <1>4, <3>1, <3>2, <3>3
    <2>2. CASE ~(n > R)
      <3>1. last = SubSeq(Received, 1, n) /\ from = 0 /\ count = n
        BY <1>1, <1>2, <1>3, <2>2
      <3>2. /\ SubSeq(Received, 1, n) \in Seq(Entry)
            /\ Len(SubSeq(Received, 1, n)) = n
            /\ \A i \in 1 .. n : SubSeq(Received, 1, n)[i] = Received[i]
        BY <1>2, <1>4
      <3> QED BY <1>2, <1>4, <3>1, <3>2
    <2> QED BY <2>1, <2>2
  <1>6. \A i \in 1 .. count : got[i] = logged[from + i]
    <2> SUFFICES ASSUME NEW i \in 1 .. count
                 PROVE  ring.entries[(start + i - 1) % R] = logged[from + i]
      OBVIOUS
    <2> DEFINE k == start + i - 1
    <2>1. k \in Nat /\ k < 2 * R
      BY <1>1
    <2>2. k % R = IF k < R THEN k ELSE k - R
      BY <2>1, Around
    <2>3. CASE ~ring.full
      <3>1. k = i - 1 /\ k < R /\ k \in 0 .. h - 1 /\ n - h + k + 1 = from + i
        BY <1>1, <1>2, <1>3, <2>3
      <3>2. ring.entries[k] = logged[n - h + k + 1]
        BY <1>3, <3>1
      <3> QED BY <2>2, <3>1, <3>2
    <2>4. CASE ring.full /\ k < R
      <3>1. k = h + i - 1 /\ k \in h .. R - 1 /\ n - h - R + k + 1 = from + i
        BY <1>1, <1>2, <1>3, <2>4
      <3>2. ring.entries[k] = logged[n - h - R + k + 1]
        BY <1>3, <2>4, <3>1
      <3> QED BY <2>2, <2>4, <3>1, <3>2
    <2>5. CASE ring.full /\ ~(k < R)
      <3>1. k = h + i - 1 /\ k - R \in 0 .. h - 1 /\ n - h + (k - R) + 1 = from + i
        BY <1>1, <1>2, <1>3, <2>5
      <3>2. ring.entries[k - R] = logged[n - h + (k - R) + 1]
        BY <1>3, <3>1
      <3> QED BY <2>2, <2>5, <3>1, <3>2
    <2> QED BY <2>3, <2>4, <2>5
  <1>7. got = last
    <2>1. last = [i \in 1 .. count |-> last[i]]
      <3> HIDE DEF last, count
      <3> QED BY <1>5
    <2> QED BY <1>5, <1>6, <2>1
  <1>8. \A level : RingGet(level) = Only(got, AtLeast(level))
    BY DEF RingGet
  <1>9. RingHoldsTheLast <=> \A level \in Levels : RingGet(level) = Only(last, AtLeast(level))
    BY <1>4 DEF RingHoldsTheLast
  <1> QED BY <1>7, <1>8, <1>9

(* The output and the readers of the ring agree on the order of what is       *)
(* logged, for any size of the ring, however often it has wrapped around      *)
(* (logger/ring_buffer.go: Add, Get).                                         *)
THEOREM LogStaysInOrder == LogSpec => []LogIsInOrder
  <1>1. LogInit => RingInv
    BY LogAssumption DEF LogInit, RingInv, Count
  <1>2. LogInv /\ RingInv /\ [LogNext]_logVars => RingInv'
    BY RingStep
  <1>3. LogInv /\ RingInv => LogIsInOrder
    BY RingIsRead DEF LogInv, LogIsInOrder
  <1> QED BY <1>1, <1>2, <1>3, LogInvariance, PTL DEF LogSpec

(* The log is an asynchronous queue: Shutdown returns behind the last entry   *)
(* that send took, and no entry is taken from its unlock on.                  *)
THEOREM LogQueueIsAsync == LogSpec => LogIsAsyncQueue
  <1>1. LogInit => LogQueue!AsyncInit
    BY DEF LogInit, LogQueue!AsyncInit, LogPhase, Range
  <1>2. LogInv /\ [LogNext]_logVars => [LogQueue!AsyncNext]_(LogQueue!vars)
    BY LogRefines
  <1> QED BY <1>1, <1>2, LogInvariance, PTL DEF LogSpec, LogIsAsyncQueue, LogQueue!AsyncSpec

-----------------------------------------------------------------------------
(* The process.  A step of it is one of the statistics queue, or leaves that  *)
(* queue alone.                                                               *)
LEMMA ProcessRunsQueue == ProcessSpec => Spec
  <1>1. ProcessInit => Init
    BY DEF ProcessInit
  <1>2. [ProcessNext]_processVars => [Next]_vars
    <2> SUFFICES ASSUME [ProcessNext]_processVars PROVE Next \/ UNCHANGED vars
      OBVIOUS
    <2>1. CASE StartLogger \/ MainClosesLog \/ ReceiveSignal \/ LogWriterStep
      BY <2>1 DEF StartLogger, MainClosesLog, ReceiveSignal, LogWriterStep
    <2>2. CASE MainStep \/ ShutdownServer \/ ServerFails
      BY <2>2 DEF MainStep, ShutdownServer, ServerFails, Next
    <2>3. ASSUME NEW p \in Producers, ProducerLogs(p) \/ ProducerStep(p)
          PROVE  Next \/ UNCHANGED vars
      BY <2>3 DEF ProducerLogs, ProducerStep, Next
    <2>4. ASSUME NEW p \in Loggers, FinishSend(p)
          PROVE  UNCHANGED vars
      BY <2>4 DEF FinishSend
    <2>5. ASSUME NEW w \in Workers, DbWorkerStep(w)
          PROVE  Next
      BY <2>5 DEF DbWorkerStep, Next
    <2>6. CASE UNCHANGED processVars
      BY <2>6 DEF processVars
    <2> QED BY <2>1, <2>2, <2>3, <2>4, <2>5, <2>6 DEF ProcessNext
  <1> QED BY <1>1, <1>2, PTL DEF ProcessSpec, Spec

(* And one of the logger, or leaves the logger alone.                         *)
LEMMA ProcessRunsLog == ProcessSpec => LogSpec
  <1>1. ProcessInit => LogInit
    BY DEF ProcessInit
  <1>2. [ProcessNext]_processVars => [LogNext]_logVars
    <2> SUFFICES ASSUME [ProcessNext]_processVars PROVE LogNext \/ UNCHANGED logVars
      OBVIOUS
    <2>1. CASE StartLogger \/ MainClosesLog \/ LogWriterStep
      BY <2>1 DEF StartLogger, MainClosesLog, LogWriterStep, LogNext
    <2>2. CASE MainStep \/ ShutdownServer \/ ServerFails
      BY <2>2 DEF MainStep, ShutdownServer, ServerFails
    <2>3. CASE ReceiveSignal
      <3>1. Signal \in Loggers
        BY ShutdownAssumption
      <3>2. Send(Signal)
        BY <2>3 DEF ReceiveSignal, Send
      <3> QED BY <3>1, <3>2 DEF LogNext
    <2>4. ASSUME NEW p \in Producers, ProducerLogs(p) \/ ProducerStep(p)
          PROVE  LogNext \/ UNCHANGED logVars
      <3>1. p \in Loggers
        BY ShutdownAssumption
      <3> QED BY <2>4, <3>1 DEF ProducerLogs, ProducerStep, Send, LogNext
    <2>5. ASSUME NEW p \in Loggers, FinishSend(p)
          PROVE  LogNext
      BY <2>5 DEF FinishSend, Send, LogNext
    <2>6. ASSUME NEW w \in Workers, DbWorkerStep(w)
          PROVE  UNCHANGED logVars
      BY <2>6 DEF DbWorkerStep
    <2>7. CASE UNCHANGED processVars
      BY <2>7 DEF processVars
    <2> QED BY <2>1, <2>2, <2>3, <2>4, <2>5, <2>6, <2>7 DEF ProcessNext
  <1> QED BY <1>1, <1>2, PTL DEF ProcessSpec, LogSpec

(* What the runs check of the process holds of it: of its statistics (db.go). *)
THEOREM ProcessKeepsJobs == ProcessSpec => []JobIsInOnePlace /\ DbIsAsyncQueue
  BY ProcessRunsQueue, JobsHaveOnePlace, DbQueueIsAsync, PTL

(* And of its log (logger.go).                                                *)
THEOREM ProcessKeepsEntries ==
    ProcessSpec => []NoSendOnClosed /\ []LogIsInOrder /\ LogIsAsyncQueue
  BY ProcessRunsLog, NoSenderMeetsTheClose, LogStaysInOrder, LogQueueIsAsync, PTL

(* Every variable of the process keeps its type: the channels keep to their   *)
(* capacity, the ring its head within its slots, the counters their bounds.   *)
THEOREM ProcessTypeCorrect == ProcessSpec => []ProcessTypeOK
  <1>1. QueueInv /\ LogInv => TypeOK /\ LogTypeOK
    BY DEF QueueInv, LogInv
  <1> DEFINE S == signal \in {"wait", "log", "shutdown"}
  <1>2. ProcessInit => S
    BY DEF ProcessInit
  <1>3. S /\ [ProcessNext]_processVars => S'
    BY DEF ProcessNext, processVars, StartLogger, MainStep, MainClosesLog, ReceiveSignal,
           ShutdownServer, ServerFails, ProducerLogs, ProducerStep, FinishSend,
           LogWriterStep, DbWorkerStep
  <1>4. TypeOK /\ LogTypeOK /\ S => ProcessTypeOK
    BY DEF ProcessTypeOK
  <1> HIDE DEF S
  <1> QED BY <1>1, <1>2, <1>3, <1>4, ProcessRunsQueue, ProcessRunsLog, QueueInvariance,
             LogInvariance, PTL DEF ProcessSpec
=============================================================================
