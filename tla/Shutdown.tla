------------------------------ MODULE Shutdown ------------------------------
(* The life of the process (main.go): the statistics queue and the logger,    *)
(* the goroutines that use both, the signal that ends the server, and main,   *)
(* which closes first the one and then the other while some of them go on.    *)
EXTENDS StatsQueue, AsyncLog

CONSTANT Signal     \* the goroutine that waits for a signal

ASSUME ShutdownAssumption ==
    /\ Signal \notin Producers
    /\ Loggers = Producers \cup {Signal}

VARIABLE signal     \* where the goroutine of the signal is

processVars == <<vars, logVars, signal>>

ProcessTypeOK ==
    /\ TypeOK
    /\ LogTypeOK
    /\ signal \in {"wait", "log", "shutdown"}

ProcessInit ==
    /\ Init
    /\ LogInit
    /\ signal = "wait"

-----------------------------------------------------------------------------
(* A goroutine holds the lock of the logger for the length of its send.       *)
FinishSend(p) ==
    /\ Alive
    /\ SendPuts(p)
    /\ UNCHANGED <<vars, signal>>

(* What a request or a warm-up reports is logged, while its job is put on the *)
(* queue, before or behind it.                                                *)
ProducerLogs(p) ==
    /\ Alive
    /\ producer[p].pc = "active"
    /\ SendLocks(p)
    /\ UNCHANGED <<vars, signal>>

ProducerStep(p) ==
    /\ logMu # p
    /\ \/ StartProducer(p)
       \/ FinishProducer(p)
       \/ \E kind \in Kinds : Enqueue(p, kind)
       \/ EnqueuePanics(p)
    /\ UNCHANGED <<logVars, signal>>

(* The goroutine of the signal: cancel, log, server.Shutdown, which gives the *)
(* requests 30 seconds and logs if they take longer.  Nobody waits for it.    *)
ReceiveSignal ==
    /\ Alive
    /\ main # "start"
    /\ signal = "wait"
    /\ signal' = "log"
    /\ SendLocks(Signal)
    /\ UNCHANGED vars

ShutdownServer ==
    /\ signal = "log"
    /\ logMu # Signal
    /\ signal' = "shutdown"
    /\ IF main = "serving" THEN StopListening ELSE Alive /\ UNCHANGED vars
    /\ UNCHANGED logVars

(* ListenAndServe may fail by itself, at once if its port is taken.           *)
ServerFails ==
    /\ StopListening
    /\ UNCHANGED <<logVars, signal>>

(* main, from InitDB, behind logger.Init, to its return: db.Close, then       *)
(* logger.Shutdown.  What main logs itself is left out.                       *)
MainStep ==
    /\ writer # "none"
    /\ \/ InitDB \/ InitDBFails \/ Close \/ CloseReturns
       \/ shutdown = "returned" /\ Exit
    /\ UNCHANGED <<logVars, signal>>

MainClosesLog ==
    /\ main = "closed"
    /\ ShutdownStep
    /\ UNCHANGED <<vars, signal>>

StartLogger ==
    /\ main = "start"
    /\ StartLog
    /\ UNCHANGED <<vars, signal>>

LogWriterStep ==
    /\ Alive
    /\ WriterStep
    /\ UNCHANGED <<vars, signal>>

DbWorkerStep(w) ==
    /\ WorkerStep(w)
    /\ UNCHANGED <<logVars, signal>>

ProcessNext ==
    \/ StartLogger
    \/ MainStep
    \/ MainClosesLog
    \/ ReceiveSignal
    \/ ShutdownServer
    \/ ServerFails
    \/ \E p \in Producers : ProducerLogs(p) \/ ProducerStep(p)
    \/ \E p \in Loggers : FinishSend(p)
    \/ LogWriterStep
    \/ \E w \in Workers : DbWorkerStep(w)

ProcessSpec == ProcessInit /\ [][ProcessNext]_processVars

(* Every goroutine is scheduled, a worker's ticker ticks, and mu is handed    *)
(* out: a sender holds it for one step, and Go's mutexes do not starve.       *)
ProcessFairness ==
    /\ WF_processVars(MainStep)
    /\ SF_processVars(MainClosesLog)
    /\ WF_processVars(LogWriterStep)
    /\ \A p \in Loggers : WF_processVars(FinishSend(p))
    /\ \A w \in Workers : WF_processVars(DbWorkerStep(w))

FairProcessSpec == ProcessSpec /\ ProcessFairness

-----------------------------------------------------------------------------
(* Once the server has stopped to listen the program ends: neither db.Close   *)
(* nor logger.Shutdown hangs, whoever still puts jobs and entries on them.    *)
ProgramEnds == main = "closing" ~> ~Alive
=============================================================================
