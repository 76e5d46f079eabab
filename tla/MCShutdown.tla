----------------------------- MODULE MCShutdown -----------------------------
(* Shutdown for TLC: one message of each goroutine, at two levels: Info and  *)
(* Debug, which is 0 in zerolog, as the zero value of an entry has it.        *)
EXTENDS Shutdown

MCLevelOf == [p \in Loggers |-> IF p = Signal THEN 1 ELSE 0]

MCMaxLogs == [p \in Loggers |-> 1]
=============================================================================
