----------------------------- MODULE McpSessions -----------------------------
(* The MCP sessions and the sampling requests sent to them                    *)
(* (proxy/streamable.go).  SSE handlers read the notifier of their session,   *)
(* POST requests keep a session alive, a ticker deletes the idle ones, and    *)
(* every goroutine that records a provider's third failure in a row calls     *)
(* OnPersistentFailure, which tells every session unless the provider was     *)
(* reported a short time ago.                                                 *)
(*                                                                            *)
(* A deletion holds SessionManager.mu for three steps; the broadcast copies   *)
(* the sessions under that lock and sends without it.                         *)
EXTENDS Naturals, SequencesExt

CONSTANTS
    Sessions,       \* the ids that can be generated
    NoSession,
    Callers,        \* goroutines inside RecordFailure
    Providers,
    NotifierCap,    \* 10
    Cooldown,       \* samplingCooldown
    IdleLimit,      \* 30 minutes
    MaxTime,        \* bound: the clock stops here
    MaxBroadcasts   \* bound

ASSUME SessionsAssumption ==
    /\ NoSession \notin Sessions
    /\ {NotifierCap, Cooldown, IdleLimit, MaxBroadcasts} \subseteq Nat
    /\ MaxTime \in Nat \ {0}

VARIABLES
    mcpHandler,     \* whether the handler exists: from the first request on
    session,        \* what the session object holds
    sessions,       \* the map of the session manager, as the set of its ids
    deletion,       \* the deletion under way in the lock of the manager
    reader,         \* the SSE handler of a session
    caller,         \* where a goroutine is in OnPersistentFailure
    lastSampling,   \* lastSamplingTime: a time, or 0 for no entry
    started,        \* history: the broadcasts, in the order they began
    received,       \* history: the last event a client got, or 0
    now

managed == <<mcpHandler, session, sessions, deletion>>
calls   == <<caller, lastSampling, started>>
vars == <<mcpHandler, session, sessions, deletion, reader, caller,
          lastSampling, started, received, now>>

(* An event is the number of its broadcast. *)
Event == Nat \ {0}

Session == [canceled : BOOLEAN, closed : BOOLEAN,
            lastActive : 1 .. MaxTime, Notifier : Seq(Event)]

TypeOK ==
    /\ mcpHandler \in BOOLEAN
    /\ session \in [Sessions -> Session]
    /\ \A s \in Sessions : Len(session[s].Notifier) <= NotifierCap
    /\ sessions \subseteq Sessions
    /\ deletion \in [todo : SUBSET Sessions, cur : Sessions \cup {NoSession},
                     at : {"cancel", "close", "remove"}]
    /\ reader \in [Sessions -> {"none", "reading", "leaving", "deleting", "returned"}]
    /\ caller \in [Callers ->
         [pc : {"idle", "waiting", "snapshot", "sending", "panicked"},
          provider : Providers, event : Event \cup {0}, todo : SUBSET Sessions]]
    /\ lastSampling \in [Providers -> 0 .. MaxTime]
    /\ started \in Seq([provider : Providers, at : 1 .. MaxTime])
    /\ received \in [Sessions -> Event \cup {0}]
    /\ now \in 1 .. MaxTime

Init ==
    /\ mcpHandler = FALSE
    /\ session = [s \in Sessions |-> [canceled |-> FALSE, closed |-> FALSE,
                                      lastActive |-> 1, Notifier |-> << >>]]
    /\ sessions = {}
    /\ deletion = [todo |-> {}, cur |-> NoSession, at |-> "cancel"]
    /\ reader = [s \in Sessions |-> "none"]
    /\ caller \in [Callers -> {[pc |-> "idle", provider |-> p, event |-> 0,
                                todo |-> {}] : p \in Providers}]
    /\ lastSampling = [p \in Providers |-> 0]
    /\ started = << >>
    /\ received = [s \in Sessions |-> 0]
    /\ now = 1

-----------------------------------------------------------------------------
(* The session manager.  Its lock is free. *)
Unlocked == deletion.todo = {}

IsNew(s) == s \notin sessions /\ ~session[s].canceled

(* A GET opens a session with a reader, a POST of initialize one without. *)
CreateSession(s, pc) ==
    /\ Unlocked
    /\ IsNew(s)
    /\ mcpHandler' = TRUE
    /\ sessions' = sessions \cup {s}
    /\ session' = [session EXCEPT ![s].lastActive = now]
    /\ reader' = [reader EXCEPT ![s] = pc]
    /\ UNCHANGED <<deletion, calls, received, now>>

GetSession(s) ==
    /\ Unlocked
    /\ s \in sessions
    /\ session' = [session EXCEPT ![s].lastActive = now]
    /\ UNCHANGED <<mcpHandler, sessions, deletion, reader, calls, received, now>>

(* The lock is taken to delete the sessions of a set. *)
Doom(doomed) == deletion' = [deletion EXCEPT !.todo = doomed]

Cleanup ==
    /\ Unlocked
    /\ Doom({s \in sessions : session[s].lastActive + IdleLimit < now})
    /\ UNCHANGED <<mcpHandler, session, sessions, reader, calls, received, now>>

(* A faulty variant: the session is not looked up again. *)
DeleteSessionBlindly(s) ==
    /\ Unlocked
    /\ reader[s] = "leaving"
    /\ Doom({s})
    /\ reader' = [reader EXCEPT ![s] = "deleting"]
    /\ UNCHANGED <<mcpHandler, session, sessions, calls, received, now>>

DeleteSession(s) ==
    /\ Unlocked
    /\ reader[s] = "leaving"
    /\ Doom({s} \cap sessions)
    /\ reader' = [reader EXCEPT ![s] = IF s \in sessions THEN "deleting" ELSE "returned"]
    /\ UNCHANGED <<mcpHandler, session, sessions, calls, received, now>>

(* deleteSessionUnsafe, in three steps. *)
CancelSession(s) ==
    /\ deletion.cur = NoSession
    /\ s \in deletion.todo
    /\ session' = [session EXCEPT ![s].canceled = TRUE]
    /\ deletion' = [deletion EXCEPT !.cur = s, !.at = "close"]
    /\ UNCHANGED <<mcpHandler, sessions, reader, calls, received, now>>

(* A faulty variant: the context is taken to be enough. *)
CloseNotifierNot(s) ==
    /\ deletion.cur = s
    /\ deletion.at = "close"
    /\ deletion' = [deletion EXCEPT !.at = "remove"]
    /\ UNCHANGED <<mcpHandler, session, sessions, reader, calls, received, now>>

CloseNotifier(s) ==
    /\ deletion.cur = s
    /\ deletion.at = "close"
    /\ session' = [session EXCEPT ![s].closed = TRUE]
    /\ deletion' = [deletion EXCEPT !.at = "remove"]
    /\ UNCHANGED <<mcpHandler, sessions, reader, calls, received, now>>

RemoveSession(s) ==
    /\ deletion.cur = s
    /\ deletion.at = "remove"
    /\ sessions' = sessions \ {s}
    /\ deletion' = [todo |-> deletion.todo \ {s}, cur |-> NoSession, at |-> "cancel"]
    /\ reader' = [reader EXCEPT ![s] = IF @ = "deleting" THEN "returned" ELSE @]
    /\ UNCHANGED <<mcpHandler, session, calls, received, now>>

-----------------------------------------------------------------------------
(* The SSE handler.  It reads what is buffered in a closed notifier first,    *)
(* and looks at the context of its request only, not at the session's.        *)
ReadEvent(s) ==
    /\ reader[s] = "reading"
    /\ session[s].Notifier # << >>
    /\ received' = [received EXCEPT ![s] = Head(session[s].Notifier)]
    /\ session' = [session EXCEPT ![s].Notifier = Tail(@)]
    /\ UNCHANGED <<mcpHandler, sessions, deletion, reader, calls, now>>

ReadClosed(s) ==
    /\ reader[s] = "reading"
    /\ session[s].Notifier = << >>
    /\ session[s].closed
    /\ reader' = [reader EXCEPT ![s] = "returned"]
    /\ UNCHANGED <<managed, calls, received, now>>

ClientDisconnects(s) ==
    /\ reader[s] = "reading"
    /\ reader' = [reader EXCEPT ![s] = "leaving"]
    /\ UNCHANGED <<managed, calls, received, now>>

-----------------------------------------------------------------------------
(* OnPersistentFailure. *)
Return(c, pc) == caller' = [caller EXCEPT ![c].pc = pc, ![c].event = 0, ![c].todo = {}]

Call(c, p) ==
    /\ caller[c].pc = "idle"
    /\ Len(started) + Cardinality({d \in Callers : caller[d].pc = "waiting"})
         < MaxBroadcasts
    /\ caller' = [caller EXCEPT ![c].pc = "waiting", ![c].provider = p]
    /\ UNCHANGED <<managed, reader, lastSampling, started, received, now>>

HoldsSamplingMu(c) == caller[c].pc \in {"snapshot", "sending"}

CoolingDown(p) == lastSampling[p] # 0 /\ now - lastSampling[p] < Cooldown

(* A report within the cooldown is not made. *)
SkipReport(c) ==
    /\ caller[c].pc = "waiting"
    /\ \A d \in Callers : ~HoldsSamplingMu(d)
    /\ CoolingDown(caller[c].provider)
    /\ Return(c, "idle")
    /\ UNCHANGED <<managed, reader, lastSampling, started, received, now>>

Broadcast(c) ==
    IF mcpHandler
    THEN /\ started' = Append(started, [provider |-> caller[c].provider, at |-> now])
         /\ caller' = [caller EXCEPT ![c].pc = "snapshot", ![c].event = Len(started) + 1]
    ELSE UNCHANGED started /\ Return(c, "idle")

(* Faulty variants: the time is not noted; the mutex is not asked for. *)
ReportAgain(c) ==
    /\ caller[c].pc = "waiting"
    /\ \A d \in Callers : ~HoldsSamplingMu(d)
    /\ ~CoolingDown(caller[c].provider)
    /\ Broadcast(c)
    /\ UNCHANGED <<managed, reader, lastSampling, received, now>>

ReportUnlocked(c) ==
    /\ caller[c].pc = "waiting"
    /\ ~CoolingDown(caller[c].provider)
    /\ lastSampling' = [lastSampling EXCEPT ![caller[c].provider] = now]
    /\ Broadcast(c)
    /\ UNCHANGED <<managed, reader, received, now>>

(* The time of the report is noted even if there is nobody to tell. *)
Report(c) ==
    /\ caller[c].pc = "waiting"
    /\ \A d \in Callers : ~HoldsSamplingMu(d)
    /\ ~CoolingDown(caller[c].provider)
    /\ lastSampling' = [lastSampling EXCEPT ![caller[c].provider] = now]
    /\ Broadcast(c)
    /\ UNCHANGED <<managed, reader, received, now>>

(* broadcastSamplingRequest *)
CopySessions(c) ==
    /\ caller[c].pc = "snapshot"
    /\ Unlocked
    /\ caller' = [caller EXCEPT ![c].pc = "sending", ![c].todo = sessions]
    /\ UNCHANGED <<managed, reader, lastSampling, started, received, now>>

Sending(c, s) == caller[c].pc = "sending" /\ s \in caller[c].todo

Sent(c, s) == caller' = [caller EXCEPT ![c].todo = @ \ {s}]

(* A faulty variant: the notifier is taken to be without a capacity. *)
SendEventAlways(c, s) ==
    /\ Sending(c, s)
    /\ ~session[s].closed
    /\ session' = [session EXCEPT ![s].Notifier = Append(@, caller[c].event)]
    /\ Sent(c, s)
    /\ UNCHANGED <<mcpHandler, sessions, deletion, reader, lastSampling,
                   started, received, now>>

SendEvent(c, s) ==
    /\ Sending(c, s)
    /\ ~session[s].closed
    /\ Len(session[s].Notifier) < NotifierCap
    /\ session' = [session EXCEPT ![s].Notifier = Append(@, caller[c].event)]
    /\ Sent(c, s)
    /\ UNCHANGED <<mcpHandler, sessions, deletion, reader, lastSampling,
                   started, received, now>>

(* A faulty variant: the send has no default, so that a full notifier waits. *)
PassOverWaits(c, s) ==
    /\ Sending(c, s)
    /\ session[s].canceled
    /\ Sent(c, s)
    /\ UNCHANGED <<managed, reader, lastSampling, started, received, now>>

(* The session is canceled, or its notifier is full. *)
PassOver(c, s) ==
    /\ Sending(c, s)
    /\ \/ session[s].canceled
       \/ ~session[s].closed /\ Len(session[s].Notifier) >= NotifierCap
    /\ Sent(c, s)
    /\ UNCHANGED <<managed, reader, lastSampling, started, received, now>>

(* select chooses among the cases that are ready, and a send on a closed      *)
(* channel is ready: it panics.  The server recovers the panic of the request *)
(* that recorded the failure; samplingMu is released by a defer.              *)
SendPanics(c, s) ==
    /\ Sending(c, s)
    /\ session[s].closed
    /\ Return(c, "panicked")
    /\ UNCHANGED <<managed, reader, lastSampling, started, received, now>>

EndBroadcast(c) ==
    /\ caller[c].pc = "sending"
    /\ caller[c].todo = {}
    /\ Return(c, "idle")
    /\ UNCHANGED <<managed, reader, lastSampling, started, received, now>>

Tick ==
    /\ now < MaxTime
    /\ now' = now + 1
    /\ UNCHANGED <<managed, reader, calls, received>>

-----------------------------------------------------------------------------
Acquire(c) == SkipReport(c) \/ Report(c)

BroadcastStep(c) ==
    \/ CopySessions(c)
    \/ \E s \in Sessions : SendEvent(c, s) \/ PassOver(c, s) \/ SendPanics(c, s)
    \/ EndBroadcast(c)

DeletionStep(s) == CancelSession(s) \/ CloseNotifier(s) \/ RemoveSession(s)

ReaderStep(s) == ReadEvent(s) \/ ReadClosed(s)

Next ==
    \/ \E s \in Sessions :
         \/ \E pc \in {"none", "reading"} : CreateSession(s, pc)
         \/ GetSession(s)
         \/ DeletionStep(s)
         \/ ReaderStep(s)
         \/ ClientDisconnects(s)
         \/ DeleteSession(s)
    \/ Cleanup
    \/ \E c \in Callers :
         \/ \E p \in Providers : Call(c, p)
         \/ Acquire(c)
         \/ BroadcastStep(c)
    \/ Tick

Spec == Init /\ [][Next]_vars

(* The goroutines are scheduled.  Weak fairness is enough for the locks: a    *)
(* holder lets go of them, and few sessions and broadcasts take them.  Nobody *)
(* has to read from a session without an SSE handler, or to disconnect.       *)
Fairness ==
    /\ \A s \in Sessions :
         WF_vars(DeletionStep(s) \/ ReaderStep(s) \/ DeleteSession(s))
    /\ \A c \in Callers : WF_vars(Acquire(c) \/ BroadcastStep(c))

FairSpec == Spec /\ Fairness

-----------------------------------------------------------------------------
(* close of a closed channel panics.  A notifier is closed once, although the *)
(* disconnection of its client and the cleanup may both want to delete its    *)
(* session.                                                                   *)
NotifierClosedOnce ==
    [][\A s \in Sessions : CloseNotifier(s) => ~session[s].closed]_vars

(* A session gets a broadcast once at most, and the broadcasts in the order   *)
(* they were made, however many goroutines report at the same time.           *)
EventsInOrder ==
    \A s \in Sessions :
        LET events == <<received[s]>> \o session[s].Notifier
        IN  \A i, j \in DOMAIN events : i < j => events[i] < events[j]

(* samplingCooldown: two reports of a provider lie that far apart, whichever  *)
(* goroutines make them.                                                      *)
ReportsAreApart ==
    \A i, j \in DOMAIN started :
        i < j /\ started[i].provider = started[j].provider =>
            started[j].at - started[i].at >= Cooldown

(* A goroutine that records a failure gets out of the callback, even if no    *)
(* session reads and every notifier is full.                                  *)
CallbackReturns ==
    \A c \in Callers :
        caller[c].pc # "idle" ~> caller[c].pc \in {"idle", "panicked"}

(* The connection of a session that is deleted comes to its end.              *)
ReaderReturns ==
    \A s \in Sessions : session[s].canceled ~> reader[s] \in {"none", "returned"}
=============================================================================
