-------------------------- MODULE McpSessionsProofs --------------------------
(* Proofs about McpSessions, for any sessions, callers, providers and bounds. *)
EXTENDS McpSessions, TLAPS

(* The sessions that are being deleted are still in the map, and what has     *)
(* been done to them is what deletion says: nobody comes back to a session    *)
(* that is already canceled.                                                  *)
DeletionInv ==
    /\ deletion.todo \subseteq sessions
    /\ deletion.cur # NoSession => deletion.cur \in deletion.todo
    /\ \A s \in Sessions :
         /\ session[s].canceled /\ s \in sessions => deletion.cur = s
         /\ session[s].closed => session[s].canceled
         /\ deletion.cur = s => session[s].canceled
         /\ deletion.cur = s /\ deletion.at = "close" => ~session[s].closed

(* One goroutine reports at a time, and lastSampling is not older than any    *)
(* report.                                                                    *)
ReportInv ==
    /\ \A c, d \in Callers : HoldsSamplingMu(c) /\ HoldsSamplingMu(d) => c = d
    /\ \A c \in Callers : HoldsSamplingMu(c) => caller[c].event = Len(started)
    /\ \A p \in Providers : lastSampling[p] <= now
    /\ \A i \in DOMAIN started : started[i].at <= lastSampling[started[i].provider]
    /\ ReportsAreApart

(* What a session was sent, in order, and up to which event. *)
UpTo(s, n) ==
    /\ received[s] <= n
    /\ \A i \in DOMAIN session[s].Notifier : session[s].Notifier[i] <= n

Increasing(s) ==
    LET q == session[s].Notifier
    IN  /\ \A i \in DOMAIN q : received[s] < q[i]
        /\ \A i, j \in DOMAIN q : i < j => q[i] < q[j]

(* A session that is still to be sent an event has none like it. *)
Awaits(c, s) ==
    \/ caller[c].pc = "snapshot"
    \/ caller[c].pc = "sending" /\ s \in caller[c].todo

EventInv ==
    \A s \in Sessions :
        /\ Increasing(s)
        /\ UpTo(s, Len(started))
        /\ \A c \in Callers : Awaits(c, s) => UpTo(s, Len(started) - 1)

McpInv == TypeOK /\ DeletionInv /\ ReportInv /\ EventInv

-----------------------------------------------------------------------------
(* What a sequence over S holds at one of its places is in S.                 *)
LEMMA ElementTyped ==
    ASSUME NEW S, NEW q \in Seq(S), NEW i \in DOMAIN q
    PROVE  q[i] \in S
  OBVIOUS

(* The first event and the others, as one sequence. *)
LEMMA IncreasingIsInOrder ==
    ASSUME NEW x \in Nat, NEW q \in Seq(Event),
           \A i \in DOMAIN q : x < q[i],
           \A i, j \in DOMAIN q : i < j => q[i] < q[j]
    PROVE  \A i, j \in DOMAIN (<<x>> \o q) : i < j => (<<x>> \o q)[i] < (<<x>> \o q)[j]
  <1> DEFINE all == <<x>> \o q
  <1>1. /\ DOMAIN q = 1 .. Len(q) /\ Len(q) \in Nat
        /\ DOMAIN all = 1 .. Len(q) + 1
        /\ all[1] = x
        /\ \A i \in 2 .. Len(q) + 1 : all[i] = q[i - 1]
    OBVIOUS
  <1> HIDE DEF all
  <1> SUFFICES ASSUME NEW i \in DOMAIN all, NEW j \in DOMAIN all, i < j
               PROVE  all[i] < all[j]
    BY DEF all
  <1>2. j - 1 \in DOMAIN q /\ all[j] = q[j - 1]
    BY <1>1
  <1>3. CASE i = 1
    BY <1>1, <1>2, <1>3
  <1>4. CASE i # 1
    <2>1. i - 1 \in DOMAIN q /\ all[i] = q[i - 1] /\ i - 1 < j - 1
      BY <1>1, <1>4
    <2> QED BY <1>2, <2>1
  <1> QED BY <1>3, <1>4

(* Steps in which nothing is reported or sent. *)
LEMMA NothingIsSent ==
    ASSUME McpInv, UNCHANGED <<caller, lastSampling, started, received, now>>,
           \A s \in Sessions : session'[s].Notifier = session[s].Notifier
    PROVE  ReportInv' /\ EventInv'
  <1>1. ReportInv'
    BY DEF McpInv, ReportInv, HoldsSamplingMu, ReportsAreApart
  <1>2. EventInv'
    BY DEF McpInv, EventInv, Increasing, UpTo, Awaits
  <1> QED BY <1>1, <1>2

-----------------------------------------------------------------------------
(* The session manager. *)
LEMMA FreeLock ==
    ASSUME McpInv, Unlocked
    PROVE  /\ deletion.cur = NoSession
           /\ \A s \in sessions : ~session[s].canceled
  BY SessionsAssumption DEF McpInv, TypeOK, DeletionInv, Unlocked

(* One field of a session changes. *)
LEMMA SessionFields ==
    ASSUME NEW x \in Session
    PROVE  /\ \A t \in 1 .. MaxTime :
                LET y == [x EXCEPT !.lastActive = t]
                IN  /\ y \in Session /\ y.Notifier = x.Notifier
                    /\ y.canceled = x.canceled /\ y.closed = x.closed
           /\ LET y == [x EXCEPT !.canceled = TRUE]
              IN  /\ y \in Session /\ y.Notifier = x.Notifier
                  /\ y.canceled /\ y.closed = x.closed
           /\ LET y == [x EXCEPT !.closed = TRUE]
              IN  /\ y \in Session /\ y.Notifier = x.Notifier
                  /\ y.canceled = x.canceled
           /\ \A q \in Seq(Event) :
                LET y == [x EXCEPT !.Notifier = q]
                IN  /\ y \in Session /\ y.Notifier = q
                    /\ y.canceled = x.canceled /\ y.closed = x.closed
  BY DEF Session

(* What a step of a session leaves to be shown.                               *)
LEMMA SessionStep ==
    ASSUME TypeOK, NEW s \in Sessions, NEW x \in Session,
           session' = [session EXCEPT ![s] = x]
    PROVE  /\ session' \in [Sessions -> Session]
           /\ session'[s] = x
           /\ \A t \in Sessions \ {s} : session'[t] = session[t]
  BY DEF TypeOK

(* A session is created.                                                      *)
LEMMA CreateKeeps ==
    ASSUME McpInv, NEW s \in Sessions, NEW pc \in {"none", "reading"}, CreateSession(s, pc)
    PROVE  McpInv'
  <1>1. TypeOK /\ DeletionInv
    BY DEF McpInv
  <1>2. /\ s \notin sessions /\ ~session[s].canceled
        /\ mcpHandler' = TRUE /\ sessions' = sessions \cup {s}
        /\ session' = [session EXCEPT ![s] = [session[s] EXCEPT !.lastActive = now]]
        /\ reader' = [reader EXCEPT ![s] = pc]
        /\ UNCHANGED <<deletion, caller, lastSampling, started, received, now>>
    BY <1>1 DEF CreateSession, IsNew, calls, TypeOK
  <1>3. [session[s] EXCEPT !.lastActive = now] \in Session
    BY <1>1, SessionFields DEF TypeOK
  <1>4. /\ session' \in [Sessions -> Session]
        /\ session'[s] = [session[s] EXCEPT !.lastActive = now]
        /\ \A t \in Sessions \ {s} : session'[t] = session[t]
    BY <1>1, <1>2, <1>3, SessionStep
  <1>5. \A t \in Sessions : /\ session'[t].Notifier = session[t].Notifier
                            /\ session'[t].canceled = session[t].canceled
                            /\ session'[t].closed = session[t].closed
    <2>1. session[s] \in Session /\ now \in 1 .. MaxTime
      BY <1>1 DEF TypeOK
    <2>2. /\ session'[s].Notifier = session[s].Notifier
          /\ session'[s].canceled = session[s].canceled
          /\ session'[s].closed = session[s].closed
      BY <1>4, <2>1, SessionFields
    <2> QED BY <1>4, <2>2
  <1>6. TypeOK'
    BY <1>1, <1>2, <1>4, <1>5 DEF TypeOK
  <1>7. DeletionInv'
    BY <1>1, <1>2, <1>5 DEF DeletionInv
  <1> QED BY <1>2, <1>5, <1>6, <1>7, NothingIsSent DEF McpInv

(* A request looks its session up.                                            *)
LEMMA GetKeeps ==
    ASSUME McpInv, NEW s \in Sessions, GetSession(s)
    PROVE  McpInv'
  <1>1. TypeOK /\ DeletionInv
    BY DEF McpInv
  <1>2. /\ session' = [session EXCEPT ![s] = [session[s] EXCEPT !.lastActive = now]]
        /\ UNCHANGED <<mcpHandler, sessions, deletion, reader, caller, lastSampling,
                       started, received, now>>
    BY <1>1 DEF GetSession, calls, TypeOK
  <1>3. [session[s] EXCEPT !.lastActive = now] \in Session
    BY <1>1, SessionFields DEF TypeOK
  <1>4. /\ session' \in [Sessions -> Session]
        /\ session'[s] = [session[s] EXCEPT !.lastActive = now]
        /\ \A t \in Sessions \ {s} : session'[t] = session[t]
    BY <1>1, <1>2, <1>3, SessionStep
  <1>5. \A t \in Sessions : /\ session'[t].Notifier = session[t].Notifier
                            /\ session'[t].canceled = session[t].canceled
                            /\ session'[t].closed = session[t].closed
    <2>1. session[s] \in Session /\ now \in 1 .. MaxTime
      BY <1>1 DEF TypeOK
    <2>2. /\ session'[s].Notifier = session[s].Notifier
          /\ session'[s].canceled = session[s].canceled
          /\ session'[s].closed = session[s].closed
      BY <1>4, <2>1, SessionFields
    <2> QED BY <1>4, <2>2
  <1>6. TypeOK'
    BY <1>1, <1>2, <1>4, <1>5 DEF TypeOK
  <1>7. DeletionInv'
    BY <1>1, <1>2, <1>5 DEF DeletionInv
  <1> QED BY <1>2, <1>5, <1>6, <1>7, NothingIsSent DEF McpInv

(* The lock is taken for some sessions of the map. *)
LEMMA DoomKeeps ==
    ASSUME McpInv, Unlocked, NEW doomed \in SUBSET sessions, Doom(doomed),
           reader' \in [Sessions -> {"none", "reading", "leaving", "deleting", "returned"}],
           UNCHANGED <<mcpHandler, session, sessions, calls, received, now>>
    PROVE  McpInv'
  <1>1. TypeOK /\ DeletionInv
    BY DEF McpInv
  <1>2. /\ deletion' = [deletion EXCEPT !.todo = doomed]
        /\ UNCHANGED <<caller, lastSampling, started>>
    BY DEF Doom, calls
  <1>3. deletion.cur = NoSession /\ deletion'.cur = NoSession /\ deletion'.todo = doomed
    BY <1>1, <1>2, FreeLock DEF TypeOK
  <1>4. deletion' \in [todo : SUBSET Sessions, cur : Sessions \cup {NoSession},
                       at : {"cancel", "close", "remove"}]
    BY <1>1, <1>2 DEF TypeOK
  <1>5. TypeOK'
    BY <1>1, <1>2, <1>4 DEF TypeOK
  <1>6. DeletionInv'
    BY <1>1, <1>3, FreeLock, SessionsAssumption DEF DeletionInv
  <1>7. \A s \in Sessions : session'[s].Notifier = session[s].Notifier
    OBVIOUS
  <1> QED BY <1>2, <1>5, <1>6, <1>7, NothingIsSent DEF McpInv

(* The cleanup dooms the sessions that have been idle too long.               *)
LEMMA CleanupKeeps ==
    ASSUME McpInv, Cleanup
    PROVE  McpInv'
  BY DoomKeeps DEF Cleanup, McpInv, TypeOK

(* A client deletes its session.                                              *)
LEMMA DeleteKeeps ==
    ASSUME McpInv, NEW s \in Sessions, DeleteSession(s)
    PROVE  McpInv'
  <1>1. reader' \in [Sessions -> {"none", "reading", "leaving", "deleting", "returned"}]
    BY DEF DeleteSession, McpInv, TypeOK
  <1> QED BY <1>1, DoomKeeps DEF DeleteSession

(* The deletion cancels the session.                                          *)
LEMMA CancelKeeps ==
    ASSUME McpInv, NEW s \in Sessions, CancelSession(s)
    PROVE  McpInv'
  <1>1. TypeOK /\ DeletionInv
    BY DEF McpInv
  <1>2. /\ deletion.cur = NoSession /\ s \in deletion.todo
        /\ session' = [session EXCEPT ![s] = [session[s] EXCEPT !.canceled = TRUE]]
        /\ deletion' = [deletion EXCEPT !.cur = s, !.at = "close"]
        /\ UNCHANGED <<mcpHandler, sessions, reader, caller, lastSampling, started,
                       received, now>>
    BY <1>1 DEF CancelSession, calls, TypeOK
  <1>3. [session[s] EXCEPT !.canceled = TRUE] \in Session
    BY <1>1, SessionFields DEF TypeOK
  <1>4. /\ session' \in [Sessions -> Session]
        /\ session'[s] = [session[s] EXCEPT !.canceled = TRUE]
        /\ \A t \in Sessions \ {s} : session'[t] = session[t]
    BY <1>1, <1>2, <1>3, SessionStep
  <1>5. /\ \A t \in Sessions : /\ session'[t].Notifier = session[t].Notifier
                               /\ session'[t].closed = session[t].closed
        /\ \A t \in Sessions \ {s} : session'[t].canceled = session[t].canceled
        /\ session'[s].canceled
    <2>1. session[s] \in Session /\ now \in 1 .. MaxTime
      BY <1>1 DEF TypeOK
    <2>2. /\ session'[s].Notifier = session[s].Notifier
          /\ session'[s].canceled
          /\ session'[s].closed = session[s].closed
      BY <1>4, <2>1, SessionFields
    <2> QED BY <1>4, <2>2
  <1>6. deletion'.cur = s /\ deletion'.at = "close" /\ deletion'.todo = deletion.todo
    BY <1>1, <1>2 DEF TypeOK
  <1>7. deletion' \in [todo : SUBSET Sessions, cur : Sessions \cup {NoSession},
                       at : {"cancel", "close", "remove"}]
    BY <1>1, <1>2 DEF TypeOK
  <1>8. TypeOK'
    BY <1>1, <1>2, <1>4, <1>5, <1>7 DEF TypeOK
  <1>9. ~session[s].canceled /\ ~session[s].closed
    BY <1>1, <1>2, SessionsAssumption DEF DeletionInv
  <1>10. DeletionInv'
    BY <1>1, <1>2, <1>5, <1>6, <1>9, SessionsAssumption DEF DeletionInv
  <1> QED BY <1>2, <1>5, <1>8, <1>10, NothingIsSent DEF McpInv

(* The deletion closes the notifier.                                          *)
LEMMA CloseKeeps ==
    ASSUME McpInv, NEW s \in Sessions, CloseNotifier(s)
    PROVE  McpInv'
  <1>1. TypeOK /\ DeletionInv
    BY DEF McpInv
  <1>2. /\ deletion.cur = s
        /\ session' = [session EXCEPT ![s] = [session[s] EXCEPT !.closed = TRUE]]
        /\ deletion' = [deletion EXCEPT !.at = "remove"]
        /\ UNCHANGED <<mcpHandler, sessions, reader, caller, lastSampling, started,
                       received, now>>
    BY <1>1 DEF CloseNotifier, calls, TypeOK
  <1>3. [session[s] EXCEPT !.closed = TRUE] \in Session
    BY <1>1, SessionFields DEF TypeOK
  <1>4. /\ session' \in [Sessions -> Session]
        /\ session'[s] = [session[s] EXCEPT !.closed = TRUE]
        /\ \A t \in Sessions \ {s} : session'[t] = session[t]
    BY <1>1, <1>2, <1>3, SessionStep
  <1>5. /\ \A t \in Sessions : /\ session'[t].Notifier = session[t].Notifier
                               /\ session'[t].canceled = session[t].canceled
        /\ \A t \in Sessions \ {s} : session'[t].closed = session[t].closed
    <2>1. session[s] \in Session /\ now \in 1 .. MaxTime
      BY <1>1 DEF TypeOK
    <2>2. /\ session'[s].Notifier = session[s].Notifier
          /\ session'[s].canceled = session[s].canceled
      BY <1>4, <2>1, SessionFields
    <2> QED BY <1>4, <2>2
  <1>6. deletion'.cur = s /\ deletion'.at = "remove" /\ deletion'.todo = deletion.todo
    BY <1>1, <1>2 DEF TypeOK
  <1>7. deletion' \in [todo : SUBSET Sessions, cur : Sessions \cup {NoSession},
                       at : {"cancel", "close", "remove"}]
    BY <1>1, <1>2 DEF TypeOK
  <1>8. TypeOK'
    BY <1>1, <1>2, <1>4, <1>5, <1>7 DEF TypeOK
  <1>9. session[s].canceled
    BY <1>1, <1>2 DEF DeletionInv
  <1>10. DeletionInv'
    BY <1>1, <1>2, <1>5, <1>6, <1>9 DEF DeletionInv
  <1> QED BY <1>2, <1>5, <1>8, <1>10, NothingIsSent DEF McpInv

(* The deletion removes the session from the map.                             *)
LEMMA RemoveKeeps ==
    ASSUME McpInv, NEW s \in Sessions, RemoveSession(s)
    PROVE  McpInv'
  <1>1. TypeOK /\ DeletionInv
    BY DEF McpInv
  <1>2. /\ deletion.cur = s
        /\ sessions' = sessions \ {s}
        /\ deletion' = [todo |-> deletion.todo \ {s}, cur |-> NoSession, at |-> "cancel"]
        /\ reader' = [reader EXCEPT ![s] = IF @ = "deleting" THEN "returned" ELSE @]
        /\ UNCHANGED <<mcpHandler, session, caller, lastSampling, started, received, now>>
    BY DEF RemoveSession, calls
  <1>3. TypeOK'
    BY <1>1, <1>2 DEF TypeOK
  <1>4. DeletionInv'
    BY <1>1, <1>2, SessionsAssumption DEF DeletionInv
  <1> QED BY <1>2, <1>3, <1>4, NothingIsSent DEF McpInv

-----------------------------------------------------------------------------
(* The SSE handlers. *)
LEMMA ReadKeeps ==
    ASSUME McpInv, NEW s \in Sessions, ReadEvent(s)
    PROVE  McpInv'
  <1> DEFINE q == session[s].Notifier
  <1>1. TypeOK /\ DeletionInv /\ ReportInv /\ EventInv
    BY DEF McpInv
  <1>2. session[s] \in Session /\ q \in Seq(Event)
    BY <1>1, SessionFields DEF TypeOK, Session
  <1>3. /\ q # << >>
        /\ received' = [received EXCEPT ![s] = Head(q)]
        /\ session' = [session EXCEPT ![s] = [session[s] EXCEPT !.Notifier = Tail(q)]]
        /\ UNCHANGED <<mcpHandler, sessions, deletion, reader, caller, lastSampling,
                       started, now>>
    BY <1>1 DEF ReadEvent, calls, TypeOK
  <1>4. /\ Tail(q) \in Seq(Event) /\ Head(q) \in Event /\ Len(Tail(q)) < Len(q)
        /\ Head(q) = q[1] /\ 1 \in DOMAIN q
        /\ \A i \in DOMAIN Tail(q) : /\ Tail(q)[i] = q[i + 1]
                                     /\ i \in Nat \ {0} /\ i + 1 \in DOMAIN q
    BY <1>2, <1>3
  <1>5. [session[s] EXCEPT !.Notifier = Tail(q)] \in Session
    BY <1>2, <1>4, SessionFields
  <1>6. /\ session' \in [Sessions -> Session]
        /\ session'[s] = [session[s] EXCEPT !.Notifier = Tail(q)]
        /\ \A t \in Sessions \ {s} : session'[t] = session[t]
    BY <1>1, <1>3, <1>5, SessionStep
  <1>7. /\ session'[s].Notifier = Tail(q)
        /\ session'[s].canceled = session[s].canceled
        /\ session'[s].closed = session[s].closed
    BY <1>2, <1>4, <1>6, SessionFields
  <1>8. received'[s] = q[1] /\ \A t \in Sessions \ {s} : received'[t] = received[t]
    BY <1>1, <1>3, <1>4 DEF TypeOK
  <1>9. TypeOK'
    <2>1. received' \in [Sessions -> Event \cup {0}]
      BY <1>1, <1>3, <1>4 DEF TypeOK
    <2>2. \A t \in Sessions : Len(session'[t].Notifier) <= NotifierCap
      <3>1. Len(q) \in Nat /\ Len(Tail(q)) \in Nat /\ Len(q) <= NotifierCap
        BY <1>1, <1>2, <1>4 DEF TypeOK
      <3>2. Len(session'[s].Notifier) <= NotifierCap
        BY <1>4, <1>7, <3>1, SessionsAssumption
      <3> QED BY <1>1, <1>6, <3>2 DEF TypeOK
    <2> QED BY <1>1, <1>3, <1>6, <2>1, <2>2 DEF TypeOK
  <1>10. DeletionInv'
    BY <1>1, <1>3, <1>6, <1>7 DEF DeletionInv
  <1>11. ReportInv'
    BY <1>1, <1>3 DEF ReportInv, HoldsSamplingMu, ReportsAreApart
  <1>12. \A n \in Int : UpTo(s, n) => UpTo(s, n)'
    BY <1>4, <1>7, <1>8 DEF UpTo
  <1>13. Increasing(s)'
    <2> SUFFICES /\ \A i \in DOMAIN Tail(q) : q[1] < Tail(q)[i]
                 /\ \A i, j \in DOMAIN Tail(q) : i < j => Tail(q)[i] < Tail(q)[j]
      BY <1>7, <1>8 DEF Increasing
    <2>1. \A i, j \in DOMAIN q : i < j => q[i] < q[j]
      BY <1>1 DEF EventInv, Increasing
    <2>2. \A i \in DOMAIN Tail(q) : 1 < i + 1
      BY <1>4
    <2>3. \A i, j \in DOMAIN Tail(q) : i < j => i + 1 < j + 1
      BY <1>4
    <2> QED BY <1>4, <2>1, <2>2, <2>3
  <1>14. EventInv'
    <2>1. Len(started) \in Int /\ Len(started) - 1 \in Int /\ started' = started
      BY <1>1, <1>3 DEF TypeOK
    <2>2. \A c \in Callers, t \in Sessions : Awaits(c, t)' <=> Awaits(c, t)
      BY <1>3 DEF Awaits
    <2>3. \A t \in Sessions \ {s} : \A n :
            (Increasing(t)' <=> Increasing(t)) /\ (UpTo(t, n)' <=> UpTo(t, n))
      BY <1>6, <1>8 DEF Increasing, UpTo
    <2> QED BY <1>1, <1>12, <1>13, <2>1, <2>2, <2>3 DEF EventInv
  <1> QED BY <1>9, <1>10, <1>11, <1>14 DEF McpInv

(* The stream of a session finds it closed, or loses its client.              *)
LEMMA ReaderKeeps ==
    ASSUME McpInv, NEW s \in Sessions, ReadClosed(s) \/ ClientDisconnects(s)
    PROVE  McpInv'
  <1>1. /\ reader' \in [Sessions -> {"none", "reading", "leaving", "deleting", "returned"}]
        /\ UNCHANGED <<mcpHandler, session, sessions, deletion, caller, lastSampling,
                       started, received, now>>
    BY DEF ReadClosed, ClientDisconnects, managed, calls, McpInv, TypeOK
  <1>2. TypeOK' /\ DeletionInv'
    BY <1>1 DEF McpInv, TypeOK, DeletionInv
  <1> QED BY <1>1, <1>2, NothingIsSent DEF McpInv

(* Time passes.                                                               *)
LEMMA TickKeeps ==
    ASSUME McpInv, Tick
    PROVE  McpInv'
  <1>1. TypeOK /\ DeletionInv /\ ReportInv /\ EventInv
    BY DEF McpInv
  <1>2. /\ now \in Nat /\ now' = now + 1 /\ now' \in 1 .. MaxTime
        /\ UNCHANGED <<mcpHandler, session, sessions, deletion, reader, caller,
                       lastSampling, started, received>>
    BY <1>1, SessionsAssumption DEF Tick, managed, calls, TypeOK
  <1>3. TypeOK' /\ DeletionInv'
    BY <1>1, <1>2 DEF TypeOK, DeletionInv
  <1>4. \A p \in Providers : lastSampling[p] \in Nat /\ lastSampling[p] <= now'
    BY <1>1, <1>2 DEF TypeOK, ReportInv
  <1>5. ReportInv'
    BY <1>1, <1>2, <1>4 DEF ReportInv, HoldsSamplingMu, ReportsAreApart
  <1>6. EventInv'
    BY <1>1, <1>2 DEF EventInv, Increasing, UpTo, Awaits
  <1> QED BY <1>3, <1>5, <1>6 DEF McpInv

-----------------------------------------------------------------------------
(* The callback. *)
CallerState ==
    [pc : {"idle", "waiting", "snapshot", "sending", "panicked"},
     provider : Providers, event : Event \cup {0}, todo : SUBSET Sessions]

(* A step of one goroutine leaves the places of the others.                   *)
LEMMA OthersStay ==
    ASSUME TypeOK, NEW c \in Callers, NEW x, caller' = [caller EXCEPT ![c] = x]
    PROVE  caller'[c] = x /\ \A d \in Callers \ {c} : caller'[d] = caller[d]
  BY DEF TypeOK

(* A caller goes on, is done or asks for the mutex: it holds the mutex        *)
(* afterwards only if it did before, and awaits no session it did not.        *)
LEMMA CallerMoves ==
    ASSUME McpInv, NEW c \in Callers, NEW x \in CallerState,
           caller' = [caller EXCEPT ![c] = x],
           x.pc \in {"snapshot", "sending"} =>
             HoldsSamplingMu(c) /\ x.event = caller[c].event,
           \A s \in Sessions :
             x.pc = "snapshot" \/ (x.pc = "sending" /\ s \in x.todo) => Awaits(c, s),
           UNCHANGED <<managed, reader, lastSampling, started, received, now>>
    PROVE  McpInv'
  <1>1. TypeOK /\ DeletionInv /\ ReportInv /\ EventInv
    BY DEF McpInv
  <1>2. UNCHANGED <<mcpHandler, session, sessions, deletion>>
    BY DEF managed
  <1>3. caller'[c] = x /\ \A d \in Callers \ {c} : caller'[d] = caller[d]
    BY <1>1, OthersStay
  <1>4. TypeOK'
    BY <1>1, <1>2 DEF TypeOK, CallerState
  <1>5. DeletionInv'
    BY <1>1, <1>2 DEF DeletionInv
  <1>6. \A d \in Callers : HoldsSamplingMu(d)' =>
          HoldsSamplingMu(d) /\ caller'[d].event = caller[d].event
    BY <1>3 DEF HoldsSamplingMu
  <1>7. ReportInv'
    BY <1>1, <1>6 DEF ReportInv, ReportsAreApart
  <1>8. \A d \in Callers, s \in Sessions : Awaits(d, s)' => Awaits(d, s)
    BY <1>3 DEF Awaits
  <1>9. EventInv'
    BY <1>1, <1>2, <1>8 DEF EventInv, Increasing, UpTo
  <1> QED BY <1>4, <1>5, <1>7, <1>9 DEF McpInv

(* A goroutine asks to report.                                                *)
LEMMA CallKeeps ==
    ASSUME McpInv, NEW c \in Callers, NEW p \in Providers, Call(c, p)
    PROVE  McpInv'
  <1> DEFINE x == [caller[c] EXCEPT !.pc = "waiting", !.provider = p]
  <1>1. caller[c] \in CallerState
    BY DEF McpInv, TypeOK, CallerState
  <1>2. x \in CallerState /\ x.pc = "waiting"
    BY <1>1 DEF CallerState
  <1>3. caller' = [caller EXCEPT ![c] = x]
    BY DEF Call, McpInv, TypeOK
  <1> HIDE DEF x
  <1> QED BY <1>2, <1>3, CallerMoves DEF Call

(* A goroutine has reported.                                                  *)
LEMMA ReturnKeeps ==
    ASSUME McpInv, NEW c \in Callers, NEW pc \in {"idle", "panicked"}, Return(c, pc),
           UNCHANGED <<managed, reader, lastSampling, started, received, now>>
    PROVE  McpInv'
  <1> DEFINE x == [caller[c] EXCEPT !.pc = pc, !.event = 0, !.todo = {}]
  <1>1. caller[c] \in CallerState
    BY DEF McpInv, TypeOK, CallerState
  <1>2. x \in CallerState /\ x.pc \in {"idle", "panicked"}
    BY <1>1 DEF CallerState
  <1>3. caller' = [caller EXCEPT ![c] = x]
    BY DEF Return, McpInv, TypeOK
  <1> HIDE DEF x
  <1> QED BY <1>2, <1>3, CallerMoves

(* The broadcast copies the sessions.                                         *)
LEMMA CopyKeeps ==
    ASSUME McpInv, NEW c \in Callers, CopySessions(c)
    PROVE  McpInv'
  <1> DEFINE x == [caller[c] EXCEPT !.pc = "sending", !.todo = sessions]
  <1>1. caller[c] \in CallerState /\ sessions \subseteq Sessions
    BY DEF McpInv, TypeOK, CallerState
  <1>2. x \in CallerState /\ x.pc = "sending" /\ x.event = caller[c].event
    BY <1>1 DEF CallerState
  <1>3. caller' = [caller EXCEPT ![c] = x]
    BY DEF CopySessions, McpInv, TypeOK
  <1>4. caller[c].pc = "snapshot"
    BY DEF CopySessions
  <1> HIDE DEF x
  <1> QED BY <1>2, <1>3, <1>4, CallerMoves DEF CopySessions, HoldsSamplingMu, Awaits

(* The broadcast passes over a session.                                       *)
LEMMA PassKeeps ==
    ASSUME McpInv, NEW c \in Callers, NEW s \in Sessions, PassOver(c, s)
    PROVE  McpInv'
  <1> DEFINE x == [caller[c] EXCEPT !.todo = @ \ {s}]
  <1>1. caller[c] \in CallerState /\ caller[c].pc = "sending"
    BY DEF McpInv, TypeOK, CallerState, PassOver, Sending
  <1>2. /\ x \in CallerState /\ x.pc = "sending" /\ x.event = caller[c].event
        /\ x.todo \subseteq caller[c].todo
    BY <1>1 DEF CallerState
  <1>3. caller' = [caller EXCEPT ![c] = x]
    BY DEF PassOver, Sent, McpInv, TypeOK
  <1> HIDE DEF x
  <1> QED BY <1>1, <1>2, <1>3, CallerMoves DEF PassOver, HoldsSamplingMu, Awaits

(* A report: nobody else holds the mutex, and the last one of the provider    *)
(* lies Cooldown back.                                                        *)
LEMMA ReportKeeps ==
    ASSUME McpInv, NEW c \in Callers, Report(c)
    PROVE  McpInv'
  <1> DEFINE p == caller[c].provider
  <1>1. TypeOK /\ DeletionInv /\ ReportInv /\ EventInv
    BY DEF McpInv
  <1>2. /\ caller[c] \in CallerState /\ p \in Providers
        /\ now \in Nat /\ now \in 1 .. MaxTime
        /\ started \in Seq([provider : Providers, at : 1 .. MaxTime])
    BY <1>1, SessionsAssumption DEF TypeOK, CallerState
  <1>3. /\ \A d \in Callers : ~HoldsSamplingMu(d)
        /\ ~CoolingDown(p)
        /\ lastSampling' = [lastSampling EXCEPT ![p] = now]
        /\ UNCHANGED <<mcpHandler, session, sessions, deletion, reader, received, now>>
    BY DEF Report, managed
  <1>4. /\ lastSampling'[p] = now
        /\ \A r \in Providers : lastSampling[r] \in Nat /\ lastSampling[r] <= lastSampling'[r]
                                /\ lastSampling'[r] <= now
        /\ lastSampling' \in [Providers -> 0 .. MaxTime]
    BY <1>1, <1>2, <1>3, SessionsAssumption DEF TypeOK, ReportInv
  <1>5. DeletionInv'
    BY <1>1, <1>3 DEF DeletionInv
  <1>6. \A i \in DOMAIN started :
          /\ started[i].provider \in Providers /\ started[i].at \in 1 .. MaxTime
          /\ started[i].at <= lastSampling'[started[i].provider]
    <2> SUFFICES ASSUME NEW i \in DOMAIN started
                 PROVE  /\ started[i].provider \in Providers /\ started[i].at \in 1 .. MaxTime
                        /\ started[i].at <= lastSampling'[started[i].provider]
      OBVIOUS
    <2>1. started[i] \in [provider : Providers, at : 1 .. MaxTime]
      BY <1>2, ElementTyped
    <2>2. started[i].at <= lastSampling[started[i].provider]
      BY <1>1 DEF ReportInv
    <2> QED BY <1>4, <2>1, <2>2, SessionsAssumption
  <1>7. CASE mcpHandler
    <2> DEFINE x == [caller[c] EXCEPT !.pc = "snapshot", !.event = Len(started) + 1]
    <2> DEFINE new == [provider |-> p, at |-> now]
    <2>1. caller' = [caller EXCEPT ![c] = x] /\ started' = Append(started, new)
      BY <1>1, <1>7 DEF Report, Broadcast, TypeOK
    <2>2. /\ x \in CallerState /\ x.pc = "snapshot" /\ x.event = Len(started) + 1
          /\ Len(started) \in Nat
      <3>1. Len(started) \in Nat /\ Len(started) + 1 \in Event
        BY <1>2 DEF Event
      <3> QED BY <1>2, <3>1 DEF CallerState
    <2>3. caller'[c] = x /\ \A d \in Callers \ {c} : caller'[d] = caller[d]
      BY <1>1, <2>1, OthersStay
    <2>4. /\ new \in [provider : Providers, at : 1 .. MaxTime]
          /\ started' \in Seq([provider : Providers, at : 1 .. MaxTime])
          /\ Len(started') = Len(started) + 1
          /\ DOMAIN started' = 1 .. Len(started) + 1
          /\ DOMAIN started = 1 .. Len(started)
          /\ started'[Len(started) + 1] = new
          /\ \A i \in DOMAIN started : started'[i] = started[i]
      BY <1>2, <2>1
    <2>5. new.provider = p /\ new.at = now
      OBVIOUS
    <2> HIDE DEF x, new
    <2>6. TypeOK'
      BY <1>1, <1>3, <1>4, <2>1, <2>2, <2>4 DEF TypeOK, CallerState
    <2>7. \A d \in Callers : HoldsSamplingMu(d)' => d = c
      BY <1>3, <2>3 DEF HoldsSamplingMu
    <2>8. ReportsAreApart'
      <3> SUFFICES ASSUME NEW i \in DOMAIN started', NEW j \in DOMAIN started',
                          i < j, started'[i].provider = started'[j].provider
                   PROVE  started'[j].at - started'[i].at >= Cooldown
        BY DEF ReportsAreApart
      <3>1. i \in DOMAIN started /\ started'[i] = started[i]
        BY <2>2, <2>4
      <3>2. CASE j \in DOMAIN started
        BY <1>1, <2>4, <3>1, <3>2 DEF ReportInv, ReportsAreApart
      <3>3. CASE j = Len(started) + 1
        <4>1. started[i].provider = p /\ started'[j].at = now
          BY <2>4, <2>5, <3>1, <3>3
        <4>2. /\ started[i].at <= lastSampling[p] /\ started[i].at \in Nat \ {0}
              /\ lastSampling[p] \in Nat
          BY <1>1, <1>2, <1>4, <1>6, <3>1, <4>1, SessionsAssumption DEF ReportInv
        <4>3. now - lastSampling[p] >= Cooldown
          BY <1>2, <1>3, <4>2, SessionsAssumption DEF CoolingDown
        <4> QED BY <1>2, <3>1, <4>1, <4>2, <4>3, SessionsAssumption
      <3> QED BY <2>2, <2>4, <3>2, <3>3
    <2>9. ReportInv'
      <3>1. \A d \in Callers : HoldsSamplingMu(d)' => caller'[d].event = Len(started')
        BY <2>2, <2>3, <2>4, <2>7
      <3>2. \A r \in Providers : lastSampling'[r] <= now'
        BY <1>3, <1>4
      <3>3. \A i \in DOMAIN started' : started'[i].at <= lastSampling'[started'[i].provider]
        <4> SUFFICES ASSUME NEW i \in DOMAIN started'
                     PROVE  started'[i].at <= lastSampling'[started'[i].provider]
          OBVIOUS
        <4>1. CASE i \in DOMAIN started
          BY <1>6, <2>4, <4>1
        <4>2. CASE i = Len(started) + 1
          BY <1>2, <1>4, <2>4, <2>5, <4>2
        <4> QED BY <2>2, <2>4, <4>1, <4>2
      <3> QED BY <2>7, <2>8, <3>1, <3>2, <3>3 DEF ReportInv
    <2>10. PICK n \in Nat : n = Len(started)
      BY <2>2
    <2>11. \A s \in Sessions : Increasing(s)' /\ UpTo(s, n)'
      BY <1>1, <1>3, <2>10 DEF EventInv, Increasing, UpTo
    <2>12. \A s \in Sessions : UpTo(s, n + 1)'
      <3> SUFFICES ASSUME NEW s \in Sessions PROVE UpTo(s, n + 1)'
        OBVIOUS
      <3>1. session[s].Notifier \in Seq(Event) /\ received[s] \in Nat
        BY <1>1 DEF TypeOK, Session, Event
      <3>2. \A i \in DOMAIN session[s].Notifier : session[s].Notifier[i] \in Nat
        BY <3>1, ElementTyped DEF Event
      <3>3. UpTo(s, n)
        BY <1>1, <2>10 DEF EventInv
      <3> QED BY <1>3, <3>1, <3>2, <3>3 DEF UpTo
    <2>13. Len(started') = n + 1 /\ Len(started') - 1 = n
      BY <2>4, <2>10
    <2>14. EventInv'
      BY <2>11, <2>12, <2>13 DEF EventInv
    <2> QED BY <1>5, <2>6, <2>9, <2>14 DEF McpInv
  <1>8. CASE ~mcpHandler
    <2>1. UNCHANGED started /\ Return(c, "idle")
      BY <1>8 DEF Report, Broadcast
    <2> DEFINE x == [caller[c] EXCEPT !.pc = "idle", !.event = 0, !.todo = {}]
    <2>2. caller' = [caller EXCEPT ![c] = x]
      BY <1>1, <2>1 DEF Return, TypeOK
    <2>3. x \in CallerState /\ x.pc = "idle"
      BY <1>2 DEF CallerState
    <2> HIDE DEF x
    <2>4. caller'[c] = x /\ \A d \in Callers \ {c} : caller'[d] = caller[d]
      BY <1>1, <2>2, OthersStay
    <2>5. TypeOK'
      BY <1>1, <1>3, <1>4, <2>1, <2>2, <2>3 DEF TypeOK, CallerState
    <2>6. \A d \in Callers : ~HoldsSamplingMu(d)'
      BY <1>3, <2>3, <2>4 DEF HoldsSamplingMu
    <2>7. ReportInv'
      BY <1>1, <1>3, <1>4, <1>6, <2>1, <2>6 DEF ReportInv, ReportsAreApart
    <2>8. \A d \in Callers, s \in Sessions : ~Awaits(d, s)'
      BY <2>6 DEF HoldsSamplingMu, Awaits
    <2>9. EventInv'
      BY <1>1, <1>3, <2>1, <2>8 DEF EventInv, Increasing, UpTo
    <2> QED BY <1>5, <2>5, <2>7, <2>9 DEF McpInv
  <1> QED BY <1>7, <1>8

(* A send: everything the session has been sent is older than this event. *)
LEMMA SendKeeps ==
    ASSUME McpInv, NEW c \in Callers, NEW s \in Sessions, SendEvent(c, s)
    PROVE  McpInv'
  <1> DEFINE q == session[s].Notifier
             e == caller[c].event
             x == [caller[c] EXCEPT !.todo = @ \ {s}]
  <1>1. TypeOK /\ DeletionInv /\ ReportInv /\ EventInv
    BY DEF McpInv
  <1>2. /\ caller[c] \in CallerState /\ caller[c].pc = "sending" /\ s \in caller[c].todo
        /\ session[s] \in Session /\ q \in Seq(Event)
        /\ Len(started) \in Nat
    BY <1>1 DEF SendEvent, Sending, TypeOK, CallerState, Session
  <1>3. PICK n \in Nat : n = Len(started)
    BY <1>2
  <1>4. e = n /\ UpTo(s, n - 1) /\ Increasing(s)
    BY <1>1, <1>2, <1>3 DEF ReportInv, HoldsSamplingMu, EventInv, Awaits
  <1>5. /\ Len(q) < NotifierCap
        /\ session' = [session EXCEPT ![s] = [session[s] EXCEPT !.Notifier = Append(q, e)]]
        /\ caller' = [caller EXCEPT ![c] = x]
        /\ UNCHANGED <<mcpHandler, sessions, deletion, reader, lastSampling, started,
                       received, now>>
    BY <1>1 DEF SendEvent, Sent, TypeOK
  <1>6. received[s] \in Nat /\ \A i \in DOMAIN q : q[i] \in Nat \ {0}
    BY <1>1, <1>2, ElementTyped DEF TypeOK, Event
  <1>7. e \in Event
    BY <1>3, <1>4, <1>6 DEF UpTo, Event
  <1>8. /\ Append(q, e) \in Seq(Event) /\ Len(Append(q, e)) = Len(q) + 1 /\ Len(q) \in Nat
        /\ DOMAIN Append(q, e) = 1 .. Len(q) + 1 /\ DOMAIN q = 1 .. Len(q)
        /\ Append(q, e)[Len(q) + 1] = e
        /\ \A i \in DOMAIN q : Append(q, e)[i] = q[i]
    BY <1>2, <1>7
  <1>9. /\ x \in CallerState /\ x.pc = "sending" /\ x.event = e
        /\ x.todo = caller[c].todo \ {s}
    BY <1>2 DEF CallerState
  <1> HIDE DEF x, e
  <1>10. caller'[c] = x /\ \A d \in Callers \ {c} : caller'[d] = caller[d]
    BY <1>1, <1>5, OthersStay
  <1>11. /\ session' \in [Sessions -> Session]
         /\ session'[s] = [session[s] EXCEPT !.Notifier = Append(q, e)]
         /\ \A t \in Sessions \ {s} : session'[t] = session[t]
    BY <1>1, <1>2, <1>5, <1>8, SessionFields, SessionStep
  <1>12. /\ session'[s].Notifier = Append(q, e)
         /\ session'[s].canceled = session[s].canceled
         /\ session'[s].closed = session[s].closed
    BY <1>2, <1>8, <1>11, SessionFields
  <1>13. TypeOK'
    <2>1. Len(session'[s].Notifier) <= NotifierCap
      BY <1>5, <1>8, <1>12, SessionsAssumption
    <2>2. \A t \in Sessions : Len(session'[t].Notifier) <= NotifierCap
      BY <1>1, <1>11, <2>1 DEF TypeOK
    <2>3. caller' \in [Callers -> CallerState]
      BY <1>1, <1>5, <1>9 DEF TypeOK, CallerState
    <2> QED BY <1>1, <1>5, <1>11, <2>2, <2>3 DEF TypeOK, CallerState
  <1>14. DeletionInv'
    BY <1>1, <1>5, <1>11, <1>12 DEF DeletionInv
  <1>15. \A d \in Callers : HoldsSamplingMu(d)' =>
           HoldsSamplingMu(d) /\ caller'[d].event = caller[d].event
    BY <1>2, <1>9, <1>10 DEF HoldsSamplingMu, e
  <1>16. ReportInv'
    BY <1>1, <1>5, <1>15 DEF ReportInv, ReportsAreApart
  <1>17. Increasing(s)'
    <2> SUFFICES /\ \A i \in DOMAIN Append(q, e) : received[s] < Append(q, e)[i]
                 /\ \A i, j \in DOMAIN Append(q, e) :
                      i < j => Append(q, e)[i] < Append(q, e)[j]
      BY <1>5, <1>12 DEF Increasing
    <2>1. \A i \in DOMAIN q : q[i] < e
      BY <1>3, <1>4, <1>6 DEF UpTo
    <2>2. received[s] < e
      BY <1>3, <1>4, <1>6 DEF UpTo
    <2>3. /\ \A i \in DOMAIN q : received[s] < q[i]
          /\ \A i, j \in DOMAIN q : i < j => q[i] < q[j]
      BY <1>4 DEF Increasing
    <2>4. \A i \in DOMAIN Append(q, e) : i \in DOMAIN q \/ i = Len(q) + 1
      BY <1>8
    <2>5. \A i, j \in DOMAIN Append(q, e) : i < j => i \in DOMAIN q
      BY <1>8
    <2> QED BY <1>8, <2>1, <2>2, <2>3, <2>4, <2>5
  <1>18. UpTo(s, n)'
    <2>1. received[s] <= n /\ \A i \in DOMAIN q : q[i] <= n
      BY <1>3, <1>4, <1>6 DEF UpTo
    <2>2. \A i \in DOMAIN Append(q, e) : Append(q, e)[i] <= n
      BY <1>3, <1>4, <1>8, <2>1
    <2> QED BY <1>5, <1>12, <2>1, <2>2 DEF UpTo
  <1>19. \A d \in Callers : ~Awaits(d, s)'
    <2> SUFFICES ASSUME NEW d \in Callers, Awaits(d, s)' PROVE FALSE
      OBVIOUS
    <2>1. d = c
      BY <1>1, <1>2, <1>10 DEF ReportInv, HoldsSamplingMu, Awaits
    <2> QED BY <1>9, <1>10, <2>1 DEF Awaits
  <1>20. \A t \in Sessions \ {s} :
           /\ \A m : (Increasing(t)' <=> Increasing(t)) /\ (UpTo(t, m)' <=> UpTo(t, m))
           /\ \A d \in Callers : Awaits(d, t)' => Awaits(d, t)
    BY <1>2, <1>5, <1>9, <1>10, <1>11 DEF Increasing, UpTo, Awaits
  <1>21. EventInv'
    BY <1>1, <1>3, <1>5, <1>17, <1>18, <1>19, <1>20 DEF EventInv
  <1> QED BY <1>13, <1>14, <1>16, <1>21 DEF McpInv

-----------------------------------------------------------------------------
(* There is no session at first.                                              *)
LEMMA InitMcpInv == Init => McpInv
  <1> SUFFICES ASSUME Init PROVE McpInv
    OBVIOUS
  <1>1. \A c \in Callers : /\ caller[c] \in CallerState
                           /\ caller[c].pc = "idle"
    BY DEF Init, CallerState
  <1>2. 1 \in 1 .. MaxTime /\ 0 \in 0 .. MaxTime /\ 0 <= NotifierCap
    BY SessionsAssumption
  <1>3. \A s \in Sessions : /\ session[s] \in Session
                            /\ session[s].Notifier = << >>
                            /\ ~session[s].canceled /\ ~session[s].closed
    BY <1>2 DEF Init, Session
  <1>4. caller \in [Callers -> CallerState]
    BY <1>1 DEF Init
  <1>5. TypeOK
    <2>1. session \in [Sessions -> Session]
      BY <1>3 DEF Init
    <2>2. \A s \in Sessions : Len(session[s].Notifier) <= NotifierCap
      BY <1>2, <1>3
    <2>3. started \in Seq([provider : Providers, at : 1 .. MaxTime])
      BY DEF Init
    <2> QED BY <1>2, <1>4, <2>1, <2>2, <2>3 DEF Init, TypeOK, CallerState, Event
  <1>6. DeletionInv
    BY <1>3, SessionsAssumption DEF Init, DeletionInv
  <1>7. ReportInv
    BY <1>1 DEF Init, ReportInv, HoldsSamplingMu, ReportsAreApart
  <1>8. EventInv
    BY <1>1, <1>3 DEF Init, EventInv, Increasing, UpTo, Awaits
  <1> QED BY <1>5, <1>6, <1>7, <1>8 DEF McpInv

(* Every step.                                                                *)
LEMMA NextKeeps ==
    ASSUME McpInv, [Next]_vars
    PROVE  McpInv'
  <1>1. ASSUME NEW s \in Sessions, \E pc \in {"none", "reading"} : CreateSession(s, pc)
        PROVE  McpInv'
    BY <1>1, CreateKeeps
  <1>2. ASSUME NEW s \in Sessions,
               GetSession(s) \/ DeletionStep(s) \/ DeleteSession(s)
        PROVE  McpInv'
    BY <1>2, GetKeeps, DeleteKeeps, CancelKeeps, CloseKeeps, RemoveKeeps DEF DeletionStep
  <1>3. ASSUME NEW s \in Sessions, ReaderStep(s) \/ ClientDisconnects(s)
        PROVE  McpInv'
    BY <1>3, ReadKeeps, ReaderKeeps DEF ReaderStep
  <1>4. ASSUME NEW c \in Callers, \E p \in Providers : Call(c, p)
        PROVE  McpInv'
    BY <1>4, CallKeeps
  <1>5. ASSUME NEW c \in Callers, Acquire(c)
        PROVE  McpInv'
    <2>1. CASE SkipReport(c)
      BY <2>1, ReturnKeeps DEF SkipReport
    <2>2. CASE Report(c)
      BY <2>2, ReportKeeps
    <2> QED BY <1>5, <2>1, <2>2 DEF Acquire
  <1>6. ASSUME NEW c \in Callers, BroadcastStep(c)
        PROVE  McpInv'
    <2>1. CASE CopySessions(c)
      BY <2>1, CopyKeeps
    <2>2. ASSUME NEW s \in Sessions, SendEvent(c, s) PROVE McpInv'
      BY <2>2, SendKeeps
    <2>3. ASSUME NEW s \in Sessions, PassOver(c, s) PROVE McpInv'
      BY <2>3, PassKeeps
    <2>4. ASSUME NEW s \in Sessions, SendPanics(c, s) PROVE McpInv'
      BY <2>4, ReturnKeeps DEF SendPanics
    <2>5. CASE EndBroadcast(c)
      BY <2>5, ReturnKeeps DEF EndBroadcast
    <2> QED BY <1>6, <2>1, <2>2, <2>3, <2>4, <2>5 DEF BroadcastStep
  <1>7. CASE UNCHANGED vars
    <2>1. TypeOK' /\ DeletionInv'
      BY <1>7 DEF vars, McpInv, TypeOK, DeletionInv
    <2> QED BY <1>7, <2>1, NothingIsSent DEF vars, McpInv
  <1> QED BY <1>1, <1>2, <1>3, <1>4, <1>5, <1>6, <1>7, CleanupKeeps, TickKeeps DEF Next

(* The invariant the results below rest on. *)
THEOREM McpInvariance == Spec => []McpInv
  <1>1. Init => McpInv
    BY InitMcpInv
  <1>2. McpInv /\ [Next]_vars => McpInv'
    BY NextKeeps
  <1> QED BY <1>1, <1>2, PTL DEF Spec

(* Every variable of the sessions keeps its type, and no notifier holds more  *)
(* than its capacity (streamable.go: the select of the broadcast).            *)
THEOREM McpTypeCorrect == Spec => []TypeOK
  <1>1. McpInv => TypeOK
    BY DEF McpInv
  <1> QED BY <1>1, McpInvariance, PTL

(* However many goroutines find a provider failing, its reports lie a         *)
(* cooldown apart (OnPersistentFailure, under samplingMu).                    *)
THEOREM ReportsStayApart == Spec => []ReportsAreApart
  <1>1. McpInv => ReportsAreApart
    BY DEF McpInv, ReportInv
  <1> QED BY <1>1, McpInvariance, PTL

(* However many goroutines report, a session gets each broadcast once at most *)
(* and all of them in order (broadcastSamplingRequest, under samplingMu).     *)
THEOREM EventsStayInOrder == Spec => []EventsInOrder
  <1>1. McpInv => EventsInOrder
    <2> SUFFICES ASSUME McpInv, NEW s \in Sessions
                 PROVE  LET events == <<received[s]>> \o session[s].Notifier
                        IN  \A i, j \in DOMAIN events : i < j => events[i] < events[j]
      BY DEF EventsInOrder
    <2>1. received[s] \in Nat /\ session[s].Notifier \in Seq(Event)
      BY DEF McpInv, TypeOK, Session, Event
    <2>2. Increasing(s)
      BY DEF McpInv, EventInv
    <2> QED BY <2>1, <2>2, IncreasingIsInOrder DEF Increasing
  <1> QED BY <1>1, McpInvariance, PTL

(* A notifier is closed once, whoever deletes its session (deleteSession and  *)
(* the cleanup, under the lock of the manager).                               *)
THEOREM NotifiersAreClosedOnce == Spec => NotifierClosedOnce
  <1> DEFINE Step == \A s \in Sessions : CloseNotifier(s) => ~session[s].closed
  <1>1. McpInv /\ [Next]_vars => [Step]_vars
    BY DEF McpInv, DeletionInv, CloseNotifier
  <1> QED BY <1>1, McpInvariance, PTL DEF Spec, NotifierClosedOnce
=============================================================================
