---------------------------- MODULE MCMcpSessions ----------------------------
(* McpSessions for TLC, and a claim of a comment that the code does not keep. *)
EXTENDS McpSessions

(* streamable.go: "Don't try to send to a closed session".  The select that   *)
(* is to avoid it chooses at random between the context that is done and the  *)
(* channel that is closed.                                                    *)
NobodySendsToAClosedSession ==
    \A c \in Callers : caller[c].pc # "panicked"
=============================================================================
