----------------------------- MODULE AsyncQueue -----------------------------
(* What a queue that is written behind the back of its callers promises: what *)
(* it takes it takes while it is open, it deals with what it has taken and    *)
(* with nothing else, once, and whoever closes it goes on only when nothing   *)
(* taken is left.  The statistics and the log of the program are two of them. *)
CONSTANT Items

VARIABLES
    phase,          \* new, open, sealed, returned; dead: the program crashed
    taken,
    handled

vars == <<phase, taken, handled>>

AsyncInit ==
    /\ phase = "new"
    /\ taken = {}
    /\ handled = {}

Open ==
    /\ phase = "new"
    /\ phase' = "open"
    /\ UNCHANGED <<taken, handled>>

Take(item) ==
    /\ phase = "open"
    /\ item \notin taken
    /\ taken' = taken \cup {item}
    /\ UNCHANGED <<phase, handled>>

(* One item or a batch of them. *)
Handle ==
    /\ phase \in {"open", "sealed"}
    /\ handled \subseteq handled'
    /\ handled' \subseteq taken
    /\ UNCHANGED <<phase, taken>>

Seal ==
    /\ phase = "open"
    /\ phase' = "sealed"
    /\ UNCHANGED <<taken, handled>>

(* A queue that was never opened is closed at once. *)
Return ==
    /\ phase \in {"new", "sealed"}
    /\ handled = taken
    /\ phase' = "returned"
    /\ UNCHANGED <<taken, handled>>

Die ==
    /\ phase' = "dead"
    /\ UNCHANGED <<taken, handled>>

AsyncNext ==
    \/ Open
    \/ \E item \in Items : Take(item)
    \/ Handle
    \/ Seal
    \/ Return
    \/ Die

AsyncSpec == AsyncInit /\ [][AsyncNext]_vars
=============================================================================
