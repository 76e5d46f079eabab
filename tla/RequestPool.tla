----------------------------- MODULE RequestPool -----------------------------
(* The pool of request objects (readProxyRequest and the handlers of main.go, *)
(* RequestPool of proxy.go).  An object is taken from the pool, some of its   *)
(* fields are reset, the body of a request is decoded into it, the handler    *)
(* serves what the object then says, and the object goes back.  encoding/json *)
(* leaves a field alone that the body does not name, and an element of a      *)
(* slice is decoded over what an earlier element has left in its place.       *)
EXTENDS Naturals, SequencesExt

CONSTANTS
    Handlers,       \* handlers under way at one time
    Objects,        \* the request objects there may be
    Values,         \* of a field, of the tool calls of a message
    Zero,           \* the value of a field of a new object, and what a body
                    \* that does not name the field says of it
    MaxMessages     \* bound: the messages of a body

(* The field provider stands for every other field the reset names, with      *)
(* model, tools and the numbers; stream chooses the function that serves.     *)
ResetFields == {"provider", "stream", "probe"}
Fields      == ResetFields \cup {"is_warmup"}

(* calls: the optional parts of each message, of which tool_calls is one.     *)
Body == [fields : [Fields -> Values \cup {Zero}],
         calls  : SeqOf(Values \cup {Zero}, MaxMessages)]

(* len(Messages), and the array behind it, to its capacity and beyond. *)
Object == [fields : [Fields -> Values \cup {Zero}],
           len    : 0 .. MaxMessages,
           calls  : [1 .. MaxMessages -> Values \cup {Zero}]]

NewObject == [fields |-> [f \in Fields |-> Zero], len |-> 0,
              calls  |-> [i \in 1 .. MaxMessages |-> Zero]]

VARIABLES
    pool,           \* the objects in the pool
    object,         \* the contents of each object
    handler         \* what each handler does, and with which object

poolVars == <<pool, object, handler>>

HandlerState ==
    [pc : {"idle", "reset", "serving"}, obj : Objects, body : Body]

(* The objects a handler works with. *)
Used == {handler[h].obj : h \in {g \in Handlers : handler[g].pc # "idle"}}

PoolTypeOK ==
    /\ pool \subseteq Objects
    /\ object \in [Objects -> Object]
    /\ handler \in [Handlers -> HandlerState]

PoolInit ==
    /\ pool = {}
    /\ object = [o \in Objects |-> NewObject]
    /\ handler \in [Handlers -> HandlerState]
    /\ \A h \in Handlers : handler[h].pc = "idle"

-----------------------------------------------------------------------------
(* Get returns some object of the pool or, whatever that holds, a new one.    *)
Get(h) ==
    /\ handler[h].pc = "idle"
    /\ \E o \in Objects \ Used, body \in Body :
         /\ object' = IF o \in pool THEN object ELSE [object EXCEPT ![o] = NewObject]
         /\ pool' = pool \ {o}
         /\ handler' = [handler EXCEPT ![h] = [pc |-> "reset", obj |-> o, body |-> body]]

(* The pool forgets objects at any time. *)
Collect ==
    /\ \E o \in pool : pool' = pool \ {o}
    /\ UNCHANGED <<object, handler>>

Reset(o) ==
    [fields |-> [f \in Fields |-> IF f \in ResetFields THEN Zero ELSE o.fields[f]],
     len    |-> 0,
     calls  |-> o.calls]

Decode(body, o) ==
    [fields |-> [f \in Fields |-> IF body.fields[f] = Zero THEN o.fields[f]
                                  ELSE body.fields[f]],
     len    |-> Len(body.calls),
     calls  |-> [i \in 1 .. MaxMessages |->
                    IF i \in DOMAIN body.calls /\ body.calls[i] # Zero
                    THEN body.calls[i] ELSE o.calls[i]]]

(* readProxyRequest *)
ReadProxyRequest(h) ==
    LET o == handler[h].obj
    IN  /\ handler[h].pc = "reset"
        /\ object' = [object EXCEPT ![o] = Decode(handler[h].body, Reset(object[o]))]
        /\ handler' = [handler EXCEPT ![h].pc = "serving"]
        /\ UNCHANGED pool

(* A value of a wrong type is reported after the rest has been decoded.       *)
ReadFails(h) ==
    LET o == handler[h].obj
    IN  /\ handler[h].pc = "reset"
        /\ object' = [object EXCEPT ![o] = Decode(handler[h].body, Reset(object[o]))]
        /\ pool' = pool \cup {o}
        /\ handler' = [handler EXCEPT ![h].pc = "idle"]

(* The test handler makes a probe of its request. *)
MakeProbe(h, value) ==
    LET o == handler[h].obj
    IN  /\ handler[h].pc = "serving"
        /\ object' = [object EXCEPT ![o].fields["probe"] = value]
        /\ handler' = [handler EXCEPT ![h].body.fields["probe"] = value]
        /\ UNCHANGED pool

(* The handler returns: the deferred Put. *)
Put(h) ==
    /\ handler[h].pc = "serving"
    /\ pool' = pool \cup {handler[h].obj}
    /\ handler' = [handler EXCEPT ![h].pc = "idle"]
    /\ UNCHANGED object

PoolNext ==
    \/ Collect
    \/ \E h \in Handlers :
         \/ Get(h)
         \/ ReadProxyRequest(h)
         \/ ReadFails(h)
         \/ \E value \in Values : MakeProbe(h, value)
         \/ Put(h)

PoolSpec == PoolInit /\ [][PoolNext]_poolVars

-----------------------------------------------------------------------------
(* No two handlers work with one object, and none with one that the pool may  *)
(* give to another.                                                           *)
ObjectHasOneUser ==
    /\ \A g, h \in Handlers :
         /\ g # h
         /\ handler[g].pc # "idle"
         /\ handler[h].pc # "idle"
         => handler[g].obj # handler[h].obj
    /\ pool \cap Used = {}

(* What the reset names says what the body of this request says.              *)
Says(h, f) == object[handler[h].obj].fields[f] = handler[h].body.fields[f]

ResetFieldsAreOwn ==
    \A h \in Handlers : handler[h].pc = "serving" =>
        /\ \A f \in ResetFields : Says(h, f)
        /\ object[handler[h].obj].len = Len(handler[h].body.calls)

(* main.go: "Ensure we start with a clean state (but keep allocated slices    *)
(* capacity)": a request that is served says what its own body says, and      *)
(* nothing that an earlier request has left in the object.  (The code does    *)
(* not keep this one.)                                                        *)
RequestIsItsBody ==
    \A h \in Handlers : handler[h].pc = "serving" =>
        /\ \A f \in Fields : Says(h, f)
        /\ SubSeq(object[handler[h].obj].calls, 1, object[handler[h].obj].len)
             = handler[h].body.calls
=============================================================================
