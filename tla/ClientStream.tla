---------------------------- MODULE ClientStream ----------------------------
(* What the client of a streaming request is promised, whatever models are    *)
(* tried for it (chatCompletionsHandler of main.go and Stream of              *)
(* proxy/proxy.go as their caller sees them): the lines of one model, none    *)
(* before there is content among them and none but blanks behind its [DONE],  *)
(* and an end; or one failure and nothing else.  The end is one [DONE], said  *)
(* by the model or in its place by the handler, with one exception the code   *)
(* makes: a model that breaks off behind its own [DONE] leaves its client     *)
(* with an error and a second one (BreakLate).  StreamRelay implements this.  *)
EXTENDS Naturals, Sequences

CONSTANT Models         \* the numbers of the models that may be tried, from 1

VARIABLES
    model,      \* the one the client hears, 0 before its first line
    heard,      \* what the client has received, line by line
    over,       \* nothing more will come
    gone        \* because the client has disconnected

clientVars == <<model, heard, over, gone>>

ClientInit ==
    /\ model = 0
    /\ heard = << >>
    /\ over = FALSE
    /\ gone = FALSE

(* What comes next was said by m, and only blanks behind a [DONE]. *)
GrowsBy(m) ==
    /\ Len(heard') >= Len(heard)
    /\ \A i \in DOMAIN heard : heard'[i] = heard[i]
    /\ \A i \in Len(heard) + 1 .. Len(heard') :
         /\ heard'[i].from = m
         /\ (\E j \in 1 .. i - 1 : heard'[j].line = "done") => heard'[i].line = "blank"

IsEnded == \E i \in DOMAIN heard : heard[i].line = "done"

(* The first lines of a model come together, with the first content last.     *)
Hear(m) ==
    /\ ~over
    /\ model \in {0, m}
    /\ model' = m
    /\ GrowsBy(m)
    /\ heard' # heard
    /\ model = 0 => heard'[Len(heard')].line = "content"
    /\ UNCHANGED <<over, gone>>

(* The client is gone, and may have been in the middle of some lines. *)
Lose(m) ==
    /\ ~over
    /\ over' = TRUE
    /\ gone' = TRUE
    /\ GrowsBy(m)
    /\ IF heard' = heard THEN UNCHANGED model
       ELSE model \in {0, m} /\ model' = m

(* The model ended its answer, or the handler does in its place. *)
Finish ==
    /\ ~over
    /\ model # 0
    /\ over' = TRUE
    /\ heard' = IF IsEnded THEN heard ELSE Append(heard, [from |-> 0, line |-> "done"])
    /\ UNCHANGED <<model, gone>>

TheClientIsTold ==
    /\ ~over
    /\ model # 0
    /\ over' = TRUE
    /\ heard' = heard \o << [from |-> 0, line |-> "error"], [from |-> 0, line |-> "done"] >>
    /\ UNCHANGED <<model, gone>>

(* The model broke off before its end: the client is told, and that is the    *)
(* end.                                                                       *)
BreakOff == ~IsEnded /\ TheClientIsTold

(* It broke off behind its end: the client, which has heard the end, is told  *)
(* all the same and hears another one.                                        *)
BreakLate == IsEnded /\ TheClientIsTold

(* No model had anything to say. *)
Refuse ==
    /\ ~over
    /\ model = 0
    /\ over' = TRUE
    /\ heard' = << [from |-> 0, line |-> "failure500"] >>
    /\ UNCHANGED <<model, gone>>

ClientNext ==
    \/ \E m \in Models : Hear(m) \/ Lose(m)
    \/ Finish
    \/ BreakOff
    \/ BreakLate
    \/ Refuse

ClientSpec == ClientInit /\ [][ClientNext]_clientVars
=============================================================================
