----------------------------- MODULE EventStream -----------------------------
(***************************************************************************)
(* What the event log of a run promises its consumers: one totally ordered *)
(* stream of numbered events.  A consumer either takes the next number,    *)
(* catches up with a page, or is told to start again somewhere; its stream *)
(* ends cleanly only at the end of a closed log.                           *)
(***************************************************************************)
EXTENDS Integers

CONSTANTS Consumers, First, Top

VARIABLES
    latest,     \* the last event published
    closed,     \* no event will follow
    holds,      \* per consumer: the last event it holds
    stream      \* per consumer: "off", "on", "clean" or "broken"

vars == <<latest, closed, holds, stream>>

Init ==
    /\ latest = First
    /\ closed = FALSE
    /\ holds \in [Consumers -> 0 .. Top]
    /\ stream = [c \in Consumers |-> "off"]

Publish ==
    /\ ~closed
    /\ latest' = latest + 1
    /\ UNCHANGED <<closed, holds, stream>>

Close ==
    /\ closed' = TRUE
    /\ UNCHANGED <<latest, holds, stream>>

\* The next event, and no other, while the stream is on.
Take(c) ==
    /\ stream[c] = "on"
    /\ holds[c] < latest
    /\ holds' = [holds EXCEPT ![c] = @ + 1]
    /\ UNCHANGED <<latest, closed, stream>>

\* A page of the events that follow, and perhaps a stream from its end.
CatchUp(c) ==
    /\ stream[c] # "on"
    /\ \E last \in holds[c] .. latest : holds' = [holds EXCEPT ![c] = last]
    /\ \E s \in {"off", "on"} : stream' = [stream EXCEPT ![c] = s]
    /\ UNCHANGED <<latest, closed>>

\* The consumer asked from outside what is retained and starts again somewhere else.
Reset(c) ==
    /\ stream[c] # "on"
    /\ \E last \in 0 .. latest : holds' = [holds EXCEPT ![c] = last]
    /\ stream' = [stream EXCEPT ![c] = "off"]
    /\ UNCHANGED <<latest, closed>>

End(c) ==
    /\ stream[c] = "on"
    /\ \E s \in {"clean", "broken"} :
        /\ s = "clean" => closed /\ holds[c] = latest
        /\ stream' = [stream EXCEPT ![c] = s]
    /\ UNCHANGED <<latest, closed, holds>>

Next ==
    \/ Publish \/ Close
    \/ \E c \in Consumers : Take(c) \/ CatchUp(c) \/ Reset(c) \/ End(c)

Spec == Init /\ [][Next]_vars
=============================================================================
