---------------------------- MODULE LocalClient -----------------------------
(***************************************************************************)
(* The local client (client/localclient): Discovery and ExplicitDiscovery  *)
(* turn the endpoint store's answers into lazily opened connectors, and a  *)
(* Connector owns one channel and the sessions it returned.  Discoveries,  *)
(* initializations, session closes and the close of a discovery or of a    *)
(* connector interleave at the mutexes the code takes.                     *)
(*                                                                         *)
(* The endpoint store answers metadata, its exact absence or another       *)
(* error; the adapter's Initialize is one step that may fail.              *)
(***************************************************************************)
EXTENDS Integers

CONSTANTS
    Discoverers,    \* concurrent Discover calls
    Callers,        \* concurrent Initialize calls; each session is named by its caller
    Connectors,     \* connectors a discovery constructs, in order: 1..n
    Metadata,       \* endpoint descriptions; an address is one of them
    MaxCalls,       \* Discover calls begun
    None

VARIABLES
    disc,       \* the requested address of an ExplicitDiscovery (None for a Discovery), operation
                \* mutex, cached connector and its metadata, closed, whether Close returned
    finder,     \* per Discover call: pc, what the source answered, the connector to close
    conn,       \* per connector: metadata, channel, closed flag, Close's progress
    caller,     \* per Initialize call: pc, connector
    session,    \* per caller: none, raw (unregistered), open, closing, closed
    calls

vars == <<disc, finder, conn, caller, session, calls>>

Absent == [kind |-> "absent"]
Failed == [kind |-> "failed"]
Of(m) == [kind |-> "metadata", metadata |-> m]

NoConnector == [made |-> FALSE, metadata |-> None, channel |-> "none", closed |-> FALSE,
                close |-> "no", sessions |-> {}, taken |-> {}]
IdleFinder == [pc |-> "idle", answer |-> None, previous |-> None, result |-> None]

Go(d, pc) == finder' = [finder EXCEPT ![d].pc = pc]
Answer(d, r) == finder' = [finder EXCEPT ![d].pc = "answered", ![d].result = r]
Unlocked == disc' = [disc EXCEPT !.operation = None]

\* explicitEndpointSource.Discover: absence is wrapped, another address is refused.
explicitSource(a) ==
    IF disc.explicit = None THEN a
    ELSE IF a.kind = "metadata" /\ a.metadata = disc.explicit THEN a ELSE Failed

-----------------------------------------------------------------------------
(* Connector.Close and ownedSession.Close.                                 *)

\* Close takes the sessions and the channel under the lock, once.
Taken(k) == [conn EXCEPT ![k].closed = TRUE, ![k].close = "closing", ![k].taken = conn[k].sessions]
Closing(k) == IF conn[k].close = "no" THEN conn' = Taken(k) ELSE UNCHANGED conn

\* The sessions taken close, waiting for a close that already runs; then the channel.
CloseTaken(k, c) ==
    /\ conn[k].close = "closing" /\ c \in conn[k].taken /\ session[c] # "closing"
    /\ session' = [session EXCEPT ![c] = "closed"]
    /\ conn' = [conn EXCEPT ![k].taken = @ \ {c}, ![k].sessions = @ \ {c}]
    /\ UNCHANGED <<disc, finder, caller, calls>>

ClosedChannel(k) ==
    /\ conn[k].close = "closing" /\ conn[k].taken = {}
    /\ conn' = [conn EXCEPT ![k].close = "done",
                   ![k].channel = IF @ = "open" THEN "closed" ELSE @]
    /\ UNCHANGED <<disc, finder, caller, session, calls>>

CloseSession(c) ==
    /\ session[c] = "open"
    /\ session' = [session EXCEPT ![c] = "closing"]
    /\ UNCHANGED <<disc, finder, conn, caller, calls>>

\* removeSession follows the protocol session's own Close.
SessionClosed(c) ==
    /\ session[c] = "closing"
    /\ session' = [session EXCEPT ![c] = "closed"]
    /\ conn' = [k \in Connectors |-> [conn[k] EXCEPT !.sessions = @ \ {c}]]
    /\ UNCHANGED <<disc, finder, caller, calls>>

-----------------------------------------------------------------------------
(* Discover.                                                               *)

Discover(d) ==
    /\ finder[d].pc = "idle" /\ calls < MaxCalls
    /\ calls' = calls + 1
    /\ Go(d, "enter")
    /\ UNCHANGED <<disc, conn, caller, session>>

Enter(d) ==
    /\ finder[d].pc = "enter" /\ disc.operation = None
    /\ IF disc.closed THEN Answer(d, Failed) /\ UNCHANGED disc
       ELSE Go(d, "source") /\ disc' = [disc EXCEPT !.operation = d]
    /\ UNCHANGED <<conn, caller, session, calls>>

\* dropCached
Uncached == [disc EXCEPT !.cached = None, !.metadata = None]

\* The source's answer: an absence drops the cached connector, metadata is looked up in the
\* cache, anything else, an ended context included, fails.
Source(d, raw) ==
    /\ finder[d].pc = "source"
    /\ LET a == explicitSource(raw)
           c == disc.cached
       IN  CASE a.kind = "absent" ->
                  /\ disc' = Uncached
                  /\ finder' = [finder EXCEPT ![d].pc = "close", ![d].previous = c,
                                   ![d].result = Absent]
                  /\ IF c = None THEN UNCHANGED conn ELSE Closing(c)
             [] a.kind = "failed" -> Answer(d, Failed) /\ Unlocked /\ UNCHANGED conn
             [] a.kind = "metadata" /\ c # None /\ disc.metadata = a.metadata
                /\ ~conn[c].closed ->
                  Answer(d, [kind |-> "connector", connector |-> c]) /\ Unlocked /\ UNCHANGED conn
             [] OTHER ->
                  /\ finder' = [finder EXCEPT ![d].pc = "install", ![d].answer = a.metadata]
                  /\ UNCHANGED <<disc, conn>>
    /\ UNCHANGED <<caller, session, calls>>

Install(d, k) ==
    /\ finder[d].pc = "install" /\ ~conn[k].made
    /\ \A j \in 1..(k - 1) : conn[j].made
    /\ LET previous == disc.cached
       IN  /\ disc' = [disc EXCEPT !.cached = k, !.metadata = finder[d].answer]
           /\ finder' = [finder EXCEPT ![d].pc = "close", ![d].answer = None,
                            ![d].previous = previous,
                            ![d].result = [kind |-> "connector", connector |-> k]]
           /\ conn' = [IF previous # None /\ conn[previous].close = "no"
                       THEN Taken(previous) ELSE conn
                       EXCEPT ![k].made = TRUE, ![k].metadata = finder[d].answer]
    /\ UNCHANGED <<caller, session, calls>>

\* The close of the previous connector returns, perhaps with an error.
Replaced(d, failed) ==
    /\ finder[d].pc = "close"
    /\ finder[d].previous # None => conn[finder[d].previous].close = "done"
    /\ failed => finder[d].previous # None
    /\ finder' = [finder EXCEPT ![d].pc = "answered", ![d].previous = None,
                     ![d].result = IF failed THEN Failed ELSE @]
    /\ Unlocked
    /\ UNCHANGED <<conn, caller, session, calls>>

Answered(d) ==
    /\ finder[d].pc = "answered"
    /\ finder' = [finder EXCEPT ![d] = IdleFinder]
    /\ UNCHANGED <<disc, conn, caller, session, calls>>

\* Discovery.Close
Close ==
    /\ ~disc.closed /\ disc.operation = None
    /\ disc' = [Uncached EXCEPT !.closed = TRUE, !.operation = "close", !.last = disc.cached]
    /\ IF disc.cached = None THEN UNCHANGED conn ELSE Closing(disc.cached)
    /\ UNCHANGED <<finder, caller, session, calls>>

CloseReturns ==
    /\ disc.operation = "close"
    /\ disc.last # None => conn[disc.last].close = "done"
    /\ disc' = [disc EXCEPT !.operation = None, !.done = TRUE]
    /\ UNCHANGED <<finder, conn, caller, session, calls>>

-----------------------------------------------------------------------------
(* Connector.Initialize.                                                   *)

\* sharedConnector opens the channel on first use.
Initialize(c, k) ==
    /\ caller[c].pc = "idle" /\ conn[k].made /\ session[c] = "none"
    /\ ~conn[k].closed
    /\ caller' = [caller EXCEPT ![c] = [pc |-> "rpc", connector |-> k]]
    /\ conn' = [conn EXCEPT ![k].channel = "open"]
    /\ UNCHANGED <<disc, finder, session, calls>>

Idle(c) == caller' = [caller EXCEPT ![c] = [pc |-> "idle", connector |-> None]]

\* The negotiation fails (always once the channel is closed) or yields a session.
Negotiated(c, ok) ==
    /\ caller[c].pc = "rpc"
    /\ ok => conn[caller[c].connector].channel = "open"
    /\ IF ok THEN caller' = [caller EXCEPT ![c].pc = "check"] ELSE Idle(c)
    /\ session' = [session EXCEPT ![c] = IF ok THEN "raw" ELSE "none"]
    /\ UNCHANGED <<disc, finder, conn, calls>>

\* validateAdvertisedIdentity: another daemon's session ends together with the connector.
Mismatch(c) ==
    /\ caller[c].pc = "check"
    /\ session' = [session EXCEPT ![c] = "closed"]
    /\ Closing(caller[c].connector)
    /\ caller' = [caller EXCEPT ![c].pc = "join"]
    /\ UNCHANGED <<disc, finder, calls>>

Joined(c) ==
    /\ caller[c].pc = "join" /\ conn[caller[c].connector].close = "done"
    /\ Idle(c)
    /\ UNCHANGED <<disc, finder, conn, session, calls>>

\* The caller's context has ended.
Expired(c) ==
    /\ caller[c].pc = "check"
    /\ session' = [session EXCEPT ![c] = "closed"]
    /\ Idle(c)
    /\ UNCHANGED <<disc, finder, conn, calls>>

\* Mutant of Register: the session is recorded without looking at closed.
RegisterLate(c) ==
    /\ caller[c].pc = "check"
    /\ LET k == caller[c].connector
       IN  /\ session' = [session EXCEPT ![c] = "open"]
           /\ conn' = [conn EXCEPT ![k].sessions = @ \cup {c}]
    /\ Idle(c)
    /\ UNCHANGED <<disc, finder, calls>>

Register(c) ==
    /\ caller[c].pc = "check"
    /\ LET k == caller[c].connector
       IN  /\ session' = [session EXCEPT ![c] = IF conn[k].closed THEN "closed" ELSE "open"]
           /\ conn' = [conn EXCEPT ![k].sessions = IF conn[k].closed THEN @ ELSE @ \cup {c}]
    /\ Idle(c)
    /\ UNCHANGED <<disc, finder, calls>>

-----------------------------------------------------------------------------

Init ==
    /\ \E e \in {None} \cup Metadata : disc =
              [explicit |-> e, operation |-> None, cached |-> None, metadata |-> None, last |-> None,
               closed |-> FALSE, done |-> FALSE]
    /\ finder = [d \in Discoverers |-> IdleFinder]
    /\ conn = [k \in Connectors |-> NoConnector]
    /\ caller = [c \in Callers |-> [pc |-> "idle", connector |-> None]]
    /\ session = [c \in Callers |-> "none"]
    /\ calls = 0

Finder(d) ==
    \/ Discover(d) \/ Enter(d) \/ Answered(d)
    \/ \E raw \in {Absent, Failed} \cup {Of(m) : m \in Metadata} : Source(d, raw)
    \/ \E k \in Connectors : Install(d, k)
    \/ \E failed \in BOOLEAN : Replaced(d, failed)

Caller(c) ==
    \/ \E k \in Connectors : Initialize(c, k)
    \/ \E ok \in BOOLEAN : Negotiated(c, ok)
    \/ Mismatch(c) \/ Joined(c) \/ Expired(c) \/ Register(c)
    \/ CloseSession(c) \/ SessionClosed(c)

Next ==
    \/ \E d \in Discoverers : Finder(d)
    \/ Close \/ CloseReturns
    \/ \E c \in Callers : Caller(c) \/ \E k \in Connectors : CloseTaken(k, c)
    \/ \E k \in Connectors : ClosedChannel(k)

Spec == Init /\ [][Next]_vars

-----------------------------------------------------------------------------
(* Properties.                                                             *)

\* A connector whose Close has returned leaves no session and no channel of its own open, although
\* Initialize, Session.Close, a mismatch and a replacement race with it (Connector.Close).  A
\* connector that is neither cached nor being closed has been closed, so a discovery whose Close
\* returned has left none.
ClosedLeavesNothing ==
    /\ \A k \in Connectors :
           conn[k].close = "done" =>
               /\ conn[k].channel # "open"
               /\ conn[k].sessions = {}
    /\ \A c \in Callers : session[c] = "open" =>
           \E k \in Connectors : c \in conn[k].sessions /\ conn[k].close # "done"
    /\ \A k \in Connectors :
           conn[k].made /\ conn[k].close = "no" => disc.cached = k
    /\ disc.done => \A k \in Connectors : conn[k].made => conn[k].close = "done"

\* Startup is authorized only by an exact absence, with the stale connector gone, and never by an
\* explicit discovery; a connector is answered only for the metadata that the store holds or
\* held during the call, and only while it may be the cached one (Discovery.Discover,
\* ExplicitDiscovery.Discover).
AnswersAreCurrent ==
    \A d \in Discoverers :
        LET r == finder[d].result
        IN  /\ r # None /\ r.kind = "absent" => disc.explicit = None
            /\ r # None /\ r.kind = "absent" /\ disc.operation = d => disc.cached = None
            /\ finder[d].pc = "answered" /\ r.kind = "connector" /\ disc.explicit # None =>
                   conn[r.connector].metadata = disc.explicit
=============================================================================
