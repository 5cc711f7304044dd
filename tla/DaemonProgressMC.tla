-------------------------- MODULE DaemonProgressMC --------------------------
(*****************************************************************************)
(* The log of run events for TLC, and progress of the daemon: the session    *)
(* store, the hub of pending interactions and the logging of run events,     *)
(* each under the fairness of its own goroutines. They share no state here;  *)
(* a behaviour is about one of them.                                         *)
(*****************************************************************************)
EXTENDS EventLog

CONSTANT
    None           \* no value

VARIABLES
    focus,
    ssGate, ssCall, ssClosed, ssRootDone, ssDrained,
    hubHub, hubPart, hubBinding, hubCaller, hubObserver, hubFence,
    logBox, logStats, logCons, logClosing, logCloser, logWatch, logLock, logSeen

ssVars == <<ssGate, ssCall, ssClosed, ssRootDone, ssDrained>>
hubVars == <<hubHub, hubPart, hubBinding, hubCaller, hubObserver, hubFence>>
logVars == <<logBox, logStats, logCons, logClosing, logCloser, logWatch, logLock, logSeen>>
all == <<focus, vars, ssVars, hubVars, logVars>>

Sessions == INSTANCE SessionStore WITH
    Clients <- {"c1"}, Callers <- {"p1", "p2"}, MaxSessions <- 1, MaxWaiters <- 2, MaxStreams <- 1,
    MaxEpoch <- 3, gate <- ssGate, call <- ssCall, closed <- ssClosed, rootDone <- ssRootDone,
    drained <- ssDrained

Hub == INSTANCE PendingHub WITH
    Clients <- {"k1"}, Runs <- {"r1"}, Callers <- {"c1"}, Observers <- {"w1", "w2"}, MaxPending <- 2,
    MaxObservers <- 2, QueueEntries <- 1, ReservedEntries <- 2, QueuedEntries <- 2, MaxRevision <- 3,
    hub <- hubHub, part <- hubPart, binding <- hubBinding, caller <- hubCaller, observer <- hubObserver,
    fence <- hubFence

Logger == INSTANCE AgentLogging WITH
    Capacity <- 1, MaxOffered <- 4, Closers <- {"x1"}, Watchers <- {}, MaxSnapshots <- 1, box <- logBox,
    stats <- logStats, cons <- logCons, closing <- logClosing, closer <- logCloser, watch <- logWatch,
    lock <- logLock, seen <- logSeen

\* The component that a behaviour is about; the others keep their initial state.
Focus == {"log", "sessions", "hub", "logging"}

MCInit ==
    /\ focus \in Focus
    /\ Init
    /\ Sessions!Init
    /\ Hub!Init
    /\ Logger!Init
    /\ focus # "log" => received = [c \in Subscribers |-> 0]
    /\ focus # "logging" => logBox = Logger!Mailbox(FALSE) /\ ~logStats.progress

MCNext ==
    \/ focus = "log" /\ Next /\ UNCHANGED <<focus, ssVars, hubVars, logVars>>
    \/ focus = "sessions" /\ Sessions!Next /\ UNCHANGED <<focus, vars, hubVars, logVars>>
    \/ focus = "hub" /\ Hub!Next /\ UNCHANGED <<focus, vars, ssVars, logVars>>
    \/ focus = "logging" /\ Logger!Next /\ UNCHANGED <<focus, vars, ssVars, hubVars>>

MCSpec == MCInit /\ [][MCNext]_all

-----------------------------------------------------------------------------
\* The fairness of each module, for the component that runs.
SessionsFair ==
    /\ \A p \in {"p1", "p2"} :
        /\ WF_ssVars(focus = "sessions" /\ Sessions!Steps(p))
        /\ WF_ssVars(focus = "sessions" /\ Sessions!CloseCommit(p))
        /\ WF_ssVars(focus = "sessions" /\ Sessions!StreamCancelled(p) /\ Sessions!CloseStream(p))
    /\ WF_ssVars(focus = "sessions" /\ ssRootDone /\ Sessions!CloseStore)
HubFair ==
    /\ WF_hubVars(focus = "hub" /\ Hub!Return("c1"))
    /\ \A w \in {"w1", "w2"} : WF_hubVars(focus = "hub" /\ (Hub!Delivered(w) \/ Hub!Stopped(w)))
    /\ WF_hubVars(focus = "hub" /\ Hub!FenceReturns("k1"))
LoggerFair ==
    /\ WF_logVars(focus = "logging" /\ Logger!Consume)
    /\ WF_logVars(focus = "logging" /\ Logger!FinishClose)
    /\ WF_logVars(focus = "logging" /\ Logger!CloseReturns("x1"))

-----------------------------------------------------------------------------
\* EventLog: a cut-off subscription ends although nobody reads it, and after Close a
\* consumer that keeps reading reaches the end (deliver, terminate, Close).
SubscriptionsEnd == Fairness => LogSubscriptionsEnd

\* SessionStore: a reconnect is decided, unless reconnects keep coming every call
\* returns, and a closed store drains (beginReconnect, beginMutation, Close).
SessionsProgress == SessionsFair => Sessions!ReconnectDecides /\ Sessions!CallsReturn /\ Sessions!CloseDrains

\* PendingHub: a fence returns and a closed hub comes to rest although nobody reads
\* or responds (FenceObservers, Close).
HubProgress == HubFair => Hub!FencesReturn /\ Hub!CloseEnds

\* AgentLogging: every drop is told in a later record and every Close returns,
\* whatever the runs offer meanwhile (reportDropped, Close).
DropsAreTold == LoggerFair => Logger!DropsAreTold
=============================================================================
