--------------------------- MODULE LinkProgressMC ---------------------------
(*****************************************************************************)
(* Progress of clients for TLC: the initialization of sessions, the streams  *)
(* of one and managed starts, each under the fairness of its own             *)
(* goroutines. They share no state here; a behaviour is about one of them.   *)
(*****************************************************************************)
EXTENDS Negotiation

CONSTANTS
    NoOp           \* the absent operation identity

VARIABLES
    focus,
    stFeed, stStore, stDown, stSrv, stWire, stCl, stSess, stFaults,
    manConn, manCall, manCloser, manCand, manSession, manCalls

stVars == <<stFeed, stStore, stDown, stSrv, stWire, stCl, stSess, stFaults>>
manVars == <<manConn, manCall, manCloser, manCand, manSession, manCalls>>
all == <<focus, vars, stVars, manVars>>

Streams == INSTANCE StreamLink WITH
    Top <- 1, Limit <- 1, Queue <- 1, Window <- 1, MaxFaults <- 1, MaxUint <- 7, feed <- stFeed,
    store <- stStore, down <- stDown, srv <- stSrv, wire <- stWire, cl <- stCl, sess <- stSess,
    faults <- stFaults

Managed == INSTANCE ManagedStart WITH
    Callers <- {"c1", "c2"}, Closers <- {"s1", "s2"}, Candidates <- {"k1", "k2"}, MaxCalls <- 3,
    conn <- manConn, call <- manCall, closer <- manCloser, cand <- manCand, session <- manSession,
    calls <- manCalls

\* The component that a behaviour is about; the others keep their initial state.
Focus == {"registry", "streams", "managed"}

MCInit ==
    /\ focus \in Focus
    /\ Init
    /\ Streams!Init
    /\ Managed!Init
    /\ stFeed = [earliest |-> 1, latest |-> 0, closed |-> FALSE]

MCNext ==
    \/ focus = "registry" /\ Next /\ UNCHANGED <<focus, stVars, manVars>>
    \/ focus = "streams" /\ Streams!Next /\ UNCHANGED <<focus, vars, manVars>>
    \/ focus = "managed" /\ Managed!Next /\ UNCHANGED <<focus, vars, stVars>>

MCSpec == MCInit /\ [][MCNext]_all

-----------------------------------------------------------------------------
\* The fairness of each module, for the component that runs.
RegistryFair ==
    /\ \A c \in Callers : WF_vars(focus = "registry" /\ CallerStep(c))
    /\ \A h \in Slots :
        /\ WF_vars(focus = "registry" /\ HandlerStep(h))
        /\ WF_vars(focus = "registry" /\ Abandon(h))
    /\ \A k \in Clients : WF_vars(focus = "registry" /\ RemoveSession(k))
    /\ WF_vars(focus = "registry" /\ CloseRegistry)
ManagedFair ==
    /\ \A c \in {"c1", "c2"} :
        /\ WF_manVars(focus = "managed" /\ Managed!CallStep(c))
        /\ WF_manVars(focus = "managed" /\ Managed!StartupTimeout(c))
    /\ \A s \in {"s1", "s2"} : WF_manVars(focus = "managed" /\ Managed!CloserStep(s))
StreamsFair ==
    /\ WF_stVars(/\ focus = "streams"
                 /\ \/ Streams!Admit \/ Streams!Observe \/ Streams!SendPage
                    \/ Streams!SendTail \/ Streams!CloseObservation)
    /\ WF_stVars(focus = "streams" /\ Streams!Fence)
    /\ WF_stVars(focus = "streams" /\ Streams!Hangup)
    /\ WF_stVars(focus = "streams" /\ (Streams!ReceivePage \/ Streams!ReceiveTail))
    /\ WF_stVars(focus = "streams" /\ Streams!FinishStream)
    /\ WF_stVars(focus = "streams" /\ Streams!FinishFailed)
    /\ WF_stVars(focus = "streams" /\ Streams!CloseStored)
    /\ WF_stVars(focus = "streams" /\ Streams!ForceStop)
    /\ WF_stVars(focus = "streams" /\ Streams!ShutdownDone)
    /\ WF_stVars(focus = "streams" /\ Streams!CommitReconnect)
    /\ WF_stVars(focus = "streams" /\ Streams!Fenced)

-----------------------------------------------------------------------------
\* Negotiation: every Initialize returns, whatever the channel loses.
EveryInitializeReturns == RegistryFair => InitializeReturns

\* ManagedStart: every Initialize that took the gate and every Shutdown returns.
ManagedProgress == ManagedFair => Managed!CallsEnd

\* StreamLink: a closed stream is joined, a reconnect is installed and the server's
\* shutdown comes to its end.
StreamsEnd == StreamsFair => Streams!StreamsEnd
=============================================================================
