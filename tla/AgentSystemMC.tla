---------------------------- MODULE AgentSystemMC ---------------------------
(*****************************************************************************)
(* Runs for TLC: one run from its preparation to its end, and the progress   *)
(* of the run host's calls and of the plugin host. They share no state here; *)
(* a behaviour is about one of them.                                         *)
(*****************************************************************************)
EXTENDS AgentRun

CONSTANT
    Ctl            \* the recovery controller

VARIABLES
    focus,
    plGen, plHost, plToken, plAct, plLease, plCloser,
    rhHost, rhCall, rhRun, rhLedger, rhTerminal, rhEffects, rhIssued

plVars == <<plGen, plHost, plToken, plAct, plLease, plCloser>>
rhVars == <<rhHost, rhCall, rhRun, rhLedger, rhTerminal, rhEffects, rhIssued>>
all == <<focus, vars, plVars, rhVars>>

Host == INSTANCE RunHost WITH
    Calls <- {"c1", "c2"}, Ops <- {"o1"}, Runs <- {"r1"}, ActiveRuns <- 1, MaxPerClient <- 2,
    MaxIdentities <- 2, TerminalRuns <- 1, MaxIssued <- 2, host <- rhHost, call <- rhCall, run <- rhRun,
    ledger <- rhLedger, terminal <- rhTerminal, effects <- rhEffects, issued <- rhIssued

Plugins == INSTANCE PluginHost WITH
    Activators <- {"a1"}, Holders <- {"h1"}, MaxAttempts <- 2, MaxRetained <- 2, MaxSequence <- 2,
    MaxRevision <- 2, MaxTry <- 1, gen <- plGen, host <- plHost, token <- plToken, act <- plAct,
    lease <- plLease, closer <- plCloser

\* The component that a behaviour is about; the others keep their initial state.
Focus == {"run", "host", "plugins"}

MCInit ==
    /\ focus \in Focus
    /\ Init
    /\ Host!Init
    /\ Plugins!Init
    /\ focus # "run" => exec.emitRunStart
    /\ focus # "host" => rhRun = [r \in {"r1"} |-> Host!NewRun("ABSENT")]

MCNext ==
    \/ focus = "run" /\ Next /\ UNCHANGED <<focus, plVars, rhVars>>
    \/ focus = "host" /\ Host!Next /\ UNCHANGED <<focus, vars, plVars>>
    \/ focus = "plugins" /\ Plugins!Next /\ UNCHANGED <<focus, vars, rhVars>>

MCSpec == MCInit /\ [][MCNext]_all

-----------------------------------------------------------------------------
\* The fairness of RunHost, for the component that runs.
HostFair ==
    /\ \A c \in {"c1", "c2"} : WF_rhVars(focus = "host" /\ Host!CallStep(c))
    /\ WF_rhVars(focus = "host" /\ Host!RunStep("r1"))
    /\ WF_rhVars(focus = "host" /\ Host!Cancelled("r1") /\ Host!KernelEnds("r1"))
    /\ WF_rhVars(focus = "host" /\ Host!StopStep)

\* The fairness of PluginHost.
PluginsFair ==
    /\ WF_plVars(focus = "plugins" /\ Plugins!Activation("a1"))
    /\ WF_plVars(focus = "plugins" /\ Plugins!Controller)
    /\ WF_plVars(focus = "plugins" /\ Plugins!Holding("h1"))
    /\ \A g \in Plugins!Gens : WF_plVars(focus = "plugins" /\ Plugins!Generation(g))
    /\ WF_plVars(focus = "plugins" /\ Plugins!Closing)

-----------------------------------------------------------------------------
\* AgentRun: a cancelled run reaches its end and every accepted Suspend returns
\* (Run.Cancel, Run.Suspend, suspendAtBoundary).
RequestsEnd == Fairness => CancelEnds /\ SuspendEnds

\* RunHost: a shutdown completes and every call returns, those that wait for another
\* call's outcome included (Shutdown, Do, monitor).
HostProgress == HostFair => Host!ShutdownCompletes /\ Host!CallsReturn

\* PluginHost: every Close returns once leases are released, and a recovery ends in a
\* replacement, an abandonment or exhausted attempts (Close, runRecovery).
PluginsProgress == PluginsFair => Plugins!CloseCompletes /\ Plugins!RecoveryDecides
=============================================================================
