--------------------------- MODULE PluginSystemMC ---------------------------
(*****************************************************************************)
(* The plugin host for TLC: the host of generations, and the life of one     *)
(* candidate with its remote tools. They share no state here; a behaviour    *)
(* is about one of them. The calls of a link are the model values of the     *)
(* activators, so that one symmetry serves both.                             *)
(*****************************************************************************)
EXTENDS PluginHostMC

CONSTANTS
    Calls          \* calls of remote tools

VARIABLES
    focus,
    linkPath, linkCand, linkChild, linkSink, linkAcc, linkCloser, linkSess, linkCall, linkSvc, linkWork,
    linkFaults

linkVars == <<linkPath, linkCand, linkChild, linkSink, linkAcc, linkCloser, linkSess, linkCall, linkSvc, linkWork, linkFaults>>
all == <<focus, vars, linkVars>>

\* A mutating tool that may not be replayed and a read-only one.
LinkTools == {[effect |-> "mutating", replay |-> "unsafe"], [effect |-> "read", replay |-> "safe"]}

Link == INSTANCE PluginLink WITH
    Tools <- LinkTools, MaxConcurrent <- 1, MaxCloses <- 2, MaxFaults <- 1, path <- linkPath, cand <- linkCand,
    child <- linkChild, sink <- linkSink, acc <- linkAcc, closer <- linkCloser, sess <- linkSess,
    call <- linkCall, svc <- linkSvc, work <- linkWork, faults <- linkFaults

\* The component that a behaviour is about; the others do not run.
Focus == {"host", "link"}

linkOff ==
    linkPath = None /\ linkCand = None /\ linkChild = None /\ linkSink = None /\ linkAcc = None /\
    linkCloser = None /\ linkSess = None /\ linkCall = None /\ linkSvc = None /\ linkWork = None /\
    linkFaults = None

MCInit ==
    /\ focus \in Focus
    /\ Init
    /\ IF focus = "link" THEN Link!Init ELSE linkOff

MCNext ==
    \/ focus = "host" /\ Next /\ UNCHANGED <<focus, linkVars>>
    \/ focus = "link" /\ Link!Next /\ UNCHANGED <<focus, vars>>

MCSpec == MCInit /\ [][MCNext]_all

-----------------------------------------------------------------------------
\* PluginLink: nothing of a candidate is released before its process is
\* contained, and a drained session has no call inside and admits none.
PluginIsContained == focus = "link" => Link!ContainedFirst /\ Link!DrainIsQuiet

\* PluginLink: what the caller of a remote tool is told about the effect of its
\* call is true of the plugin.
RemoteCallsAreToldTrue == focus = "link" => Link!CallsAreToldTrue
=============================================================================
