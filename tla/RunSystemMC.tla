----------------------------- MODULE RunSystemMC ----------------------------
(*****************************************************************************)
(* Runs for TLC: the durable authority of runs, the host that executes       *)
(* operations on them, the hub of pending interactions and the dispatch of   *)
(* tools. They share no state here; a behaviour is about one of them. Their  *)
(* sets are the same pairs of model values, so that one symmetry serves      *)
(* all.                                                                      *)
(*****************************************************************************)
EXTENDS RunAuthorityMC

CONSTANTS
    Calls,         \* calls of the run host
    Operations,    \* operation IDs
    HubRuns,       \* runs bound to the hub
    Askers,        \* goroutines in Request
    Watching,      \* observers of the hub
    Ids,           \* tool call IDs
    Plans,         \* tool plans
    Releasers,     \* callers of ReleaseContext
    Ghost          \* a tool name that no plan has

VARIABLES
    focus,
    rhHost, rhCall, rhRun, rhLedger, rhTerminal, rhEffects, rhIssued,
    hubHub, hubPart, hubBinding, hubCaller, hubObserver, hubFence,
    toolRun, toolGuard, toolBase, toolEvents, toolEffects, toolLease, toolReleaser

rhVars == <<rhHost, rhCall, rhRun, rhLedger, rhTerminal, rhEffects, rhIssued>>
hubVars == <<hubHub, hubPart, hubBinding, hubCaller, hubObserver, hubFence>>
toolVars == <<toolRun, toolGuard, toolBase, toolEvents, toolEffects, toolLease, toolReleaser>>
all == <<focus, vars, rhVars, hubVars, toolVars>>

DispatchTools == [read |-> [effect |-> "read_only", replay |-> "safe"],
                  write |-> [effect |-> "mutating", replay |-> "unsafe"]]

Host == INSTANCE RunHost WITH
    Ops <- Operations, ActiveRuns <- 1, MaxPerClient <- 2, MaxIdentities <- 2, TerminalRuns <- 1,
    MaxIssued <- 3, host <- rhHost, call <- rhCall, run <- rhRun, ledger <- rhLedger, terminal <- rhTerminal,
    effects <- rhEffects, issued <- rhIssued

Hub == INSTANCE PendingHub WITH
    Clients <- {"k1"}, Runs <- HubRuns, Callers <- Askers, Observers <- Watching, MaxPending <- 2,
    MaxObservers <- 2, QueueEntries <- 1, ReservedEntries <- 2, QueuedEntries <- 2, MaxRevision <- 3,
    hub <- hubHub, part <- hubPart, binding <- hubBinding, caller <- hubCaller, observer <- hubObserver,
    fence <- hubFence

\* One run with more changes.
Busy == INSTANCE PendingHub WITH
    Clients <- {"k1"}, Runs <- {"r1"}, Callers <- Askers, Observers <- Watching, MaxPending <- 2,
    MaxObservers <- 2, QueueEntries <- 1, ReservedEntries <- 2, QueuedEntries <- 2, MaxRevision <- 4,
    hub <- hubHub, part <- hubPart, binding <- hubBinding, caller <- hubCaller, observer <- hubObserver,
    fence <- hubFence

Tool == INSTANCE ToolDispatch WITH
    Tools <- DispatchTools, Depth <- 2, Attempts <- 2, run <- toolRun, guard <- toolGuard, base <- toolBase,
    events <- toolEvents, effects <- toolEffects, lease <- toolLease, releaser <- toolReleaser

\* The component that a behaviour is about; the others do not run.
Focus == {"authority", "host", "hub", "busy", "tools"}

rhOff ==
    rhHost = None /\ rhCall = None /\ rhRun = None /\ rhLedger = None /\ rhTerminal = None /\
    rhEffects = None /\ rhIssued = None
hubOff ==
    hubHub = None /\ hubPart = None /\ hubBinding = None /\ hubCaller = None /\ hubObserver = None /\
    hubFence = None
toolOff ==
    toolRun = None /\ toolGuard = None /\ toolBase = None /\ toolEvents = None /\ toolEffects = None /\
    toolLease = None /\ toolReleaser = None

MCInit ==
    /\ focus \in Focus
    /\ Init
    /\ IF focus = "host" THEN Host!Init ELSE rhOff
    /\ CASE focus = "hub" -> Hub!Init
         [] focus = "busy" -> Busy!Init
         [] OTHER -> hubOff
    /\ IF focus = "tools" THEN Tool!Init ELSE toolOff

MCNext ==
    \/ focus = "authority" /\ Next /\ UNCHANGED <<focus, rhVars, hubVars, toolVars>>
    \/ focus = "host" /\ Host!Next /\ UNCHANGED <<focus, vars, hubVars, toolVars>>
    \/ focus = "hub" /\ Hub!Next /\ UNCHANGED <<focus, vars, rhVars, toolVars>>
    \/ focus = "busy" /\ Busy!Next /\ UNCHANGED <<focus, vars, rhVars, toolVars>>
    \/ focus = "tools" /\ Tool!Next /\ UNCHANGED <<focus, vars, rhVars, hubVars>>

MCSpec == MCInit /\ [][MCNext]_all

-----------------------------------------------------------------------------
\* RunHost: a kernel executes only for a run whose authority and identity the host
\* holds, and what an operation's callers are told, first or again, is what it did.
ExecutionIsAuthorized == focus = "host" => Host!ExecutionIsAuthorized /\ Host!AnswersAreTrue

\* RunHost: after every step each slot, identity, entry and candidate that is held
\* has its holder and none is counted twice, and an identity is retired only after
\* its run's terminal record.
HoldingsAreAccounted ==
    [][focus = "host" => Host!HoldingsAreAccounted' /\ Host!RetirementStep]_all

\* PendingHub: an observer that has read its queue knows exactly what is pending.
ViewIsExact == (focus = "hub" => Hub!ViewIsExact) /\ (focus = "busy" => Busy!ViewIsExact)

\* PendingHub: counters and reservations are those of the calls and observers that
\* exist, each call has one outcome, and a fenced client's observers are silent.
HubIsExact ==
    /\ focus = "hub" => Hub!AccountsAreExact /\ Hub!CallsMatch /\ Hub!FencedIsSilent
    /\ focus = "busy" => Busy!AccountsAreExact /\ Busy!CallsMatch /\ Busy!FencedIsSilent

\* ToolDispatch: a tool's own code runs only inside the guards of its plan, its
\* records say what happened, and the plan's lease is released once.
ToolRunsUnderGuards == focus = "tools" => Tool!ToolRunsUnderGuards /\ Tool!RecordsAreTrue /\ Tool!ReleaseIsOne
=============================================================================
