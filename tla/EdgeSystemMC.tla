---------------------------- MODULE EdgeSystemMC ----------------------------
(*****************************************************************************)
(* The edges of the daemon for TLC: the negotiated contract, unary calls,    *)
(* streams, the clients that find or start a daemon, the endpoint's          *)
(* metadata, the logging of run events, and the handshake, endpoint and      *)
(* executable of a plugin. They share no state here; a behaviour is about    *)
(* one of them; the logging keeps its initial state meanwhile.               *)
(*****************************************************************************)
EXTENDS AgentLogging, ContractCases, PluginContractCases

CONSTANTS
    NoOp,          \* the absent operation identity
    Bad            \* an endpoint record that cannot be read

VARIABLES
    focus,
    conX,
    engDaemon, engCall, engApplied,
    stFeed, stStore, stDown, stSrv, stWire, stCl, stSess, stFaults,
    manConn, manCall, manCloser, manCand, manSession, manCalls,
    locDisc, locFinder, locConn, locCaller, locSession, locCalls,
    epFile, epLock, epOp, epStore, epPub, epInst, epOps, epFaults,
    handHost, handPlug, handWire, handVal,
    ipcNode, ipcInodes, ipcListen, ipcClosed, ipcDial, ipcFaults,
    filePath, fileBytes, fileLease, fileOp, fileDir, fileSnapshot, fileTold, fileChanges, fileFaults

conVars == <<conX>>
engVars == <<engDaemon, engCall, engApplied>>
stVars == <<stFeed, stStore, stDown, stSrv, stWire, stCl, stSess, stFaults>>
manVars == <<manConn, manCall, manCloser, manCand, manSession, manCalls>>
locVars == <<locDisc, locFinder, locConn, locCaller, locSession, locCalls>>
epVars == <<epFile, epLock, epOp, epStore, epPub, epInst, epOps, epFaults>>
handVars == <<handHost, handPlug, handWire, handVal>>
ipcVars == <<ipcNode, ipcInodes, ipcListen, ipcClosed, ipcDial, ipcFaults>>
fileVars == <<filePath, fileBytes, fileLease, fileOp, fileDir, fileSnapshot, fileTold, fileChanges, fileFaults>>
all == <<focus, conVars, engVars, stVars, manVars, locVars, epVars, vars, handVars, ipcVars, fileVars>>

Agreement == INSTANCE Contract WITH
    MaxUint <- 3, Wishes <- CaseWishes, Servers <- CaseServers, Versions <- CaseVersions, MaxId <- 2,
    Bootstrap <- 9, MaxInt <- 9, x <- conX

Engine == INSTANCE EngineCall WITH
    Calls <- {"c1"}, Ops <- {"o1"}, MaxEpoch <- 3, Items <- 2, MaxUint <- 7, daemon <- engDaemon,
    call <- engCall, applied <- engApplied

Streams == INSTANCE StreamLink WITH
    Top <- 2, Limit <- 1, Queue <- 1, Window <- 1, MaxFaults <- 0, MaxUint <- 7, feed <- stFeed,
    store <- stStore, down <- stDown, srv <- stSrv, wire <- stWire, cl <- stCl, sess <- stSess,
    faults <- stFaults

\* A shorter stream that is disturbed.
Disturbed == INSTANCE StreamLink WITH
    Top <- 1, Limit <- 1, Queue <- 1, Window <- 1, MaxFaults <- 1, MaxUint <- 7, feed <- stFeed,
    store <- stStore, down <- stDown, srv <- stSrv, wire <- stWire, cl <- stCl, sess <- stSess,
    faults <- stFaults

Managed == INSTANCE ManagedStart WITH
    Callers <- {"c1", "c2"}, Closers <- {"s1", "s2"}, Candidates <- {"k1", "k2"}, MaxCalls <- 5,
    conn <- manConn, call <- manCall, closer <- manCloser, cand <- manCand, session <- manSession,
    calls <- manCalls

Local == INSTANCE LocalClient WITH
    Discoverers <- {"d1", "d2"}, Callers <- {"c1", "c2"}, Connectors <- 1..2, Metadata <- {"m1", "m2"},
    MaxCalls <- 2, disc <- locDisc, finder <- locFinder, conn <- locConn, caller <- locCaller,
    session <- locSession, calls <- locCalls

Metadata == INSTANCE Endpoint WITH
    Procs <- {"p1", "p2"}, MaxOps <- 4, MaxFaults <- 2, file <- epFile, lock <- epLock, op <- epOp,
    store <- epStore, pub <- epPub, inst <- epInst, ops <- epOps, faults <- epFaults

Handshake == INSTANCE PluginContract WITH
    MaxUint <- 3, Executables <- CaseExecutables, Plugins <- CasePlugins, Frames <- CaseFrames,
    Addresses <- {0, 1, 3}, Arguments <- 0..2, BootstrapMaximum <- 3, MaxMessage <- 5, MaxTools <- 2,
    MaxCalls <- 3, MaxPayload <- 3, MaxProgress <- 2, MaxToken <- 3, MaxTimeout <- 2, MaxFrames <- 3,
    host <- handHost, plug <- handPlug, wire <- handWire, val <- handVal

IPC == INSTANCE LocalIPC WITH
    Dials <- {"d1", "d2"}, MaxFaults <- 1, node <- ipcNode, inodes <- ipcInodes, listen <- ipcListen,
    closed <- ipcClosed, dial <- ipcDial, faults <- ipcFaults

File == INSTANCE Executable WITH
    Parts <- 1..2, Objects <- {"o1", "o2"}, MaxChanges <- 2, MaxFaults <- 2, path <- filePath,
    bytes <- fileBytes, lease <- fileLease, op <- fileOp, dir <- fileDir, snapshot <- fileSnapshot,
    told <- fileTold, changes <- fileChanges, faults <- fileFaults

\* The component that a behaviour is about; the others do not run.
Focus == {"contract", "calls", "streams", "disturbed", "managed", "local", "endpoint", "logging", "handshake", "ipc",
          "file"}

conOff ==
    conX = None
engOff ==
    engDaemon = None /\ engCall = None /\ engApplied = None
stOff ==
    stFeed = None /\ stStore = None /\ stDown = None /\ stSrv = None /\ stWire = None /\ stCl = None /\
    stSess = None /\ stFaults = None
manOff ==
    manConn = None /\ manCall = None /\ manCloser = None /\ manCand = None /\ manSession = None /\
    manCalls = None
locOff ==
    locDisc = None /\ locFinder = None /\ locConn = None /\ locCaller = None /\ locSession = None /\
    locCalls = None
epOff ==
    epFile = None /\ epLock = None /\ epOp = None /\ epStore = None /\ epPub = None /\ epInst = None /\
    epOps = None /\ epFaults = None
handOff ==
    handHost = None /\ handPlug = None /\ handWire = None /\ handVal = None
ipcOff ==
    ipcNode = None /\ ipcInodes = None /\ ipcListen = None /\ ipcClosed = None /\ ipcDial = None /\
    ipcFaults = None
fileOff ==
    filePath = None /\ fileBytes = None /\ fileLease = None /\ fileOp = None /\ fileDir = None /\
    fileSnapshot = None /\ fileTold = None /\ fileChanges = None /\ fileFaults = None

MCInit ==
    /\ focus \in Focus
    /\ Init
    /\ focus # "logging" => box = Mailbox(FALSE) /\ ~stats.progress
    /\ IF focus = "contract" THEN Agreement!Init ELSE conOff
    /\ IF focus = "calls" THEN Engine!Init ELSE engOff
    /\ CASE focus = "streams" -> Streams!Init
         [] focus = "disturbed" -> Disturbed!Init
         [] OTHER -> stOff
    /\ IF focus = "managed" THEN Managed!Init ELSE manOff
    /\ IF focus = "local" THEN Local!Init ELSE locOff
    /\ IF focus = "endpoint" THEN Metadata!Init ELSE epOff
    /\ IF focus = "handshake" THEN Handshake!Init ELSE handOff
    /\ IF focus = "ipc" THEN IPC!Init ELSE ipcOff
    /\ IF focus = "file" THEN File!Init ELSE fileOff

MCNext ==
    \/ focus = "contract" /\ Agreement!Next /\ UNCHANGED <<focus, engVars, stVars, manVars, locVars, epVars, vars, handVars, ipcVars, fileVars>>
    \/ focus = "calls" /\ Engine!Next /\ UNCHANGED <<focus, conVars, stVars, manVars, locVars, epVars, vars, handVars, ipcVars, fileVars>>
    \/ focus = "streams" /\ Streams!Next /\ UNCHANGED <<focus, conVars, engVars, manVars, locVars, epVars, vars, handVars, ipcVars, fileVars>>
    \/ focus = "disturbed" /\ Disturbed!Next /\ UNCHANGED <<focus, conVars, engVars, manVars, locVars, epVars, vars, handVars, ipcVars, fileVars>>
    \/ focus = "managed" /\ Managed!Next /\ UNCHANGED <<focus, conVars, engVars, stVars, locVars, epVars, vars, handVars, ipcVars, fileVars>>
    \/ focus = "local" /\ Local!Next /\ UNCHANGED <<focus, conVars, engVars, stVars, manVars, epVars, vars, handVars, ipcVars, fileVars>>
    \/ focus = "endpoint" /\ Metadata!Next /\ UNCHANGED <<focus, conVars, engVars, stVars, manVars, locVars, vars, handVars, ipcVars, fileVars>>
    \/ focus = "logging" /\ Next /\ UNCHANGED <<focus, conVars, engVars, stVars, manVars, locVars, epVars, handVars, ipcVars, fileVars>>
    \/ focus = "handshake" /\ Handshake!Next /\ UNCHANGED <<focus, conVars, engVars, stVars, manVars, locVars, epVars, vars, ipcVars, fileVars>>
    \/ focus = "ipc" /\ IPC!Next /\ UNCHANGED <<focus, conVars, engVars, stVars, manVars, locVars, epVars, vars, handVars, fileVars>>
    \/ focus = "file" /\ File!Next /\ UNCHANGED <<focus, conVars, engVars, stVars, manVars, locVars, epVars, vars, handVars, ipcVars>>

MCSpec == MCInit /\ [][MCNext]_all

-----------------------------------------------------------------------------
\* Contract: what is granted can be used by the caller that it is granted to, and
\* both sides agree on version, capabilities and limits.
GrantsAreMutual == focus = "contract" => Agreement!GrantsAreUsable /\ Agreement!AgreementIsMutual

\* EngineCall: what a caller of the engine is told of its operation is true of
\* the daemon, and every status that the daemon sends is one the client knows.
EngineCallsAreToldTrue == focus = "calls" => Engine!CallersAreToldTrue /\ Engine!StatusesAreUnderstood

\* StreamLink: the client is given the events without gap or repetition, and an
\* ended stream holds nothing on either side.
StreamsAreExact ==
    /\ focus = "streams" => Streams!DeliveryIsExact /\ Streams!StreamsAreReleased
    /\ focus = "disturbed" => Disturbed!DeliveryIsExact /\ Disturbed!StreamsAreReleased

\* StreamLink: after a reconnect nothing of the earlier epoch reaches the wire.
OldEpochIsSilent ==
    [][(focus = "streams" => Streams!OldEpochStep) /\ (focus = "disturbed" => Disturbed!OldEpochStep)]_all

\* ManagedStart: a daemon that was started is owned until it is cleaned up or
\* shown to serve, and at most one is; a session is open only inside
\* Initialize and none is returned after Shutdown closed the connector.
CandidatesAreOwned ==
    [][focus = "managed" => Managed!CandidatesAreOwned' /\ Managed!HandedOverStep]_all

\* LocalClient: a connector that is closed leaves no session and no connector
\* behind, and an answer comes from the metadata that is current.
LocalClientIsClean == focus = "local" => Local!ClosedLeavesNothing /\ Local!AnswersAreCurrent

\* Endpoint: the active record is that of the process that holds the instance
\* lock, a publication stands until its owner withdraws it, and the directory is
\* open exactly while it is used.
ActiveRecordIsHolders ==
    focus = "endpoint" => Metadata!ActiveRecordIsHolders /\ Metadata!PublicationsStand /\ Metadata!DirectoryFollowsUse

\* PluginContract: host and plugin that accept a handshake hold the same limits,
\* identities and catalog, and a stream that is accepted is one legal stream.
PluginProtocolIsExact == focus = "handshake" => Handshake!HandshakeIsExact /\ Handshake!StreamIsExact

\* LocalIPC: the host is connected to the plugin's listener and to no other, and
\* a successful cleanup leaves nothing at the address.
EndpointIsPlugins == focus = "ipc" => IPC!EndpointIsPlugins

\* Executable: a snapshot that is launched has the bytes that were pinned, and
\* its private files are removed or accounted for.
SnapshotIsExact == focus = "file" => File!SnapshotIsExact
=============================================================================
