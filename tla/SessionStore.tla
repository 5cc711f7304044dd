---------------------------- MODULE SessionStore ----------------------------
(***************************************************************************)
(* The daemon's session store (daemon/session.go, session_gate.go,         *)
(* session_reconnect.go): client identities with an ownership epoch, a     *)
(* FIFO gate for mutation commits, stream leases, and reconnects that      *)
(* fence both before they advance the epoch.                               *)
(*                                                                         *)
(* A caller is one goroutine inside AcquireMutationCommit, AcquireStream   *)
(* or ReconnectContext, and then the holder of the lease it was granted.   *)
(* Each critical section of store.mu is one action.  Between two of them a *)
(* caller sleeps in waitForSessionChange on the channel it read under the  *)
(* lock: it runs again only when a later step signals that channel, or its *)
(* context or the store's root ends.                                       *)
(***************************************************************************)
EXTENDS Integers, Sequences, FiniteSets, Functions

CONSTANTS
    Clients, Callers,
    None,           \* no active mutation
    MaxSessions,    \* store.maximum
    MaxWaiters,     \* maximumSessionGateWaitersPerClient
    MaxStreams,     \* maximumSessionStreamsPerClient
    MaxEpoch        \* stands for math.MaxUint64, where a reconnect is refused

ASSUME BoundsAssumption ==
    /\ None \notin Callers
    /\ MaxSessions \in Nat \ {0} /\ MaxWaiters \in Nat /\ MaxStreams \in Nat \ {0}
    /\ MaxEpoch \in Nat \ {0}

VARIABLES
    gate,       \* store.sessions: epoch 0 is a client not in the map
    call,       \* the callers
    closed,     \* store.closed
    rootDone,   \* store.root.Err() != nil
    drained     \* store.drained is closed

vars == <<gate, call, closed, rootDone, drained>>

IdleCall == [pc |-> "idle", kind |-> "none", client |-> None, epoch |-> 0, waiting |-> FALSE,
             fencing |-> FALSE, ctxDone |-> FALSE, cancelled |-> FALSE]

NoSession == [epoch |-> 0, active |-> None, mutations |-> <<>>, reconnects |-> <<>>,
              streamWaiters |-> {}, streams |-> {}]

-----------------------------------------------------------------------------
(* Helpers that run under store.mu.                                        *)

\* closedLocked.
Closed == closed \/ rootDone

\* sessionLocked succeeds.
Owns(p) == ~Closed /\ gate[call[p].client].epoch = call[p].epoch

GateWaiters(g) == Len(g.mutations) + Len(g.reconnects) + Cardinality(g.streamWaiters)

\* signalLocked: everyone asleep on this client's changed channel runs again.
Signal(calls, c) ==
    [q \in Callers |-> IF calls[q].pc = "asleep" /\ calls[q].client = c
                       THEN [calls[q] EXCEPT !.pc = "run"] ELSE calls[q]]

\* Nothing holds or waits for the gate.
Quiet(g) ==
    /\ g.active = None /\ g.mutations = <<>> /\ g.reconnects = <<>>
    /\ g.streamWaiters = {} /\ g.streams = {}

\* maybeDrainedLocked, on the state the step leaves.
MaybeDrained ==
    drained' = (drained \/ (closed' /\ \A c \in Clients : Quiet(gate'[c])))

\* A token leaves its queue; it is there once.
Dequeue(q, p) ==
    IF \E i \in DOMAIN q : q[i] = p
    THEN LET i == CHOOSE i \in DOMAIN q : q[i] = p
         IN  SubSeq(q, 1, i - 1) \o SubSeq(q, i + 1, Len(q))
    ELSE q

\* Mutant of Without: a cancelled reconnect leaves its intent behind.
WithoutKeepsIntent(g, p) ==
    [g EXCEPT !.mutations = Dequeue(@, p), !.streamWaiters = @ \ {p}]

\* remove*WaiterLocked: the caller's token leaves whichever queue it is in.
Without(g, p) ==
    [g EXCEPT !.mutations = Dequeue(@, p), !.reconnects = Dequeue(@, p),
              !.streamWaiters = @ \ {p}]

\* The call returns an error: its token, if any, is removed and the others signalled.
Leave(p) ==
    LET c == call[p].client
        left == [call EXCEPT ![p] = IdleCall]
    IN  /\ UNCHANGED <<closed, rootDone>>
        /\ IF call[p].waiting
           THEN /\ gate' = [gate EXCEPT ![c] = Without(@, p)]
                /\ call' = Signal(left, c)
                /\ MaybeDrained
           ELSE call' = left /\ UNCHANGED <<gate, drained>>

\* The caller registers, or stays registered, and sleeps.
Sleep(p) == [call EXCEPT ![p].pc = "asleep", ![p].waiting = TRUE]

\* A lease is granted.
Grant(p, pc) == [call EXCEPT ![p].pc = pc, ![p].waiting = FALSE]

Store == <<closed, rootDone, drained>>

-----------------------------------------------------------------------------
(* Sessions and calls.                                                     *)

\* Fresh: a new client at epoch one, within the capacity.
Fresh(c) ==
    /\ gate[c].epoch = 0
    /\ ~Closed
    /\ Cardinality({d \in Clients : gate[d].epoch # 0}) < MaxSessions
    /\ gate' = [gate EXCEPT ![c].epoch = 1]
    /\ UNCHANGED <<call, Store>>

\* A caller enters with an epoch some caller was once given.
Enter(p, kind, c, e) ==
    /\ call[p].pc = "idle"
    /\ e \in 1 .. gate[c].epoch
    /\ call' = [call EXCEPT ![p] = [IdleCall EXCEPT !.pc = "run", !.kind = kind, !.client = c, !.epoch = e]]
    /\ UNCHANGED <<gate, Store>>

\* The caller's context ends.
CancelCall(p) ==
    /\ call[p].pc \in {"run", "asleep", "checked", "stream"}
    /\ ~call[p].ctxDone
    /\ call' = [call EXCEPT ![p].ctxDone = TRUE]
    /\ UNCHANGED <<gate, Store>>

\* waitForSessionChange returns for the context or the root.
Wake(p) ==
    /\ call[p].pc = "asleep"
    /\ call[p].ctxDone \/ rootDone
    /\ call' = [call EXCEPT ![p].pc = "run"]
    /\ UNCHANGED <<gate, Store>>

-----------------------------------------------------------------------------
(* AcquireMutationCommit and MutationCommitLease.Close.                    *)

MutationRuns(p) == call[p].pc = "run" /\ call[p].kind = "mutation"

\* The context ended, or sessionLocked refused.
MutationLeaves(p) ==
    /\ MutationRuns(p)
    /\ call[p].ctxDone \/ ~Owns(p)
    /\ Leave(p)

\* The fast path of tryAcquireMutationLocked: nobody holds, nobody waits.
GateFree(g) == g.active = None /\ g.mutations = <<>> /\ g.reconnects = <<>>

MutationFast(p) ==
    LET c == call[p].client
    IN  /\ MutationRuns(p) /\ ~call[p].ctxDone /\ Owns(p)
        /\ ~call[p].waiting
        /\ GateFree(gate[c])
        /\ gate' = [gate EXCEPT ![c].active = p]
        /\ call' = Grant(p, "commit")
        /\ UNCHANGED Store

\* No room for another waiter.
MutationRefused(p) ==
    LET g == gate[call[p].client]
    IN  /\ MutationRuns(p) /\ ~call[p].ctxDone /\ Owns(p)
        /\ ~call[p].waiting
        /\ ~GateFree(g)
        /\ GateWaiters(g) >= MaxWaiters
        /\ Leave(p)

\* What a queued mutation waits for: its turn, no holder and no reconnect intent.
MutationTurn(g, p) == g.reconnects = <<>> /\ g.active = None /\ Head(g.mutations) = p

\* Join the queue, or find that it is not yet the caller's turn.
MutationWaits(p) ==
    LET c == call[p].client
        g == IF call[p].waiting THEN gate[c] ELSE [gate[c] EXCEPT !.mutations = Append(@, p)]
    IN  /\ MutationRuns(p) /\ ~call[p].ctxDone /\ Owns(p)
        /\ call[p].waiting \/ (~GateFree(gate[c]) /\ GateWaiters(gate[c]) < MaxWaiters)
        /\ ~MutationTurn(g, p)
        /\ gate' = [gate EXCEPT ![c] = g]
        /\ call' = Sleep(p)
        /\ UNCHANGED Store

\* The head of the queue takes the gate.
MutationTurns(p) ==
    LET c == call[p].client
    IN  /\ MutationRuns(p) /\ ~call[p].ctxDone /\ Owns(p)
        /\ call[p].waiting
        /\ MutationTurn(gate[c], p)
        /\ gate' = [gate EXCEPT ![c].mutations = Tail(@), ![c].active = p]
        /\ call' = Signal(Grant(p, "commit"), c)
        /\ UNCHANGED Store

\* Mutant of CloseCommit: the waiters are not signalled.
CloseCommitSilently(p) ==
    /\ call[p].pc = "commit"
    /\ gate' = [gate EXCEPT ![call[p].client].active = None]
    /\ call' = [call EXCEPT ![p] = IdleCall]
    /\ UNCHANGED <<closed, rootDone>>
    /\ MaybeDrained

\* MutationCommitLease.Close.
CloseCommit(p) ==
    LET c == call[p].client
    IN  /\ call[p].pc = "commit"
        /\ gate' = [gate EXCEPT ![c].active = None]
        /\ call' = Signal([call EXCEPT ![p] = IdleCall], c)
        /\ UNCHANGED <<closed, rootDone>>
        /\ MaybeDrained

-----------------------------------------------------------------------------
(* AcquireStream and StreamLease.Close.                                    *)

StreamRuns(p) == call[p].pc = "run" /\ call[p].kind = "stream"

StreamLeaves(p) ==
    /\ StreamRuns(p)
    /\ call[p].ctxDone \/ ~Owns(p)
    /\ Leave(p)

\* A reconnect holds the gate, or too many streams or waiters: refused.
StreamRefused(p) ==
    LET g == gate[call[p].client]
    IN  /\ StreamRuns(p) /\ ~call[p].ctxDone /\ Owns(p)
        /\ \/ g.reconnects = <<>> /\ Cardinality(g.streams) >= MaxStreams
           \/ g.reconnects # <<>> /\ ~call[p].waiting /\ GateWaiters(g) >= MaxWaiters
        /\ Leave(p)

StreamWaits(p) ==
    LET c == call[p].client
    IN  /\ StreamRuns(p) /\ ~call[p].ctxDone /\ Owns(p)
        /\ gate[c].reconnects # <<>>
        /\ call[p].waiting \/ GateWaiters(gate[c]) < MaxWaiters
        /\ gate' = [gate EXCEPT ![c].streamWaiters = @ \cup {p}]
        /\ call' = Sleep(p)
        /\ UNCHANGED Store

StreamGranted(p) ==
    LET c == call[p].client
        granted == Grant(p, "stream")
    IN  /\ StreamRuns(p) /\ ~call[p].ctxDone /\ Owns(p)
        /\ gate[c].reconnects = <<>>
        /\ Cardinality(gate[c].streams) < MaxStreams
        /\ gate' = [gate EXCEPT ![c].streamWaiters = @ \ {p}, ![c].streams = @ \cup {p}]
        /\ call' = IF call[p].waiting THEN Signal(granted, c) ELSE granted
        /\ UNCHANGED Store

\* StreamLease.Close.
CloseStream(p) ==
    LET c == call[p].client
    IN  /\ call[p].pc = "stream"
        /\ gate' = [gate EXCEPT ![c].streams = @ \ {p}]
        /\ call' = Signal([call EXCEPT ![p] = IdleCall], c)
        /\ UNCHANGED <<closed, rootDone>>
        /\ MaybeDrained

-----------------------------------------------------------------------------
(* ReconnectContext.                                                       *)

ReconnectRuns(p) == call[p].pc = "run" /\ call[p].kind = "reconnect"

\* registerReconnect refuses.
ReconnectRefused(p) ==
    /\ ReconnectRuns(p) /\ ~call[p].waiting
    /\ \/ call[p].ctxDone
       \/ ~Owns(p)
       \/ call[p].epoch = MaxEpoch
       \/ GateWaiters(gate[call[p].client]) >= MaxWaiters
    /\ Leave(p)

\* registerReconnect: the intent is queued.  The context was checked without the lock, so it
\* may have ended since.
ReconnectRegisters(p) ==
    LET c == call[p].client
    IN  /\ ReconnectRuns(p) /\ ~call[p].waiting
        /\ Owns(p) /\ call[p].epoch # MaxEpoch
        /\ GateWaiters(gate[c]) < MaxWaiters
        /\ gate' = [gate EXCEPT ![c].reconnects = Append(@, p)]
        /\ call' = Signal([call EXCEPT ![p].waiting = TRUE], c)
        /\ UNCHANGED Store

\* Head of the loop, without the lock: the context is still good ...
ReconnectChecks(p) ==
    /\ ReconnectRuns(p) /\ call[p].waiting
    /\ ~call[p].ctxDone
    /\ call' = [call EXCEPT ![p].pc = "checked"]
    /\ UNCHANGED <<gate, Store>>

\* ... or it ended: removeReconnectLocked.
ReconnectCancelled(p) ==
    /\ ReconnectRuns(p) /\ call[p].waiting
    /\ call[p].ctxDone
    /\ Leave(p)

\* reconnectStepLocked: the store is closed, or another claimant won.
ReconnectLeaves(p) ==
    /\ call[p].pc = "checked"
    /\ ~Owns(p)
    /\ Leave(p)

\* Mutant of ReconnectTurn: the active commit is not drained.
ReconnectTurnAtOnce(g, p) == Head(g.reconnects) = p

\* First in line, and no commit in progress.
ReconnectTurn(g, p) == Head(g.reconnects) = p /\ g.active = None

\* Not its turn, or streams still joining.
ReconnectWaits(p) ==
    LET g == gate[call[p].client]
    IN  /\ call[p].pc = "checked" /\ Owns(p)
        /\ ~ReconnectTurn(g, p) \/ (call[p].fencing /\ g.streams # {})
        /\ call' = Sleep(p)
        /\ UNCHANGED <<gate, Store>>

\* Begin fencing: every stream of the old epoch is cancelled, and the loop goes round.
ReconnectFences(p) ==
    LET c == call[p].client
    IN  /\ call[p].pc = "checked" /\ Owns(p)
        /\ ReconnectTurn(gate[c], p)
        /\ ~call[p].fencing /\ gate[c].streams # {}
        /\ call' = [q \in Callers |->
                        IF q = p THEN [call[q] EXCEPT !.pc = "run", !.fencing = TRUE]
                        ELSE IF q \in gate[c].streams THEN [call[q] EXCEPT !.cancelled = TRUE]
                        ELSE call[q]]
        /\ UNCHANGED <<gate, Store>>

\* Mutant of ReconnectAdvances: cancelled streams are not joined.
ReconnectAdvancesUnjoined(p) ==
    LET c == call[p].client
    IN  /\ call[p].pc = "checked" /\ Owns(p)
        /\ ReconnectTurn(gate[c], p)
        /\ gate[c].streams = {} \/ call[p].fencing
        /\ gate' = [gate EXCEPT ![c].epoch = @ + 1, ![c].reconnects = Tail(@)]
        /\ call' = Signal([call EXCEPT ![p] = IdleCall], c)
        /\ UNCHANGED Store

\* advanceReconnectLocked: the epoch moves, the intent leaves, everyone is signalled.
ReconnectAdvances(p) ==
    LET c == call[p].client
    IN  /\ call[p].pc = "checked" /\ Owns(p)
        /\ ReconnectTurn(gate[c], p)
        /\ gate[c].streams = {}
        /\ gate' = [gate EXCEPT ![c].epoch = @ + 1, ![c].reconnects = Tail(@)]
        /\ call' = Signal([call EXCEPT ![p] = IdleCall], c)
        /\ UNCHANGED Store

-----------------------------------------------------------------------------
(* Close, and the root it also runs from.                                  *)

\* Close: every client is signalled, every stream and finally the root cancelled.
CloseStore ==
    /\ ~closed
    /\ closed' = TRUE /\ rootDone' = TRUE
    /\ call' = [q \in Callers |->
                    CASE call[q].pc = "asleep" -> [call[q] EXCEPT !.pc = "run"]
                      [] call[q].pc = "stream" -> [call[q] EXCEPT !.cancelled = TRUE]
                      [] OTHER -> call[q]]
    /\ UNCHANGED gate
    /\ MaybeDrained

\* The daemon's root context ends; the AfterFunc calls Close.
CancelRoot ==
    /\ ~rootDone
    /\ rootDone' = TRUE
    /\ call' = [q \in Callers |-> IF call[q].pc = "stream" THEN [call[q] EXCEPT !.cancelled = TRUE]
                                  ELSE call[q]]
    /\ UNCHANGED <<gate, closed, drained>>

-----------------------------------------------------------------------------

Init ==
    /\ gate = [c \in Clients |-> NoSession]
    /\ call = [p \in Callers |-> IdleCall]
    /\ closed = FALSE /\ rootDone = FALSE /\ drained = FALSE

Mutation(p) ==
    \/ MutationLeaves(p) \/ MutationFast(p) \/ MutationRefused(p)
    \/ MutationWaits(p) \/ MutationTurns(p)

StreamCall(p) == StreamLeaves(p) \/ StreamRefused(p) \/ StreamWaits(p) \/ StreamGranted(p)

Reconnect(p) ==
    \/ ReconnectRefused(p) \/ ReconnectRegisters(p) \/ ReconnectChecks(p)
    \/ ReconnectCancelled(p) \/ ReconnectLeaves(p) \/ ReconnectWaits(p)
    \/ ReconnectFences(p) \/ ReconnectAdvances(p)

Steps(p) == Wake(p) \/ Mutation(p) \/ StreamCall(p) \/ Reconnect(p)

Next ==
    \/ \E c \in Clients : Fresh(c)
    \/ \E p \in Callers :
        \/ \E c \in Clients, kind \in {"mutation", "stream", "reconnect"}, e \in 1 .. MaxEpoch :
              Enter(p, kind, c, e)
        \/ CancelCall(p)
        \/ Steps(p)
        \/ CloseCommit(p)
        \/ CloseStream(p)
    \/ CloseStore
    \/ CancelRoot

Spec == Init /\ [][Next]_vars

\* A stream whose context ended.
StreamCancelled(p) == call[p].cancelled \/ call[p].ctxDone

\* Every runnable goroutine runs; a commit lease is closed at once; a stream handler whose
\* context ended joins its senders and closes its lease; the AfterFunc of the root runs.
Fairness ==
    /\ \A p \in Callers :
        /\ WF_vars(Steps(p))
        /\ WF_vars(CloseCommit(p))
        /\ WF_vars(StreamCancelled(p) /\ CloseStream(p))
    /\ WF_vars(rootDone /\ CloseStore)

FairSpec == Spec /\ Fairness

-----------------------------------------------------------------------------
(* Properties.                                                             *)

SessionType == [epoch : 0 .. MaxEpoch, active : Callers \cup {None},
                mutations : Seq(Callers), reconnects : Seq(Callers),
                streamWaiters : SUBSET Callers, streams : SUBSET Callers]

CallType == [pc : {"idle", "run", "asleep", "checked", "commit", "stream"},
             kind : {"none", "mutation", "stream", "reconnect"},
             client : Clients \cup {None}, epoch : 0 .. MaxEpoch, waiting : BOOLEAN,
             fencing : BOOLEAN, ctxDone : BOOLEAN, cancelled : BOOLEAN]

\* Types; with them, that no step takes an epoch past its last value.
TypeOK ==
    /\ gate \in [Clients -> SessionType] /\ call \in [Callers -> CallType]
    /\ closed \in BOOLEAN /\ rootDone \in BOOLEAN /\ drained \in BOOLEAN

\* A commit or stream lease is held only by the current epoch: once a reconnect has returned
\* the next epoch, nothing of the old owner can still commit or send a frame.
LeasesAreCurrent ==
    \A p \in Callers :
        call[p].pc \in {"commit", "stream"} => call[p].epoch = gate[call[p].client].epoch

\* At most one caller is inside the commit boundary of a client, across fast-path grants,
\* queue hand-overs and reconnects.
CommitIsExclusive ==
    \A p, q \in Callers :
        call[p].pc = "commit" /\ call[q].pc = "commit" /\ call[p].client = call[q].client => p = q

\* What the three queues, the active lease and the stream set hold are exactly the callers
\* that wait or hold, each once, and both capacities are respected.
GateMatchesCallers ==
    \A c \in Clients :
        LET waiting(kind) == {p \in Callers : call[p].client = c /\ call[p].waiting /\ call[p].kind = kind}
            holding(pc) == {p \in Callers : call[p].client = c /\ call[p].pc = pc}
        IN  /\ IsInjective(gate[c].mutations) /\ Range(gate[c].mutations) = waiting("mutation")
            /\ IsInjective(gate[c].reconnects) /\ Range(gate[c].reconnects) = waiting("reconnect")
            /\ gate[c].streamWaiters = waiting("stream")
            /\ gate[c].streams = holding("stream")
            /\ holding("commit") = {gate[c].active} \ {None}
            /\ GateWaiters(gate[c]) <= MaxWaiters
            /\ Cardinality(gate[c].streams) <= MaxStreams

\* What caller p waits for has not happened.
Blocked(p, k, g) ==
    /\ k.kind = "mutation" => ~MutationTurn(g, p)
    /\ k.kind = "stream" => g.reconnects # <<>>
    /\ k.kind = "reconnect" => ~ReconnectTurn(g, p) \/ (k.fencing /\ g.streams # {})

\* No lost wakeup: a caller sleeps only while its session is current and what it waits for has
\* not happened; every step that makes it happen signals the client's changed channel.
NoMissedSignal ==
    \A p \in Callers : call[p].pc = "asleep" /\ ~Closed =>
        Owns(p) /\ Blocked(p, call[p], gate[call[p].client])

\* Shutdown reports the drain only when nothing is held or queued, and it stays so.
NoFalseDrain ==
    drained => /\ closed
               /\ \A p \in Callers : call[p].pc \notin {"commit", "stream"} /\ ~call[p].waiting

\* The gates of the store are sound: types and bounds, current leases, exclusive commits,
\* no sleeper forgotten and no drain reported early.
GatesAreSound == TypeOK /\ LeasesAreCurrent /\ CommitIsExclusive /\ NoMissedSignal /\ NoFalseDrain

\* An epoch moves by one, on behalf of a caller that named the old one, and only while no
\* lease of that client is held.
EpochStep ==
    \A c \in Clients : gate'[c].epoch # gate[c].epoch /\ gate[c].epoch # 0 =>
        /\ gate'[c].epoch = gate[c].epoch + 1
        /\ \A p \in Callers : call[p].client = c => call[p].pc \notin {"commit", "stream"}
        /\ \E p \in Callers : /\ call[p].kind = "reconnect" /\ call[p].client = c
                              /\ call[p].epoch = gate[c].epoch /\ call'[p].pc = "idle"

\* A reconnect intent stops every new lease of its client, and among mutations nobody
\* overtakes the head of the queue.
QueueStep ==
    \A p \in Callers : call[p].pc = "run" /\ call'[p].pc \in {"commit", "stream"} =>
        LET g == gate[call[p].client]
        IN  /\ g.reconnects = <<>>
            /\ call'[p].pc = "commit" /\ g.mutations # <<>> => Head(g.mutations) = p

\* A reconnect fences: the epoch moves only while no lease is held, and no lease is granted
\* past a registered reconnect or past the head of the queue.
ReconnectsFence == [][EpochStep /\ QueueStep]_vars

InCall(p, kind) == call[p].kind = kind /\ call[p].pc \in {"run", "asleep", "checked"}

\* A registered reconnect is decided: commits end, cancelled streams join, claimants ahead of
\* it win or leave.
ReconnectDecides == \A p \in Callers : []<>~InCall(p, "reconnect")

\* Unless reconnects keep coming, every mutation and stream call returns.
CallsReturn ==
    (<>[](\A c \in Clients : gate[c].reconnects = <<>>)) =>
        \A p \in Callers : /\ []<>~InCall(p, "mutation")
                           /\ []<>~InCall(p, "stream")

\* Closing the store, or ending the daemon's root, drains it.
CloseDrains == []<>(rootDone => drained)
=============================================================================
