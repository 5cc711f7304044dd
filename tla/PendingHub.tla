----------------------------- MODULE PendingHub -----------------------------
(***************************************************************************)
(* The pending interaction hub (daemon/pending.go): the runs bound to a    *)
(* client, the interactions their agents wait for, and the observers that  *)
(* follow a client's pending set as one snapshot and the changes after it. *)
(*                                                                         *)
(* A caller is a goroutine in Request; an observer is a subscription with  *)
(* its delivery goroutine and its consumer.  Every operation holds the     *)
(* hub's lock.  One interaction of a run is pending at a time, so that a   *)
(* run stands for its key.  Byte limits have the shape of the entry limits *)
(* and are left out.                                                       *)
(***************************************************************************)
EXTENDS Integers, Sequences, FiniteSets, FiniteSetsExt, SequencesExt

CONSTANTS
    Clients,
    Runs,
    Callers,
    Observers,
    None,
    MaxPending,             \* limits.PendingPerClient
    MaxObservers,           \* limits.Observers and ObserversPerClient
    QueueEntries,           \* limits.ObserverQueueEntries
    ReservedEntries,        \* limits.ReservedQueueEntries
    QueuedEntries,          \* limits.QueuedEntries
    MaxRevision             \* math.MaxUint64

\* validatePendingLimits.
ValidLimits ==
    /\ {MaxPending, MaxObservers, QueueEntries, MaxRevision} \subseteq Nat \ {0}
    /\ ReservedEntries \div QueueEntries >= MaxObservers
    /\ QueuedEntries >= ReservedEntries

VARIABLES
    hub,        \* counters and the closed flag
    part,       \* the partition of each client
    binding,    \* the run bindings
    caller,     \* the goroutines in Request
    observer,   \* subscriptions
    fence       \* a FenceObservers call for each client

vars == <<hub, part, binding, caller, observer, fence>>

NoBinding == [client |-> None, accepting |-> FALSE, active |-> 0]
IdleCaller == [run |-> None, client |-> None, result |-> None]
NoObserver == [pc |-> "gone", client |-> None, active |-> FALSE, err |-> None, queue |-> <<>>, item |-> None,
               queued |-> 0, last |-> 0, view |-> {}, seen |-> 0, old |-> FALSE]

Pending(k) == {r \in Runs : part[k].pending[r] # None}
Watchers(k) == {w \in Observers : observer[w].active /\ observer[w].client = k}

-----------------------------------------------------------------------------
(* Publication to a partition's observers.                                 *)

\* Mutant of FinishWatcher: the queued entries stay accounted.
FinishWatcherKeeps(h, o, err) ==
    <<[h EXCEPT !.observers = @ - 1, !.reserved = @ - QueueEntries],
      [o EXCEPT !.active = FALSE, !.err = err, !.queued = 0]>>

\* finishWatcherLocked: the observer leaves the counters and is told to stop.
FinishWatcher(h, o, err) ==
    <<[h EXCEPT !.observers = @ - 1, !.reserved = @ - QueueEntries, !.queued = @ - o.queued],
      [o EXCEPT !.active = FALSE, !.err = err, !.queued = 0]>>

\* Mutant of Enqueue: a full queue drops the change and keeps the observer.
EnqueueDrops(h, o, delta) ==
    IF o.queued >= QueueEntries \/ h.queued >= QueuedEntries THEN <<h, o>>
    ELSE <<[h EXCEPT !.queued = @ + 1], [o EXCEPT !.queued = @ + 1, !.queue = Append(@, delta)]>>

\* enqueueLocked: an observer whose queue is full is ended, not skipped.
Enqueue(h, o, delta) ==
    IF o.queued >= QueueEntries THEN FinishWatcher(h, o, "own queue")
    ELSE IF h.queued >= QueuedEntries THEN FinishWatcher(h, o, "shared queue")
    ELSE <<[h EXCEPT !.queued = @ + 1], [o EXCEPT !.queued = @ + 1, !.queue = Append(@, delta)]>>

\* publishLocked, to each of the client's observers.
Publish(h, obs, k, delta) ==
    FoldSet(LAMBDA w, acc : LET done == Enqueue(acc[1], acc[2][w], delta) IN <<done[1], [acc[2] EXCEPT ![w] = done[2]]>>,
            <<h, obs>>, {w \in Observers : obs[w].active /\ obs[w].client = k})

\* The state of the partitions, and its next revision with run r's call set.
State == [hub |-> hub, part |-> part, observer |-> observer]

Changed(st, k, r, c) ==
    LET p == [revision |-> st.part[k].revision + 1, pending |-> [st.part[k].pending EXCEPT ![r] = c]]
        done == Publish([st.hub EXCEPT !.pending = IF c # None THEN @ + 1 ELSE @ - 1], st.observer, k,
                        [revision |-> p.revision, opened |-> c # None, run |-> r])
    IN  [hub |-> done[1], part |-> [st.part EXCEPT ![k] = p], observer |-> done[2]]

Become(st) == hub' = st.hub /\ part' = st.part /\ observer' = st.observer

-----------------------------------------------------------------------------
(* Run bindings.                                                           *)

\* removeReleasedBindingLocked.
Reclaimed(b) == IF ~b.accepting /\ b.active = 0 THEN NoBinding ELSE b

BindRun(r, k) ==
    /\ ~hub.closed /\ binding[r] = NoBinding
    /\ binding' = [binding EXCEPT ![r] = [client |-> k, accepting |-> TRUE, active |-> 0]]
    /\ UNCHANGED <<hub, part, caller, observer, fence>>

\* RunBinding.Release: what was accepted stays respondable.
Release(r) ==
    /\ binding[r].accepting
    /\ binding' = [binding EXCEPT ![r] = Reclaimed([@ EXCEPT !.accepting = FALSE])]
    /\ UNCHANGED <<hub, part, caller, observer, fence>>

-----------------------------------------------------------------------------
(* Requests and responses.                                                 *)

\* hasPendingCapacity, and the revisions needed to close all that is pending.
HasRoom(k) ==
    /\ hub.pending < MaxPending
    /\ part[k].revision + Cardinality(Pending(k)) + 2 <= MaxRevision

Request(c, r) ==
    LET k == binding[r].client
    IN  /\ caller[c] = IdleCaller /\ ~hub.closed /\ binding[r].accepting
        /\ part[k].pending[r] = None /\ HasRoom(k)
        /\ caller' = [caller EXCEPT ![c] = [run |-> r, client |-> k, result |-> None]]
        /\ binding' = [binding EXCEPT ![r].active = @ + 1]
        /\ Become(Changed(State, k, r, c))
        /\ UNCHANGED fence

\* finishCallLocked: the call leaves the pending set with its result.
FinishCall(c, result) ==
    LET r == caller[c].run
        k == caller[c].client
    IN  /\ caller' = [caller EXCEPT ![c].result = result]
        /\ binding' = [binding EXCEPT ![r] = Reclaimed([@ EXCEPT !.active = @ - 1])]
        /\ Become(Changed(State, k, r, None))
        /\ UNCHANGED fence

\* Respond of the binding's client to the interaction pending for the run.
Respond(k, r) ==
    /\ ~hub.closed /\ binding[r].client = k /\ part[k].pending[r] # None
    /\ FinishCall(part[k].pending[r], "answered")

\* The context of a pending request ends: complete takes it out if it is its own.
CancelRequest(c) ==
    /\ caller[c] # IdleCaller /\ part[caller[c].client].pending[caller[c].run] = c
    /\ FinishCall(c, "cancelled")

\* Request returns the call's result.
Return(c) ==
    /\ caller[c].result # None
    /\ caller' = [caller EXCEPT ![c] = IdleCaller]
    /\ UNCHANGED <<hub, part, binding, observer, fence>>

-----------------------------------------------------------------------------
(* Observers.                                                              *)

\* Subscribe: snapshot, registration and reservation under one lock.
Subscribe(w, k) ==
    /\ ~hub.closed /\ observer[w].pc = "gone"
    /\ hub.observers < MaxObservers /\ hub.reserved <= ReservedEntries - QueueEntries
    /\ hub' = [hub EXCEPT !.observers = @ + 1, !.reserved = @ + QueueEntries]
    /\ observer' = [observer EXCEPT ![w] = [NoObserver EXCEPT !.pc = "select", !.client = k, !.active = TRUE,
                       !.last = part[k].revision, !.seen = part[k].revision, !.view = Pending(k)]]
    /\ UNCHANGED <<part, binding, caller, fence>>

\* The consumer's view of the pending set.
Applied(view, delta) == IF delta.opened THEN view \cup {delta.run} ELSE view \ {delta.run}

\* deliver: a change is taken from the queue,
Take(w) ==
    /\ observer[w].pc = "select" /\ observer[w].queue # <<>>
    /\ observer' = [observer EXCEPT ![w].pc = "sending", ![w].item = Head(observer[w].queue), ![w].queue = Tail(@)]
    /\ UNCHANGED <<hub, part, binding, caller, fence>>

\* is received by the consumer, even while the observer is being stopped,
Send(w) ==
    /\ observer[w].pc = "sending"
    /\ observer' = [observer EXCEPT ![w].pc = "sent", ![w].seen = observer[w].item.revision,
                       ![w].view = Applied(@, observer[w].item)]
    /\ UNCHANGED <<hub, part, binding, caller, fence>>

\* and is then taken off the counters, unless the observer left them before.
Delivered(w) ==
    /\ observer[w].pc = "sent"
    /\ observer' = [observer EXCEPT ![w].pc = "select", ![w].last = observer[w].item.revision, ![w].item = None,
                       ![w].queued = IF observer[w].active THEN @ - 1 ELSE @]
    /\ hub' = [hub EXCEPT !.queued = IF observer[w].active THEN @ - 1 ELSE @]
    /\ UNCHANGED <<part, binding, caller, fence>>

\* Mutant of Stopped: a delivery that waits for its consumer does not see the stop.
StoppedBetween(w) ==
    /\ observer[w].pc = "select" /\ ~observer[w].active
    /\ observer' = [observer EXCEPT ![w] = NoObserver]
    /\ fence' = [k \in Clients |-> IF fence[k] = None THEN None ELSE fence[k] \ {w}]
    /\ UNCHANGED <<hub, part, binding, caller>>

\* The delivery goroutine sees the stop and ends the stream.
Stopped(w) ==
    /\ observer[w].pc \in {"select", "sending"} /\ ~observer[w].active
    /\ observer' = [observer EXCEPT ![w] = NoObserver]
    /\ fence' = [k \in Clients |-> IF fence[k] = None THEN None ELSE fence[k] \ {w}]
    /\ UNCHANGED <<hub, part, binding, caller>>

\* The subscriber's context ends.
Detach(w) ==
    /\ observer[w].active
    /\ LET done == FinishWatcher(hub, observer[w], "cancelled")
       IN  hub' = done[1] /\ observer' = [observer EXCEPT ![w] = done[2]]
    /\ UNCHANGED <<part, binding, caller, fence>>

-----------------------------------------------------------------------------
(* FenceObservers and Close.                                               *)

FinishAll(st, ws, err) ==
    FoldSet(LAMBDA w, acc : LET done == FinishWatcher(acc.hub, acc.observer[w], err)
                            IN  [acc EXCEPT !.hub = done[1], !.observer[w] = done[2]],
            st, ws)

\* The observers a fence waits for: the active ones and those still stopping.
Joinable(k) == {w \in Observers : observer[w].client = k /\ observer[w].pc # "gone"}

FenceObservers(k) ==
    /\ fence[k] = None /\ ~hub.closed
    /\ fence' = [fence EXCEPT ![k] = Joinable(k)]
    /\ LET st == FinishAll(State, Watchers(k), "fenced")
       IN  Become([st EXCEPT !.observer = [w \in Observers |->
              [st.observer[w] EXCEPT !.old = @ \/ (observer[w].client = k /\ observer[w].pc # "gone")]]])
    /\ UNCHANGED <<binding, caller>>

FenceReturns(k) ==
    /\ fence[k] = {}
    /\ fence' = [fence EXCEPT ![k] = None]
    /\ UNCHANGED <<hub, part, binding, caller, observer>>

\* Close, under the lock: every pending call ends and publishes its change,
\* every binding and observer goes.
Close ==
    LET open == {r \in Runs : binding[r] # NoBinding /\ part[binding[r].client].pending[r] # None}
        ended == {part[binding[r].client].pending[r] : r \in open}
        st == FoldSet(LAMBDA r, acc : Changed(acc, binding[r].client, r, None), State, open)
        last == FinishAll(st, {w \in Observers : st.observer[w].active}, "closed")
    IN  /\ ~hub.closed
        /\ Become([last EXCEPT !.hub.closed = TRUE])
        /\ caller' = [c \in Callers |-> IF c \in ended THEN [caller[c] EXCEPT !.result = "closed"] ELSE caller[c]]
        /\ binding' = [r \in Runs |-> NoBinding]
        /\ UNCHANGED fence

Closed ==
    /\ hub.closed /\ \A w \in Observers : observer[w].pc = "gone"
    /\ \A c \in Callers : caller[c] = IdleCaller
    /\ \A k \in Clients : fence[k] = None
    /\ UNCHANGED vars

-----------------------------------------------------------------------------
Init ==
    /\ ValidLimits
    /\ hub = [closed |-> FALSE, pending |-> 0, observers |-> 0, reserved |-> 0, queued |-> 0]
    /\ part = [k \in Clients |-> [revision |-> 0, pending |-> [r \in Runs |-> None]]]
    /\ binding = [r \in Runs |-> NoBinding]
    /\ caller = [c \in Callers |-> IdleCaller]
    /\ observer = [w \in Observers |-> NoObserver]
    /\ fence = [k \in Clients |-> None]

DeliverStep(w) == Take(w) \/ Send(w) \/ Delivered(w) \/ Stopped(w)

Next ==
    \/ \E r \in Runs : Release(r) \/ \E k \in Clients : BindRun(r, k) \/ Respond(k, r)
    \/ \E c \in Callers : CancelRequest(c) \/ Return(c) \/ \E r \in Runs : Request(c, r)
    \/ \E w \in Observers : DeliverStep(w) \/ Detach(w) \/ \E k \in Clients : Subscribe(w, k)
    \/ \E k \in Clients : FenceObservers(k) \/ FenceReturns(k)
    \/ Close \/ Closed

\* The goroutines of callers, observers and fences run; a client need not
\* respond, subscribe or read.
Fairness ==
    /\ \A c \in Callers : WF_vars(Return(c))
    /\ \A w \in Observers : WF_vars(Delivered(w) \/ Stopped(w))
    /\ \A k \in Clients : WF_vars(FenceReturns(k))

Spec == Init /\ [][Next]_vars
FairSpec == Spec /\ Fairness

-----------------------------------------------------------------------------
\* What a delivery goroutine has left to send.
Rest(o) == (IF o.pc = "sending" THEN <<o.item>> ELSE <<>>) \o o.queue

\* An observer is told every change once and in order, and what it was told
\* together with what it will be told is the client's pending set: snapshot
\* and tail leave no gap, while queues overflow, the client reconnects or the
\* hub closes (Subscribe, publishLocked, deliver).  LastDelivered lags by at
\* most the change in hand.
ViewIsExact ==
    \A w \in Observers :
        LET o == observer[w]
            rest == Rest(o)
        IN  /\ \A i \in DOMAIN rest : rest[i].revision = o.seen + i
            /\ o.pc # "sent" => o.last = o.seen
            /\ o.active => /\ Len(rest) = part[o.client].revision - o.seen
                           /\ FoldLeft(Applied, o.view, rest) = Pending(o.client)

\* The counters are what they count, the limits hold, and an observer is only
\* ever ended for its own full queue: the shared queue limit, funded by
\* validatePendingLimits, is never the one that runs out.
AccountsAreExact ==
    /\ hub.pending = Cardinality({c \in Callers : caller[c] # IdleCaller /\ caller[c].result = None}) /\ hub.pending <= MaxPending
    /\ hub.observers = Cardinality({w \in Observers : observer[w].active})
    /\ hub.reserved = hub.observers * QueueEntries /\ hub.reserved <= ReservedEntries
    /\ hub.queued = MapThenSumSet(LAMBDA w : observer[w].queued, Observers)
    /\ \A w \in Observers : observer[w].err # "shared queue"
    /\ \A k \in Clients : part[k].revision + Cardinality(Pending(k)) <= MaxRevision

\* The pending calls of a client are the requests that wait in its runs, each
\* once: a call that was cancelled takes nobody else's interaction away, and
\* a binding lives as long as a call that was accepted under it (Request,
\* Respond, complete, removeReleasedBindingLocked).
CallsMatch ==
    /\ \A k \in Clients, r \in Runs :
          LET c == part[k].pending[r]
          IN  c # None => caller[c] = [run |-> r, client |-> k, result |-> None] /\ binding[r].client = k
    /\ \A c \in Callers : caller[c] # IdleCaller /\ caller[c].result = None => part[caller[c].client].pending[caller[c].run] = c
    /\ \A r \in Runs : binding[r].active = Cardinality({c \in Callers : caller[c].run = r /\ caller[c].result = None})

\* When FenceObservers has returned, no observer that was there before it can
\* be delivered anything: the reconnected client is alone.
FencedIsSilent ==
    \A w \in Observers : observer[w].old /\ observer[w].pc # "gone" => fence[observer[w].client] # None \/ hub.closed

\* A fence returns and a closed hub comes to rest, whether or not anybody
\* reads or responds.
FencesReturn == \A k \in Clients : []<>(fence[k] = None)
CloseEnds ==
    []<>(hub.closed => \A c \in Callers, w \in Observers : caller[c] = IdleCaller /\ observer[w].pc = "gone")

=============================================================================
