---------------------------- MODULE Negotiation ----------------------------
(***************************************************************************)
(* Negotiating a client session: the client's Connector.Initialize         *)
(* (client/grpcclient/client.go), the unreliable channel, the server's     *)
(* Initialize handler (daemon/grpcserver/service.go) with its registry of  *)
(* negotiated sessions and of initialization attempts                      *)
(* (session_registry.go, initialization_attempts.go), and the session      *)
(* store reduced to its epochs (SessionStore models it in full).           *)
(*                                                                         *)
(* A caller is a goroutine in Connector.Initialize.  It makes one RPC, or  *)
(* two when its request carries an attempt identity, and each RPC is a     *)
(* handler of its own: the first may still run when the second arrives.    *)
(* A request is what fingerprintInitializeRequest tells apart, fresh or    *)
(* the claim on an epoch; its limits and capabilities are in Contract.     *)
(***************************************************************************)
EXTENDS Integers, FiniteSets, FiniteSetsExt

CONSTANTS
    Callers,
    Attempts,       \* initialization attempt identities
    Clients,        \* the client IDs the store may allocate
    None,
    MaxSessions,    \* registry.maximum
    MaxWaiters,     \* maximumReconnectWaitersPerClient, maximumInitializationWaitersPerAttempt
    MaxUsers,       \* the connector's reconnect gate: one waiter and its owner
    MaxEpoch,
    MaxCalls,       \* how many times Initialize is called
    MaxFaults       \* how many RPCs are lost or given up

VARIABLES
    store,      \* SessionStore: the epoch of each client, 0 when absent
    reg,        \* negotiatedSessionRegistry
    handler,    \* one Initialize RPC per caller and try
    caller,     \* the goroutines in Connector.Initialize
    conn,       \* the connector's sessions and reconnect gates
    effects     \* history: the store mutation made for each attempt and request

vars == <<store, reg, handler, caller, conn, effects>>

Slots == Callers \X {1, 2}
Fresh == [id |-> None, epoch |-> 0]
IdleHandler == [pc |-> "idle", attempt |-> None, claim |-> Fresh, live |-> TRUE, signal |-> None,
                made |-> None, out |-> None]
IdleCaller == [pc |-> "idle", attempt |-> None, claim |-> Fresh, try |-> 1]
Granted(k, e) == [code |-> "ok", id |-> k, epoch |-> e]
Error(code) == [code |-> code, id |-> None, epoch |-> 0]

\* registry.closedLocked.
RegistryClosed == reg.closed \/ reg.root

\* The handler moves on; it answers after its deferred calls have run.
Go(h, pc) == handler' = [handler EXCEPT ![h].pc = pc]
\* initializeContextOrFailure: a caller that has gone is told so, whatever the error was.
Answer(h, out) == handler' = [handler EXCEPT ![h] = IF @.live THEN [@ EXCEPT !.pc = "reply", !.out = out] ELSE IdleHandler]

-----------------------------------------------------------------------------
(* Initialization attempts.                                                *)

\* A legacy request; requireAuthenticated refuses it when the service is stopping.
Arrive(h) ==
    /\ handler[h].pc = "arrived" /\ handler[h].attempt = None
    /\ IF reg.root THEN Answer(h, Error("unreachable")) ELSE Go(h, "begin")
    /\ UNCHANGED <<store, reg, caller, conn, effects>>

\* inspectInitializationAttempt: become the owner, replay, wait, or fail.
Inspect(h) ==
    LET a == handler[h].attempt
        record == reg.attempts[a]
    IN
    /\ handler[h].pc = "arrived" /\ a # None
    /\ \/ reg.root /\ Answer(h, Error("unreachable")) /\ UNCHANGED reg
       \/ ~handler[h].live /\ Answer(h, Error("canceled")) /\ UNCHANGED reg
       \/ handler[h].live /\ RegistryClosed /\ Answer(h, Error("unavailable")) /\ UNCHANGED reg
       \/ /\ handler[h].live /\ ~RegistryClosed /\ record = None /\ reg.pending >= MaxSessions
          /\ Answer(h, Error("capacity")) /\ UNCHANGED reg
       \/ /\ handler[h].live /\ ~RegistryClosed /\ record = None /\ reg.pending < MaxSessions
          /\ reg' = [reg EXCEPT !.attempts[a] = [claim |-> handler[h].claim, response |-> None, waiters |-> 0, owner |-> h],
                                !.pending = @ + 1]
          /\ Go(h, "begin")
       \/ /\ handler[h].live /\ ~RegistryClosed /\ record # None
          /\ IF record.claim # handler[h].claim THEN Answer(h, Error("conflict")) /\ UNCHANGED reg
             ELSE IF record.response # None THEN Answer(h, record.response) /\ UNCHANGED reg
             ELSE IF record.waiters >= MaxWaiters THEN Answer(h, Error("capacity")) /\ UNCHANGED reg
             ELSE Go(h, "wait") /\ reg' = [reg EXCEPT !.attempts[a].waiters = @ + 1]
    /\ UNCHANGED <<store, caller, conn, effects>>

\* The handlers that hold attempt a's pending record see its done channel closed.
Signalled(a, signal) ==
    [h \in Slots |-> IF handler[h].pc = "wait" /\ handler[h].attempt = a /\ handler[h].signal = None
                     THEN [handler[h] EXCEPT !.signal = signal] ELSE handler[h]]

\* waitForInitializationAttempt: a committed response wins over a cancellation;
\* an aborted owner leaves the waiters to race for the reservation.
AwaitAttempt(h) ==
    LET a == handler[h].attempt
        signal == handler[h].signal
        waited == IF signal = None /\ reg.attempts[a] # None
                  THEN [reg EXCEPT !.attempts[a].waiters = @ - 1] ELSE reg
    IN
    /\ handler[h].pc = "wait"
    /\ signal # None \/ ~handler[h].live \/ RegistryClosed
    /\ reg' = waited
    /\ IF signal # None /\ signal.code = "ok" THEN Answer(h, signal)
       ELSE \/ signal # None /\ handler' = [handler EXCEPT ![h].pc = "arrived", ![h].signal = None]
            \/ ~handler[h].live /\ Answer(h, Error("canceled"))
            \/ RegistryClosed /\ Answer(h, Error("unavailable"))
    /\ UNCHANGED <<store, caller, conn, effects>>

-----------------------------------------------------------------------------
(* A fresh session.                                                        *)

Entries == {k \in Clients : reg.entries[k] # None}
Fail(h, code) == handler' = [handler EXCEPT ![h].pc = "abort", ![h].out = Error(code)]

\* Describe or PreflightInitialize fails, before anything is allocated.
Reject(h) ==
    /\ handler[h].pc = "begin"
    /\ Fail(h, "rejected")
    /\ UNCHANGED <<store, reg, caller, conn, effects>>

\* beginFreshTransaction: room in the registry is reserved before the store allocates.
BeginFresh(h) ==
    /\ handler[h].pc = "begin" /\ handler[h].claim = Fresh
    /\ IF ~handler[h].live THEN Fail(h, "canceled") /\ UNCHANGED reg
       ELSE IF RegistryClosed THEN Fail(h, "unavailable") /\ UNCHANGED reg
       ELSE IF Cardinality(Entries) + reg.fresh >= MaxSessions THEN Fail(h, "capacity") /\ UNCHANGED reg
       ELSE Go(h, "operate") /\ reg' = [reg EXCEPT !.active = @ + 1, !.fresh = @ + 1]
    /\ UNCHANGED <<store, caller, conn, effects>>

Effect(h, k, e) == [attempt |-> handler[h].attempt, claim |-> handler[h].claim, id |-> k, epoch |-> e]

\* SessionStore.Fresh and CompleteInitialize; an error leaves the store as it was.
StoreFresh(h) ==
    /\ handler[h].pc = "operate" /\ handler[h].claim = Fresh
    /\ \/ \E k \in Clients :
          /\ store[k] = 0
          /\ store' = [store EXCEPT ![k] = 1]
          /\ effects' = effects \cup {Effect(h, k, 1)}
          /\ handler' = [handler EXCEPT ![h].pc = "commit", ![h].made = Granted(k, 1)]
       \/ /\ handler' = [handler EXCEPT ![h].pc = "finish", ![h].out = Error("unavailable")]
          /\ UNCHANGED <<store, effects>>
    /\ UNCHANGED <<reg, caller, conn>>

\* validateAttemptLeaseLocked and the first conditions of commitLocked.
Owns(h) == handler[h].attempt # None =>
    /\ reg.attempts[handler[h].attempt] # None
    /\ reg.attempts[handler[h].attempt].owner = h
    /\ reg.attempts[handler[h].attempt].response = None

\* The attempt's record becomes terminal; a reconnect's replaces the one before it.
Committed(r, h, granted, reconnect) ==
    LET a == handler[h].attempt
        previous == r.entries[granted.id].reconnect
        evicted == IF reconnect /\ previous \notin {None, a, r.entries[granted.id].creation} THEN {previous} ELSE {}
    IN  [r EXCEPT !.pending = @ - 1,
                  !.entries[granted.id] = IF reconnect THEN [@ EXCEPT !.reconnect = a] ELSE [@ EXCEPT !.creation = a],
                  !.attempts = [b \in Attempts |->
                                  IF b = a THEN [r.attempts[a] EXCEPT !.response = granted]
                                  ELSE IF b \in evicted THEN None ELSE r.attempts[b]]]

\* The error the caller sees although the transaction is committed.
TerminalError(h) ==
    IF ~handler[h].live THEN "canceled" ELSE IF RegistryClosed THEN "unavailable" ELSE None

Outcome(h, r, granted) ==
    /\ reg' = r
    /\ handler' = [(IF handler[h].attempt = None THEN handler ELSE Signalled(handler[h].attempt, granted))
                   EXCEPT ![h].pc = "finish",
                          ![h].out = IF TerminalError(h) = None THEN granted ELSE Error(TerminalError(h))]

\* initializeFreshAttempt after the store has answered.
CommitFresh(h) ==
    LET made == handler[h].made
        entry == [epoch |-> 1, creation |-> None, reconnect |-> None, token |-> TRUE, waiters |-> 0]
        installed == [reg EXCEPT !.entries[made.id] = entry]
    IN
    /\ handler[h].pc = "commit" /\ handler[h].claim = Fresh
    /\ IF ~Owns(h) \/ reg.entries[made.id] # None
          \/ (handler[h].attempt # None /\ RegistryClosed)
       THEN handler' = [handler EXCEPT ![h].pc = "finish", ![h].out = Error("unavailable")] /\ UNCHANGED reg
       ELSE Outcome(h, IF handler[h].attempt = None THEN installed ELSE Committed(installed, h, made, FALSE), made)
    /\ UNCHANGED <<store, caller, conn, effects>>

-----------------------------------------------------------------------------
(* A reconnect.                                                            *)

\* The entry is the one the claim names.
Current(h) == reg.entries[handler[h].claim.id] # None /\ reg.entries[handler[h].claim.id].epoch = handler[h].claim.epoch

\* sessions.Check turns the registry's refusal into the store's own when the epoch is stale.
Unavailable(h) == IF store[handler[h].claim.id] # handler[h].claim.epoch THEN "stale" ELSE "unavailable"

\* reserveReconnectWaiter.
ReserveWaiter(h) ==
    LET k == handler[h].claim.id IN
    /\ handler[h].pc = "begin" /\ handler[h].claim # Fresh
    /\ IF ~handler[h].live THEN Fail(h, "canceled") /\ UNCHANGED reg
       ELSE IF RegistryClosed THEN Fail(h, "unavailable") /\ UNCHANGED reg
       ELSE IF ~Current(h) THEN Fail(h, Unavailable(h)) /\ UNCHANGED reg
       ELSE IF reg.entries[k].waiters >= MaxWaiters THEN Fail(h, "capacity") /\ UNCHANGED reg
       ELSE Go(h, "gate") /\ reg' = [reg EXCEPT !.entries[k].waiters = @ + 1]
    /\ UNCHANGED <<store, caller, conn, effects>>

\* The wait of a waiter that leaves; the entry is gone once the registry is cleared.
Left(r, k) == IF r.entries[k] = None THEN r ELSE [r EXCEPT !.entries[k].waiters = @ - 1]

\* acquireReconnectGate and finishReconnectAcquire: the entry is checked again with the token
\* in hand, and the token goes back when it does not match any more.
AcquireGate(h) ==
    LET k == handler[h].claim.id IN
    /\ handler[h].pc = "gate"
    /\ \/ /\ ~handler[h].live \/ RegistryClosed
          /\ reg' = Left(reg, k) /\ Fail(h, IF handler[h].live THEN "unavailable" ELSE "canceled")
       \/ /\ reg.entries[k] # None /\ reg.entries[k].token /\ handler[h].live /\ ~RegistryClosed
          /\ IF ~Current(h) THEN reg' = Left(reg, k) /\ Fail(h, Unavailable(h))
             ELSE reg' = [Left(reg, k) EXCEPT !.entries[k].token = FALSE, !.active = @ + 1] /\ Go(h, "operate")
    /\ UNCHANGED <<store, caller, conn, effects>>

\* SessionStore.ReconnectContext: the compare-and-swap, or an error that changes nothing
\* (a stale claim, a drain the caller gave up, a closing store).
StoreReconnect(h) ==
    LET k == handler[h].claim.id
        e == handler[h].claim.epoch
    IN
    /\ handler[h].pc = "operate" /\ handler[h].claim # Fresh
    /\ \/ /\ store[k] = e /\ e < MaxEpoch
          /\ store' = [store EXCEPT ![k] = e + 1]
          /\ effects' = effects \cup {Effect(h, k, e + 1)}
          /\ handler' = [handler EXCEPT ![h].pc = "commit", ![h].made = Granted(k, e + 1)]
       \/ /\ ~handler[h].live \/ store[k] # e \/ e >= MaxEpoch
          /\ handler' = [handler EXCEPT ![h].pc = "finish", ![h].out = Error(Unavailable(h))]
          /\ UNCHANGED <<store, effects>>
    /\ UNCHANGED <<reg, caller, conn>>

\* Mutant of CommitReconnect: a cancelled caller's transaction is dropped after the CAS.
CommitReconnectDropped(h) ==
    LET made == handler[h].made
        replaced == [reg EXCEPT !.entries[made.id].epoch = made.epoch]
    IN
    /\ handler[h].pc = "commit" /\ handler[h].claim # Fresh
    /\ IF ~handler[h].live \/ ~Owns(h) \/ ~Current(h)
       THEN handler' = [handler EXCEPT ![h].pc = "finish", ![h].out = Error("unavailable")] /\ UNCHANGED reg
       ELSE Outcome(h, IF handler[h].attempt = None THEN replaced ELSE Committed(replaced, h, made, TRUE), made)
    /\ UNCHANGED <<store, caller, conn, effects>>

\* commitReconnectSession: the entry keeps its gate and the attempts recorded for it.
CommitReconnect(h) ==
    LET made == handler[h].made
        replaced == [reg EXCEPT !.entries[made.id].epoch = made.epoch]
    IN
    /\ handler[h].pc = "commit" /\ handler[h].claim # Fresh
    /\ IF ~Owns(h) \/ ~Current(h)
       THEN handler' = [handler EXCEPT ![h].pc = "finish", ![h].out = Error(IF Owns(h) THEN Unavailable(h) ELSE "unavailable")] /\ UNCHANGED reg
       ELSE IF handler[h].attempt # None /\ RegistryClosed
       THEN reg' = replaced /\ handler' = [handler EXCEPT ![h].pc = "finish", ![h].out = Error("unavailable")]
       ELSE Outcome(h, IF handler[h].attempt = None THEN replaced ELSE Committed(replaced, h, made, TRUE), made)
    /\ UNCHANGED <<store, caller, conn, effects>>

NoEntries == [k \in Clients |-> None]

\* finishTransaction: the last transaction of a closed registry clears it.
FinishTransaction(h) ==
    LET fresh == handler[h].claim = Fresh
        done == [reg EXCEPT !.active = @ - 1, !.fresh = @ - (IF fresh THEN 1 ELSE 0)]
        cleared == IF done.closed /\ done.active = 0 THEN [done EXCEPT !.entries = NoEntries] ELSE done
    IN
    /\ handler[h].pc = "finish"
    /\ reg' = IF fresh \/ cleared.entries[handler[h].claim.id] = None THEN cleared
              ELSE [cleared EXCEPT !.entries[handler[h].claim.id].token = TRUE]
    /\ Go(h, "abort")
    /\ UNCHANGED <<store, caller, conn, effects>>

\* Mutant of AbortAttempt: the done channel is not closed.
AbortAttemptSilent(h) ==
    LET a == handler[h].attempt IN
    /\ handler[h].pc = "abort"
    /\ Answer(h, handler[h].out)
    /\ reg' = IF a # None /\ Owns(h) THEN [reg EXCEPT !.attempts[a] = None, !.pending = @ - 1] ELSE reg
    /\ UNCHANGED <<store, caller, conn, effects>>

\* The deferred attempt.abort: a record that did not commit is removed and its waiters race.
AbortAttempt(h) ==
    LET a == handler[h].attempt IN
    /\ handler[h].pc = "abort"
    /\ IF a # None /\ Owns(h)
       THEN /\ reg' = [reg EXCEPT !.attempts[a] = None, !.pending = @ - 1]
            /\ handler' = [Signalled(a, Error("aborted")) EXCEPT ![h] = IF @.live THEN [@ EXCEPT !.pc = "reply"] ELSE IdleHandler]
       ELSE Answer(h, handler[h].out) /\ UNCHANGED reg
    /\ UNCHANGED <<store, caller, conn, effects>>

\* The root is cancelled; registry.close follows on a goroutine of its own.
Stop ==
    /\ ~reg.root
    /\ reg' = [reg EXCEPT !.root = TRUE]
    /\ UNCHANGED <<store, handler, caller, conn, effects>>

\* registry.close with abortAttemptsLocked.
CloseRegistry ==
    /\ reg.root /\ ~reg.closed
    /\ reg' = [reg EXCEPT !.closed = TRUE, !.pending = 0, !.attempts = [a \in Attempts |-> None],
                          !.entries = IF reg.active = 0 THEN NoEntries ELSE @]
    /\ handler' = [h \in Slots |-> IF handler[h].pc = "wait" /\ handler[h].signal = None
                                   THEN [handler[h] EXCEPT !.signal = Error("aborted")] ELSE handler[h]]
    /\ UNCHANGED <<store, caller, conn, effects>>

-----------------------------------------------------------------------------
(* The client's connector.                                                 *)

\* Claims are made with the epochs that earlier calls returned.
Known == {Fresh} \cup conn.known

Call(c) ==
    \E claim \in Known, a \in Attempts \cup {None} :
        /\ caller[c].pc = "idle" /\ conn.calls < MaxCalls
        /\ \A t \in {1, 2} : handler[<<c, t>>].pc = "idle"
        /\ IF claim = Fresh
           THEN /\ caller' = [caller EXCEPT ![c] = [IdleCaller EXCEPT !.pc = "rpc", !.attempt = a]]
                /\ conn' = [conn EXCEPT !.calls = @ + 1]
           ELSE IF conn.users[claim.id] >= MaxUsers
           THEN /\ UNCHANGED caller
                /\ conn' = [conn EXCEPT !.calls = @ + 1]
           ELSE /\ caller' = [caller EXCEPT ![c] = [IdleCaller EXCEPT !.pc = "gate", !.attempt = a, !.claim = claim]]
                /\ conn' = [conn EXCEPT !.calls = @ + 1, !.users[claim.id] = @ + 1]
        /\ UNCHANGED <<store, reg, handler, effects>>

\* acquireReconnect.
EnterGate(c) ==
    LET k == caller[c].claim.id IN
    /\ caller[c].pc = "gate" /\ conn.owner[k] = None
    /\ conn' = [conn EXCEPT !.owner[k] = c]
    /\ caller' = [caller EXCEPT ![c].pc = "fence"]
    /\ UNCHANGED <<store, reg, handler, effects>>

\* fenceReconnect: the local session of the claimed epoch is closed before the claim is sent.
FenceReconnect(c) ==
    LET k == caller[c].claim.id
        prior == conn.sessions[k] # None /\ conn.sessions[k].epoch = caller[c].claim.epoch
    IN
    /\ caller[c].pc = "fence"
    /\ caller' = [caller EXCEPT ![c].pc = IF prior THEN "join" ELSE "rpc"]
    /\ conn' = IF prior THEN [conn EXCEPT !.sessions[k].closed = TRUE] ELSE conn
    /\ UNCHANGED <<store, reg, handler, effects>>

\* releaseStream and closeAndCaptureStreams: a closed session is removed with its last stream,
\* and the reconnect that waits for those streams goes on.
RemoveSession(k) ==
    /\ conn.sessions[k] # None /\ conn.sessions[k].closed
    /\ conn' = [conn EXCEPT !.sessions[k] = None]
    /\ caller' = [c \in Callers |-> IF caller[c].pc = "join" /\ caller[c].claim.id = k
                                   THEN [caller[c] EXCEPT !.pc = "rpc"] ELSE caller[c]]
    /\ UNCHANGED <<store, reg, handler, effects>>

\* session.Close by its user.
CloseSession(k) ==
    /\ conn.sessions[k] # None /\ ~conn.sessions[k].closed
    /\ conn' = [conn EXCEPT !.sessions[k].closed = TRUE]
    /\ UNCHANGED <<store, reg, handler, caller, effects>>

\* initializeRPC sends the request; the network may lose it.
Send(c) ==
    LET h == <<c, caller[c].try>> IN
    /\ caller[c].pc = "rpc" /\ handler[h].pc = "idle"
    /\ handler' = [handler EXCEPT ![h] = [IdleHandler EXCEPT !.pc = "arrived", !.attempt = caller[c].attempt, !.claim = caller[c].claim]]
    /\ UNCHANGED <<store, reg, caller, conn, effects>>

\* The gate goes to the next reconnect of the same client.
Released(c, current) ==
    IF caller[c].claim = Fresh THEN current
    ELSE [current EXCEPT !.users[caller[c].claim.id] = @ - 1,
                      !.owner[caller[c].claim.id] = IF @ = c THEN None ELSE @]

\* Initialize returns.
Return(c, next) ==
    /\ caller' = [caller EXCEPT ![c] = IdleCaller]
    /\ conn' = next

\* A transport error: a request with an attempt identity is sent once more, and any other
\* ends the call with an uncertain outcome.
TransportError(c, current) ==
    IF caller[c].attempt # None /\ caller[c].try = 1
    THEN caller' = [caller EXCEPT ![c].try = 2] /\ conn' = current
    ELSE Return(c, Released(c, current))

\* The channel fails while the RPC is out, wherever its handler is.
Lost(c) ==
    /\ caller[c].pc = "rpc" /\ conn.faults < MaxFaults
    /\ TransportError(c, [conn EXCEPT !.faults = @ + 1])
    /\ UNCHANGED <<store, reg, handler, effects>>

\* The handler's own transport status reaches the caller: the service is stopping.
Refused(c) ==
    LET h == <<c, caller[c].try>> IN
    /\ caller[c].pc = "rpc" /\ handler[h].pc = "reply" /\ handler[h].out.code = "unreachable"
    /\ TransportError(c, conn)
    /\ handler' = [handler EXCEPT ![h] = IdleHandler]
    /\ UNCHANGED <<store, reg, effects>>

\* The caller's own context ends.
Cancel(c) ==
    /\ caller[c].pc \in {"gate", "join", "rpc"} /\ conn.faults < MaxFaults
    /\ Return(c, Released(c, [conn EXCEPT !.faults = @ + 1]))
    /\ UNCHANGED <<store, reg, handler, effects>>

\* A handler whose caller does not wait for it any more learns it from its context.
Abandon(h) ==
    /\ handler[h].live /\ handler[h].pc # "idle"
    /\ caller[h[1]].pc # "rpc" \/ caller[h[1]].try # h[2]
    /\ handler' = [handler EXCEPT ![h] = IF @.pc = "reply" THEN IdleHandler ELSE [@ EXCEPT !.live = FALSE]]
    /\ UNCHANGED <<store, reg, caller, conn, effects>>

\* ValidateInitializeResponseForRequest: the grant answers the claim.
Expected(c, granted) ==
    IF caller[c].claim = Fresh THEN granted.epoch = 1
    ELSE granted = Granted(caller[c].claim.id, caller[c].claim.epoch + 1)

\* The response of the try the caller waits for.  install refuses a second session of the
\* client, and the connector keeps the one it has.
Receive(c) ==
    LET h == <<c, caller[c].try>>
        out == handler[h].out
        installed == [Released(c, conn) EXCEPT !.sessions[out.id] = [epoch |-> out.epoch, closed |-> FALSE],
                                         !.known = @ \cup {[id |-> out.id, epoch |-> out.epoch]}]
    IN
    /\ caller[c].pc = "rpc" /\ handler[h].pc = "reply" /\ out.code # "unreachable"
    /\ IF out.code # "ok" \/ ~Expected(c, out) THEN Return(c, Released(c, conn))
       ELSE Return(c, IF conn.sessions[out.id] # None THEN Released(c, conn) ELSE installed)
    /\ handler' = [handler EXCEPT ![h] = IdleHandler]
    /\ UNCHANGED <<store, reg, effects>>

-----------------------------------------------------------------------------
Init ==
    /\ store = [k \in Clients |-> 0]
    /\ reg = [root |-> FALSE, closed |-> FALSE, entries |-> NoEntries, active |-> 0, fresh |-> 0, pending |-> 0,
              attempts |-> [a \in Attempts |-> None]]
    /\ handler = [h \in Slots |-> IdleHandler]
    /\ caller = [c \in Callers |-> IdleCaller]
    /\ conn = [sessions |-> [k \in Clients |-> None], users |-> [k \in Clients |-> 0], owner |-> [k \in Clients |-> None],
               known |-> {}, calls |-> 0, faults |-> 0]
    /\ effects = {}

HandlerStep(h) ==
    \/ Arrive(h) \/ Inspect(h) \/ AwaitAttempt(h) \/ Reject(h)
    \/ BeginFresh(h) \/ StoreFresh(h) \/ CommitFresh(h)
    \/ ReserveWaiter(h) \/ AcquireGate(h) \/ StoreReconnect(h) \/ CommitReconnect(h)
    \/ FinishTransaction(h) \/ AbortAttempt(h)

CallerStep(c) == EnterGate(c) \/ FenceReconnect(c) \/ Send(c) \/ Receive(c) \/ Refused(c)

Next ==
    \/ \E h \in Slots : HandlerStep(h) \/ Abandon(h)
    \/ \E c \in Callers : Call(c) \/ CallerStep(c) \/ Lost(c) \/ Cancel(c)
    \/ \E k \in Clients : RemoveSession(k) \/ CloseSession(k)
    \/ Stop \/ CloseRegistry

Spec == Init /\ [][Next]_vars

\* Handlers run to their end, the close that the root's cancellation schedules runs, contexts
\* end, and an answer reaches the caller that waits for it; losing and cancelling are chance.
Fairness ==
    /\ \A h \in Slots : WF_vars(HandlerStep(h)) /\ WF_vars(Abandon(h))
    /\ \A c \in Callers : WF_vars(CallerStep(c))
    /\ \A k \in Clients : WF_vars(RemoveSession(k))
    /\ WF_vars(CloseRegistry)
FairSpec == Spec /\ Fairness

-----------------------------------------------------------------------------
(* Properties.                                                             *)

IsGrant(out) == out # None /\ out.code = "ok"
Holding == {h \in Slots : handler[h].pc \in {"operate", "commit", "finish"}}

\* reserveInitializationAttempt promises that exact duplicates of a request never enter the
\* allocation or the compare-and-swap independently: one identity and request make at most one
\* session or epoch, however often it is sent, lost and replayed, and every success the
\* handlers answer with is the one that was made for that request.
AttemptsMutateOnce ==
    /\ \A x, y \in effects : x.attempt # None /\ x.attempt = y.attempt /\ x.claim = y.claim => x = y
    /\ \A h \in Slots : IsGrant(handler[h].out) =>
        /\ Effect(h, handler[h].out.id, handler[h].out.epoch) \in effects
        /\ handler[h].attempt = None => handler[h].out = handler[h].made

\* While the service runs, the registry and the store agree on every client, except between
\* the store's mutation and the commit of the handler that made it: no session is orphaned by
\* capacity, by a cancelled caller or by another transaction.
ViewsAgree ==
    \A k \in Clients :
        LET epoch == IF reg.entries[k] = None THEN 0 ELSE reg.entries[k].epoch
            between == \E h \in Slots : handler[h].pc = "commit" /\ handler[h].made.id = k
        IN  ~reg.root => store[k] = epoch + (IF between THEN 1 ELSE 0)

\* The registry's counters are exact: transactions, reservations and pending attempts, one
\* token per gate held by the transaction it serializes, the waiters of each gate, the bound of
\* two committed records per session, and nothing left after the last transaction of a close.
RegistryAccounts ==
    /\ reg.active = Cardinality(Holding)
    /\ reg.fresh = Cardinality({h \in Holding : handler[h].claim = Fresh})
    /\ ~reg.root => Cardinality(Entries) + Cardinality({h \in Holding : handler[h].claim = Fresh /\ handler[h].pc # "finish"}) <= MaxSessions
    /\ reg.pending = Cardinality({a \in Attempts : reg.attempts[a] # None /\ reg.attempts[a].response = None})
    /\ reg.pending <= MaxSessions
    /\ Cardinality({a \in Attempts : reg.attempts[a] # None /\ reg.attempts[a].response # None}) <= 2 * Cardinality(Entries)
    /\ \A k \in Entries :
        /\ Cardinality({h \in Holding : handler[h].claim.id = k}) = (IF reg.entries[k].token THEN 0 ELSE 1)
        /\ reg.entries[k].waiters = Cardinality({h \in Slots : handler[h].pc = "gate" /\ handler[h].claim.id = k})
    /\ reg.closed /\ reg.active = 0 => Entries = {}

\* Every call of Connector.Initialize returns, whatever the channel loses: neither a gate of the
\* registry or of the connector nor a pending attempt keeps it for ever.
InitializeReturns == \A c \in Callers : []<>(caller[c].pc = "idle")

=============================================================================
