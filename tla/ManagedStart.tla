---------------------------- MODULE ManagedStart ----------------------------
(***************************************************************************)
(* The attach-or-start policy of one managed connector                     *)
(* (client/managed/managed.go): Initialize discovers a daemon, and on      *)
(* proven absence takes the cross-process startup lock, discovers again,   *)
(* launches a candidate and retries until the candidate serves;            *)
(* Shutdown cancels it and joins the candidate.                            *)
(*                                                                         *)
(* Discovery, the startup lock, the starter and the child process are the  *)
(* platform's: each answers as its interface allows.  A candidate has a    *)
(* Done channel.  A timeout or a cancelled context may end any wait.       *)
(***************************************************************************)
EXTENDS Integers

CONSTANTS
    Callers,        \* callers of Initialize
    Closers,        \* callers of Shutdown
    Candidates,     \* child processes the starter may launch
    MaxCalls,       \* calls of Initialize and of Shutdown
    None

VARIABLES
    conn,       \* Connector: closed, gate (whether the token is there), active, owned, terminalJoin
    call,       \* goroutines inside Initialize
    closer,     \* goroutines inside Shutdown
    cand,       \* child processes
    session,    \* the session of each caller: none, open (not closed), or the caller's
    calls       \* calls begun

vars == <<conn, call, closer, cand, session, calls>>

Idle == [pc |-> "idle", cause |-> None, cand |-> None, launched |-> FALSE, lease |-> FALSE, exited |-> FALSE]

Go(c, pc) == call' = [call EXCEPT ![c].pc = pc]

\* The function body returns; the deferred Release runs when the lease is held.
Unwound(c) == IF call[c].lease THEN "release" ELSE "finish"
Unwind(c) == Go(c, Unwound(c))

\* candidateJoined: Done is closed.
Gone(k) == cand[k] \in {"exited", "stuck"}

-----------------------------------------------------------------------------
(* Initialize.                                                             *)

Initialize(c) ==
    /\ call[c].pc = "idle" /\ calls < MaxCalls
    /\ Go(c, "gate")
    /\ calls' = calls + 1
    /\ session' = [session EXCEPT ![c] = "none"]
    /\ UNCHANGED <<conn, closer, cand>>

\* The caller's context ends.
Cancel(c) ==
    /\ call[c].pc # "idle" /\ call[c].cause \in {None, "startup"}
    /\ call' = IF call[c].pc = "gate" THEN [call EXCEPT ![c] = Idle] ELSE [call EXCEPT ![c].cause = "ended"]
    /\ UNCHANGED <<conn, closer, cand, session, calls>>

\* The startup timeout ends the context derived for everything after the proof of absence.
StartupTimeout(c) ==
    /\ call[c].cause = None
    /\ call[c].pc \in {"lock", "recheck", "ensure", "await", "attachStarted"}
       \/ (call[c].pc = "attach" /\ call[c].lease)
    /\ call' = [call EXCEPT ![c].cause = "startup"]
    /\ UNCHANGED <<conn, closer, cand, session, calls>>

\* Mutant of TakeGate: a caller that finds the connector closed keeps the gate's token.
TakeGateLost(c) ==
    /\ call[c].pc = "gate" /\ conn.gate
    /\ Go(c, IF conn.closed THEN "idle" ELSE "discover")
    /\ conn' = [conn EXCEPT !.gate = FALSE, !.active = IF conn.closed THEN None ELSE c]
    /\ UNCHANGED <<closer, cand, session, calls>>

\* beginInitialize
TakeGate(c) ==
    /\ call[c].pc = "gate" /\ conn.gate
    /\ IF conn.closed THEN Go(c, "idle") /\ UNCHANGED conn
       ELSE Go(c, "discover") /\ conn' = [conn EXCEPT !.gate = FALSE, !.active = c]
    /\ UNCHANGED <<closer, cand, session, calls>>

\* Discovery resolves an endpoint, proves its absence, or fails; the context is looked at first.
Discover(c, found) ==
    /\ call[c].pc \in {"discover", "recheck", "await"}
    /\ call[c].pc = "await" => ~Gone(call[c].cand)
    /\ call[c].cause = None
    /\ CASE found = "found" -> Go(c, IF call[c].pc = "await" THEN "attachStarted" ELSE "attach")
         [] found = "absent" -> Go(c, CASE call[c].pc = "discover" -> "lock"
                                        [] call[c].pc = "recheck" -> "ensure"
                                        [] call[c].pc = "await" -> "await")
         [] found = "failed" -> Go(c, IF call[c].pc = "await" THEN "started" ELSE Unwound(c))
    /\ UNCHANGED <<conn, closer, cand, session, calls>>

DiscoverEnded(c) ==
    /\ call[c].pc \in {"discover", "recheck", "lock", "ensure", "await"} /\ call[c].cause # None
    /\ Go(c, IF call[c].pc = "await" THEN "started" ELSE Unwound(c))
    /\ UNCHANGED <<conn, closer, cand, session, calls>>

\* initializeResolved: a session that arrives with an ended context is closed.
Attach(c, answer) ==
    /\ call[c].pc \in {"attach", "attachStarted"}
    /\ LET ok == answer = "ok" /\ call[c].cause = None IN
       /\ session' = [session EXCEPT ![c] = IF ok THEN "open" ELSE "none"]
       /\ IF ok THEN Unwind(c)
          ELSE IF call[c].pc = "attach" THEN Unwind(c)
          ELSE Go(c, IF answer = "transient" /\ call[c].cause = None THEN "await" ELSE "started")
    /\ UNCHANGED <<conn, closer, cand, calls>>

\* StartupLock.Acquire; a lease that comes with an error is released at once.
Lock(c, ok) ==
    /\ call[c].pc = "lock" /\ call[c].cause = None
    /\ call' = [call EXCEPT ![c].pc = IF ok THEN "recheck" ELSE "finish", ![c].lease = ok]
    /\ UNCHANGED <<conn, closer, cand, session, calls>>

\* ensureCandidate, its first critical section.
Ensure(c) ==
    /\ call[c].pc = "ensure" /\ call[c].cause = None
    /\ call' = [call EXCEPT ![c].pc = CASE conn.owned # None -> "await"
                                        [] conn.owned = None /\ conn.closed -> Unwound(c)
                                        [] conn.owned = None /\ ~conn.closed -> "start",
                            ![c].cand = conn.owned]
    /\ UNCHANGED <<conn, closer, cand, session, calls>>

StartFails(c) ==
    /\ call[c].pc = "start"
    /\ Unwind(c)
    /\ UNCHANGED <<conn, closer, cand, session, calls>>

\* Starter.Start returns a child, perhaps with an error, and the second critical section owns it.
Start(c, k, failed) ==
    /\ call[c].pc = "start" /\ cand[k] = "new"
    /\ cand' = [cand EXCEPT ![k] = "alive"]
    /\ conn' = [conn EXCEPT !.owned = k, !.terminalJoin = FALSE]
    /\ call' = [call EXCEPT ![c].pc = IF failed \/ conn.closed THEN "cleanup" ELSE "await",
                            ![c].cand = k, ![c].launched = ~failed /\ ~conn.closed]
    /\ UNCHANGED <<closer, session, calls>>

\* awaitStarted sees the candidate's Done.
AwaitExited(c) ==
    /\ call[c].pc = "await" /\ Gone(call[c].cand) /\ call[c].cause = None
    /\ call' = [call EXCEPT ![c].pc = "started", ![c].exited = TRUE]
    /\ UNCHANGED <<conn, closer, cand, session, calls>>

\* awaitStarted failed: a reused candidate that still runs is left alone.
Started(c) ==
    /\ call[c].pc = "started"
    /\ call' = [call EXCEPT ![c].pc = IF call[c].launched \/ call[c].exited THEN "cleanup" ELSE Unwound(c),
                            ![c].launched = FALSE, ![c].exited = FALSE]
    /\ UNCHANGED <<conn, closer, cand, session, calls>>

\* lease.Release: its failure takes the session and a launched candidate with it.
Release(c, ok) ==
    /\ call[c].pc = "release"
    /\ call' = [call EXCEPT ![c].lease = FALSE, ![c].launched = FALSE,
                            ![c].pc = IF ~ok /\ call[c].launched THEN "cleanup" ELSE "finish"]
    /\ session' = IF ok THEN session ELSE [session EXCEPT ![c] = "none"]
    /\ UNCHANGED <<conn, closer, cand, calls>>

\* Mutant of Finish: a session is returned although the connector was closed meanwhile.
FinishAnyway(c) ==
    /\ call[c].pc = "finish"
    /\ conn' = [conn EXCEPT !.gate = TRUE, !.active = None]
    /\ session' = [session EXCEPT ![c] = IF @ = "open" /\ call[c].cause \in {None, "startup"} THEN "returned" ELSE "none"]
    /\ call' = [call EXCEPT ![c] = Idle]
    /\ UNCHANGED <<closer, cand, calls>>

\* finishInitialize
Finish(c) ==
    /\ call[c].pc = "finish"
    /\ conn' = [conn EXCEPT !.gate = TRUE, !.active = None]
    /\ session' = [session EXCEPT ![c] = IF @ = "open" /\ call[c].cause \in {None, "startup"} /\ ~conn.closed
                                         THEN "returned" ELSE "none"]
    /\ call' = [call EXCEPT ![c] = Idle]
    /\ UNCHANGED <<closer, cand, calls>>

-----------------------------------------------------------------------------
(* Candidates: the child, BeginShutdown and Wait.                          *)

\* A child alive may exit; once it has, its resources join, may join later, or never safely will.
Exit(k, outcome) ==
    /\ cand[k] = "alive"
    /\ cand' = [cand EXCEPT ![k] = outcome]
    /\ UNCHANGED <<conn, call, closer, session, calls>>

\* shutdownCandidate's outcomes: Wait joins only what has exited and can be joined; it fails by
\* its timeout, by a retryable error, or by a non-retryable one.
WaitReturns(k) ==
    (IF cand[k] = "exited" THEN {"joined"} ELSE {}) \cup (IF cand[k] = "stuck" THEN {"terminal"} ELSE {})
    \cup {"failed"}

\* cleanupOwnedCandidate and the end of Shutdown.
Joined(w) ==
    CASE w = "joined" -> [conn EXCEPT !.owned = None, !.terminalJoin = FALSE]
      [] w = "terminal" -> [conn EXCEPT !.terminalJoin = TRUE]
      [] w = "failed" -> conn

\* BeginShutdown of the candidate whose cleanup Initialize owes.
BeginCleanup(c) ==
    /\ call[c].pc = "cleanup"
    /\ Go(c, "wait")
    /\ UNCHANGED <<conn, closer, cand, session, calls>>

Cleanup(c, w) ==
    /\ call[c].pc = "wait" /\ w \in WaitReturns(call[c].cand)
    /\ conn' = Joined(w)
    /\ cand' = IF w = "joined" THEN [cand EXCEPT ![call[c].cand] = "joined"] ELSE cand
    /\ call' = [call EXCEPT ![c].pc = Unwound(c), ![c].cand = None]
    /\ UNCHANGED <<closer, session, calls>>

-----------------------------------------------------------------------------
(* Shutdown.                                                               *)

Open == [pc |-> "idle", out |-> None, cand |-> None]

Shutdown(s) ==
    /\ closer[s].pc = "idle" /\ calls < MaxCalls
    /\ conn' = [conn EXCEPT !.closed = TRUE]
    /\ closer' = [closer EXCEPT ![s] = [Open EXCEPT !.pc = IF conn.active = None THEN "gate" ELSE "cancel"]]
    /\ calls' = calls + 1
    /\ UNCHANGED <<call, cand, session>>

\* activeCancel, outside the lock: its operation may have finished, and no other one begins.
ShutdownCancels(s) ==
    /\ closer[s].pc = "cancel"
    /\ call' = [c \in Callers |-> IF c = conn.active /\ call[c].cause # "ended"
                                  THEN [call[c] EXCEPT !.cause = "closed"] ELSE call[c]]
    /\ closer' = [closer EXCEPT ![s].pc = "gate"]
    /\ UNCHANGED <<conn, cand, session, calls>>

ShutdownTimeout(s) ==
    /\ closer[s].pc = "gate"
    /\ closer' = [closer EXCEPT ![s] = [Open EXCEPT !.out = "timeout"]]
    /\ UNCHANGED <<conn, call, cand, session, calls>>

Returned(s, out) == closer' = [closer EXCEPT ![s] = [Open EXCEPT !.out = out]]

ShutdownGate(s) ==
    /\ closer[s].pc = "gate" /\ conn.gate
    /\ IF conn.terminalJoin \/ conn.owned = None
       THEN Returned(s, IF conn.terminalJoin THEN "terminal" ELSE "ok") /\ UNCHANGED conn
       ELSE /\ closer' = [closer EXCEPT ![s].pc = "wait", ![s].cand = conn.owned]
            /\ conn' = [conn EXCEPT !.gate = FALSE]
    /\ UNCHANGED <<call, cand, session, calls>>

ShutdownJoins(s, w) ==
    /\ closer[s].pc = "wait" /\ w \in WaitReturns(closer[s].cand)
    /\ conn' = [Joined(w) EXCEPT !.gate = TRUE]
    /\ cand' = IF w = "joined" THEN [cand EXCEPT ![closer[s].cand] = "joined"] ELSE cand
    /\ Returned(s, IF w = "joined" THEN "ok" ELSE w)
    /\ UNCHANGED <<call, session, calls>>

-----------------------------------------------------------------------------
Init ==
    /\ conn = [closed |-> FALSE, gate |-> TRUE, active |-> None, owned |-> None, terminalJoin |-> FALSE]
    /\ call = [c \in Callers |-> Idle]
    /\ closer = [s \in Closers |-> Open]
    /\ cand = [k \in Candidates |-> "new"]
    /\ session = [c \in Callers |-> "none"]
    /\ calls = 0

CallStep(c) ==
    \/ TakeGate(c) \/ DiscoverEnded(c) \/ Ensure(c) \/ StartFails(c)
    \/ AwaitExited(c) \/ Started(c) \/ BeginCleanup(c) \/ Finish(c)
    \/ \E found \in {"found", "absent", "failed"} : Discover(c, found)
    \/ \E answer \in {"ok", "transient", "failed"} : Attach(c, answer)
    \/ \E ok \in BOOLEAN : Lock(c, ok) \/ Release(c, ok)
    \/ \E k \in Candidates, failed \in BOOLEAN : Start(c, k, failed)
    \/ \E w \in {"joined", "terminal", "failed"} : Cleanup(c, w)

CloserStep(s) ==
    \/ ShutdownCancels(s) \/ ShutdownTimeout(s) \/ ShutdownGate(s)
    \/ \E w \in {"joined", "terminal", "failed"} : ShutdownJoins(s, w)

Next ==
    \/ \E c \in Callers : Initialize(c) \/ Cancel(c) \/ StartupTimeout(c) \/ CallStep(c)
    \/ \E s \in Closers : Shutdown(s) \/ CloserStep(s)
    \/ \E k \in Candidates, outcome \in {"exited", "stuck"} : Exit(k, outcome)

Spec == Init /\ [][Next]_vars

\* Goroutines run; the startup timeout ends an Initialize that waits on a candidate.
Fairness ==
    /\ \A c \in Callers : WF_vars(CallStep(c)) /\ WF_vars(StartupTimeout(c))
    /\ \A s \in Closers : WF_vars(CloserStep(s))

FairSpec == Spec /\ Fairness

-----------------------------------------------------------------------------
(* Properties.                                                             *)

\* A child this connector launched is owned until it has been joined, so at most one is, and
\* Shutdown says nil only once nothing it launched is left and nothing more will be
\* (ensureCandidate, cleanupOwnedCandidate, Shutdown).
CandidatesAreOwned ==
    /\ \A k \in Candidates : cand[k] \in {"alive", "exited", "stuck"} => conn.owned = k
    /\ \A s \in Closers : closer[s].out = "ok" =>
           conn.closed /\ \A k \in Candidates : cand[k] \in {"new", "joined"}

\* A session that reached the connector is handed to the caller or closed, whatever races with
\* it: it stays open only inside Initialize, and none is returned by an Initialize that ends
\* after Shutdown closed the connector (initializeResolved, finishInitialize).
HandedOverStep ==
    \A c \in Callers :
       /\ session'[c] = "open" => call'[c].pc # "idle"
       /\ session[c] # "returned" /\ session'[c] = "returned" => ~conn.closed /\ call[c].cause # "ended"
SessionsAreHandedOver == [][HandedOverStep]_vars

\* A non-retryable join failure is kept for manual recovery: no cleanup of that candidate is
\* begun again (Candidate, managed.go:46; Shutdown returns terminalJoin).
TerminalIsFinal ==
    [][conn.terminalJoin =>
          /\ \A c \in Callers : call'[c].pc = "wait" => call[c].pc = "wait"
          /\ \A s \in Closers : closer'[s].pc = "wait" => closer[s].pc = "wait"]_vars

\* Every Initialize that took the gate and every Shutdown returns (the startup timeout,
\* shutdownTimeout and cancellation bound every wait).
CallsEnd ==
    /\ \A c \in Callers : []<>(call[c].pc = "idle")
    /\ \A s \in Closers : []<>(closer[s].pc = "idle")
=============================================================================
