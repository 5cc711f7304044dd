------------------------------ MODULE RunHost ------------------------------
(***************************************************************************)
(* The owner of hosted runs (daemon/run_host_*.go) with its idempotency    *)
(* ledger (daemon/idempotency.go), the engine's identity ledger            *)
(* (agent/run_identity.go) and paused executions                           *)
(* (agent/prepared_execution.go).                                          *)
(*                                                                         *)
(* A call is a goroutine in one mutating method of the host.  It claims    *)
(* its operation in the ledger, executes, unwinds what it still owns and   *)
(* settles the ledger entry.  Run monitors, kernels and the shutdown run   *)
(* beside the calls.  The durable authority, the kernel and the pending    *)
(* hub appear as far as the host uses them; RunAuthority, AgentRun and     *)
(* PendingHub model them in full.                                          *)
(***************************************************************************)
EXTENDS Integers, Sequences, FiniteSets

CONSTANTS
    Calls,          \* goroutines in a mutating method
    Ops,            \* operation IDs of the client
    Runs,
    None,
    ActiveRuns,     \* limits.ActiveRuns
    MaxPerClient,   \* ledger entries per client
    MaxIdentities,  \* entries of the identity ledger
    TerminalRuns,   \* terminalMaxRuns
    MaxIssued       \* bound on the number of calls

VARIABLES
    host,       \* the RunHost's own fields
    call,       \* the calls
    run,        \* per run ID: kernel, identity, authority, binding and host entries
    ledger,     \* the idempotency ledger of the client
    terminal,   \* terminalOrder
    effects,    \* history: committed boundaries crossed for each operation
    issued      \* calls made so far

vars == <<host, call, run, ledger, terminal, effects, issued>>

Kinds == {"start", "import", "suspend", "resume", "cancel", "respond"}

Idle == [pc |-> "idle", op |-> None, kind |-> None, run |-> None, own |-> {}, candidate |-> "none", out |-> None]

NewRun(phase) ==
    [kernel |-> "none", cancelled |-> FALSE, identity |-> "none",
     phase |-> phase, lease |-> "none", uncertain |-> FALSE,
     reserved |-> FALSE, owner |-> FALSE, active |-> FALSE, bound |-> FALSE,
     lock |-> None, snapshot |-> FALSE, monitor |-> "none", sequence |-> FALSE, late |-> FALSE]

NoEntry == [kind |-> None, run |-> None, out |-> None]

\* The results of one authority transition that writes a record.
Results == {"written", "late", "lost", "busy", "state"}
Attempted(result) == result \in {"late", "lost"}
Durable(result) == result \in {"written", "late"}

\* precommitAuthorityFailure: what the caller of a failed transition is told.
AuthorityAnswer(result) ==
    CASE result = "busy"  -> "abandoned"
      [] result = "state" -> "failure"
      [] OTHER            -> "uncertain"

-----------------------------------------------------------------------------
(* The host's fields, and what a call holds: a slot of the active limit,   *)
(* the run's binding, a prepared execution, an import transaction or the   *)
(* run's transition token.                                                 *)

Cancelled(r) == run[r].cancelled \/ host.closing

At(c, pc) == call[c].pc = pc
Holds(c, thing) == thing \in call[c].own

\* The call goes on, or fails with an answer and unwinds from pc.
Go(c, pc) == call' = [call EXCEPT ![c].pc = pc]

Fail(c, pc, out) ==
    /\ call' = [call EXCEPT ![c].pc = pc, ![c].out = out]
    /\ host' = [host EXCEPT !.degraded = @ \/ out = "uncertain"]

SetRun(r, value) == run' = [run EXCEPT ![r] = value]

\* A record write of the run's authority: the record and the store's fence.
Written(value, phase, result) ==
    [value EXCEPT !.phase = IF Durable(result) THEN phase ELSE @,
                  !.uncertain = @ \/ Attempted(result)]

\* What a transition from the given phases can answer: an uncertain owner
\* answers uncertain without writing, a closed one or a wrong phase refuses.
Possible(r, phases) ==
    IF run[r].uncertain THEN {"lost"}
    ELSE IF run[r].lease = "active" /\ run[r].phase \in phases THEN Results
    ELSE {"busy", "state"}

Crossed(c, result) ==
    effects' = [effects EXCEPT ![call[c].op] = IF Durable(result) THEN @ + 1 ELSE @]

\* health: stopping, degraded or ready.
Health ==
    IF host.closing THEN "stopping" ELSE IF host.degraded THEN "degraded" ELSE "ready"

-----------------------------------------------------------------------------
(* Ledger.Do, around the execution of an operation.                        *)

Claimed == {o \in Ops : ledger[o] # NoEntry}
SameRequest(c) == ledger[call[c].op].kind = call[c].kind /\ ledger[call[c].op].run = call[c].run

\* beginOperation, then doMutation.
Submit(c) ==
    /\ At(c, "idle") /\ ~host.closing /\ issued < MaxIssued
    /\ \E o \in Ops, k \in Kinds : \E r \in IF k = "start" THEN {None} ELSE Runs :
          call' = [call EXCEPT ![c] = [Idle EXCEPT !.pc = "do", !.op = o, !.kind = k, !.run = r]]
    /\ issued' = issued + 1
    /\ UNCHANGED <<host, run, ledger, terminal, effects>>

Return(c) ==
    /\ call' = [call EXCEPT ![c] = Idle]
    /\ UNCHANGED <<host, run, ledger, terminal, effects, issued>>

\* The request's context ends, or its session is stale; a finished entry wins.
GiveUp(c) ==
    /\ \/ At(c, "do")
       \/ At(c, "await") /\ ledger[call[c].op].out = None
    /\ Return(c)

Claim(c) ==
    /\ At(c, "do")
    /\ ledger[call[c].op] = NoEntry /\ Cardinality(Claimed) < MaxPerClient
    /\ ledger' = [ledger EXCEPT ![call[c].op] = [kind |-> call[c].kind, run |-> call[c].run, out |-> None]]
    /\ Go(c, "exec")
    /\ UNCHANGED <<host, run, terminal, effects, issued>>

\* Another kind or digest under the operation's ID, or a full ledger.
Reject(c) ==
    /\ At(c, "do")
    /\ IF ledger[call[c].op] = NoEntry THEN Cardinality(Claimed) >= MaxPerClient ELSE ~SameRequest(c)
    /\ Return(c)

Join(c) ==
    /\ At(c, "do") /\ ledger[call[c].op] # NoEntry /\ SameRequest(c)
    /\ Go(c, "await")
    /\ UNCHANGED <<host, run, ledger, terminal, effects, issued>>

Await(c) ==
    /\ At(c, "await") /\ ledger[call[c].op].out # None
    /\ Return(c)

\* Mutant of Settle: the waiters of an abandoned entry are not woken.
SettleSilently(c) ==
    /\ At(c, "settle")
    /\ ledger' = [ledger EXCEPT ![call[c].op] = IF call[c].out = "abandoned" THEN NoEntry ELSE [@ EXCEPT !.out = call[c].out]]
    /\ call' = [call EXCEPT ![c] = Idle]
    /\ UNCHANGED <<host, run, terminal, effects, issued>>

\* The executor returned: an abandoned entry is deleted and its waiters try
\* again, any other outcome is kept.
Settle(c) ==
    /\ At(c, "settle")
    /\ ledger' = [ledger EXCEPT ![call[c].op] = IF call[c].out = "abandoned" THEN NoEntry ELSE [@ EXCEPT !.out = call[c].out]]
    /\ call' = [d \in Calls |->
          IF d = c THEN Idle
          ELSE IF At(d, "await") /\ call[d].op = call[c].op /\ call[c].out = "abandoned" THEN [call[d] EXCEPT !.pc = "do"]
          ELSE call[d]]
    /\ UNCHANGED <<host, run, terminal, effects, issued>>

\* The session is checked again inside the ledger.
Stale(c) ==
    /\ At(c, "exec") /\ Fail(c, "settle", "abandoned")
    /\ UNCHANGED <<run, ledger, terminal, effects, issued>>

-----------------------------------------------------------------------------
(* Start and Import.                                                       *)

ReserveSlot(c) ==
    /\ At(c, "exec") /\ call[c].kind \in {"start", "import"}
    /\ IF host.closing \/ host.reserved >= ActiveRuns
       THEN Fail(c, "settle", "abandoned")
       ELSE /\ host' = [host EXCEPT !.reserved = @ + 1]
            /\ call' = [call EXCEPT ![c].own = @ \cup {"slot"}, ![c].pc = IF call[c].kind = "start" THEN "prepare" ELSE "bind"]
    /\ UNCHANGED <<run, ledger, terminal, effects, issued>>

Known == {r \in Runs : run[r].identity # "none"}
Fresh(r) == run[r].phase = "ABSENT" /\ ~run[r].uncertain /\ r \notin Known

\* The engine reserves the run's identity in its ledger.
Prepared(c, r, pc) ==
    /\ Cardinality(Known) < MaxIdentities
    /\ SetRun(r, [run[r] EXCEPT !.identity = "reserved", !.kernel = "prepared"])
    /\ call' = [call EXCEPT ![c].run = r, ![c].own = @ \cup {"prepared"}, ![c].pc = pc]
    /\ UNCHANGED host

\* PrepareStart: a plan, a new identity and a log; its own failures are
\* rolled back.
PrepareStart(c) ==
    /\ At(c, "prepare")
    /\ \/ \E r \in Runs : Fresh(r) /\ Prepared(c, r, "bind")
       \/ /\ \E out \in {"failure", "abandoned", "uncertain"} : Fail(c, "release", out)
          /\ UNCHANGED run
    /\ UNCHANGED <<ledger, terminal, effects, issued>>

\* hostReservation.bind: the run's reservation and its interaction binding.
Bind(c) ==
    /\ At(c, "bind")
    /\ LET r == call[c].run
           free == ~run[r].owner /\ ~run[r].reserved /\ ~run[r].bound
       IN  \/ /\ ~host.closing /\ free
              /\ SetRun(r, [run[r] EXCEPT !.reserved = TRUE, !.bound = TRUE])
              /\ call' = [call EXCEPT ![c].own = @ \cup {"binding"}, ![c].pc = IF call[c].kind = "start" THEN "commit" ELSE "import"]
              /\ UNCHANGED host
           \/ /\ Fail(c, "unwind", IF free \/ host.closing THEN "abandoned" ELSE "failure")
              /\ UNCHANGED run
    /\ UNCHANGED <<ledger, terminal, effects, issued>>

\* authority.PrepareImport takes the run's lock and verifies the envelope.
PrepareImport(c) ==
    /\ At(c, "import")
    /\ LET r == call[c].run
       IN  \/ /\ run[r].phase = "SUSPENDED" /\ run[r].lease = "none" /\ ~run[r].uncertain
              /\ SetRun(r, [run[r] EXCEPT !.lease = "import"])
              /\ call' = [call EXCEPT ![c].own = @ \cup {"import"}, ![c].pc = "reserve"]
              /\ UNCHANGED host
           \/ /\ \E out \in IF run[r].uncertain THEN {"uncertain"} ELSE {"abandoned", "failure"} : Fail(c, "unwind", out)
              /\ UNCHANGED run
    /\ UNCHANGED <<ledger, terminal, effects, issued>>

\* PrepareResumeSnapshot refuses an identity the engine already knows.
PrepareResume(c) ==
    /\ At(c, "reserve")
    /\ \/ call[c].run \notin Known /\ Prepared(c, call[c].run, "fence")
       \/ /\ \E out \in {"failure", "abandoned", "uncertain"} : Fail(c, "unwind", out)
          /\ UNCHANGED run
    /\ UNCHANGED <<ledger, terminal, effects, issued>>

\* Import.Consume: the record leaves SUSPENDED for good.
Consume(c) ==
    /\ At(c, "consume")
    /\ \E result \in Results :
          /\ SetRun(call[c].run, Written(run[call[c].run], "IMPORTING", result))
          /\ IF result = "written" THEN Go(c, "commit") /\ UNCHANGED host
             ELSE Fail(c, "unwind", AuthorityAnswer(result))
          /\ Crossed(c, result)
    /\ UNCHANGED <<ledger, terminal, issued>>

\* CommitPaused under the host's root; a consumed import that fails is uncertain.
CommitPaused(c) ==
    /\ At(c, "commit")
    /\ \/ /\ ~host.closing
          /\ SetRun(call[c].run, [run[call[c].run] EXCEPT !.kernel = "paused"])
          /\ call' = [call EXCEPT ![c].own = @ \ {"prepared"}, ![c].pc = "track"]
          /\ UNCHANGED host
       \/ /\ host.closing
          /\ Fail(c, "unwind", IF call[c].kind = "start" THEN "abandoned" ELSE "uncertain")
          /\ UNCHANGED run
    /\ UNCHANGED <<ledger, terminal, effects, issued>>

TrackPaused(c) ==
    /\ At(c, "track")
    /\ call' = [call EXCEPT ![c].candidate = "tracked", ![c].pc = IF call[c].kind = "start" THEN "fence" ELSE "activate"]
    /\ UNCHANGED <<host, run, ledger, terminal, effects, issued>>

\* Activate the kernel and publish the run under its reservation's slot.
Publish(c, value) ==
    /\ SetRun(call[c].run, [value EXCEPT !.kernel = "running", !.identity = "active", !.lease = "active",
                               !.reserved = FALSE, !.owner = TRUE, !.active = TRUE, !.monitor = "wait"])
    /\ call' = [call EXCEPT ![c].candidate = "decided", ![c].own = {}, ![c].pc = "settle", ![c].out = "ok"]
    /\ UNCHANGED host

\* Mutant of ActivateStart: the kernel is activated before the authority.
ActivateStartFirst(c) ==
    /\ At(c, "activate") /\ call[c].kind = "start"
    /\ call[c].candidate = "tracked" /\ ~host.closing
    /\ \E result \in Results :
          /\ IF result \in {"written", "late", "lost"} THEN Publish(c, Written(run[call[c].run], "ACTIVE", result))
             ELSE SetRun(call[c].run, run[call[c].run]) /\ Fail(c, "abort", AuthorityAnswer(result))
          /\ Crossed(c, result)
    /\ UNCHANGED <<ledger, terminal, issued>>

\* authority.Start, then the kernel, under the candidate's mutex.
ActivateStart(c) ==
    /\ At(c, "activate") /\ call[c].kind = "start"
    /\ IF call[c].candidate = "tracked" /\ ~host.closing
       THEN \E result \in Results :
               LET value == Written(run[call[c].run], "ACTIVE", result)
               IN  /\ IF result = "written" THEN Publish(c, value)
                      ELSE SetRun(call[c].run, value) /\ Fail(c, "abort", AuthorityAnswer(result))
                   /\ Crossed(c, result)
       ELSE /\ call[c].candidate # "stopping"
            /\ Fail(c, "abort", "abandoned") /\ UNCHANGED <<run, effects>>
    /\ UNCHANGED <<ledger, terminal, issued>>

\* transaction.Activate, then the kernel; every failure is uncertain.
ActivateImport(c) ==
    /\ At(c, "activate") /\ call[c].kind = "import"
    /\ LET r == call[c].run
           Refuse(value) ==
               /\ SetRun(r, [value EXCEPT !.kernel = IF @ = "paused" THEN "inert" ELSE @])
               /\ call' = [call EXCEPT ![c].candidate = "decided", ![c].pc = "join", ![c].out = "uncertain"]
               /\ host' = [host EXCEPT !.degraded = TRUE]
       IN  IF call[c].candidate = "tracked" /\ ~host.closing
           THEN \E result \in Results :
                   LET value == Written(run[r], "ACTIVE", result)
                   IN  IF result = "written" THEN Publish(c, value) ELSE Refuse(value)
           ELSE call[c].candidate # "stopping" /\ Refuse(run[r])
    /\ UNCHANGED <<ledger, terminal, effects, issued>>

\* abortPaused: the first to decide cancels the paused run and joins it.
AbortPaused(c) ==
    /\ At(c, "abort") /\ call[c].candidate # "stopping"
    /\ IF call[c].candidate = "tracked"
       THEN /\ SetRun(call[c].run, [run[call[c].run] EXCEPT !.kernel = "inert"])
            /\ call' = [call EXCEPT ![c].candidate = "aborting", ![c].pc = "join"]
       ELSE Go(c, "unwind") /\ UNCHANGED run
    /\ UNCHANGED <<host, ledger, terminal, effects, issued>>

Joined(c) ==
    /\ At(c, "join") /\ run[call[c].run].kernel = "none"
    /\ call' = [call EXCEPT ![c].candidate = "decided", ![c].pc = "unwind"]
    /\ UNCHANGED <<host, run, ledger, terminal, effects, issued>>

\* The join's timeout: a started run is left to end by itself; an imported
\* one keeps its transaction until a background goroutine has joined it.
JoinTimeout(c) ==
    /\ At(c, "join") /\ run[call[c].run].kernel = "inert"
    /\ call' = [call EXCEPT ![c].candidate = "decided", ![c].own = @ \ {"import"}, ![c].pc = "unwind", ![c].out = "uncertain"]
    /\ host' = [host EXCEPT !.degraded = TRUE]
    /\ run' = [run EXCEPT ![call[c].run].late = Holds(c, "import")]
    /\ UNCHANGED <<ledger, terminal, effects, issued>>

LateRelease(r) ==
    /\ run[r].late /\ run[r].kernel = "none"
    /\ SetRun(r, [run[r] EXCEPT !.late = FALSE, !.lease = "none"])
    /\ UNCHANGED <<host, call, ledger, terminal, effects, issued>>

-----------------------------------------------------------------------------
(* The fence of the session, and the way back.                             *)

\* AcquireMutationCommit.
Fence(c) ==
    /\ At(c, "fence")
    /\ Go(c, CASE call[c].kind = "start"   -> "activate"
               [] call[c].kind = "import"  -> "consume"
               [] call[c].kind = "suspend" -> "issue"
               [] call[c].kind = "resume"  -> "authorize"
               [] OTHER                    -> call[c].kind)
    /\ UNCHANGED <<host, run, ledger, terminal, effects, issued>>

\* A fenced, closed or cancelled session: nothing was committed.  A prepared
\* local resume is aborted at once.
FenceFails(c) ==
    /\ At(c, "fence")
    /\ Fail(c, CASE call[c].kind = "start"   -> "abort"
                 [] call[c].kind = "suspend" -> "restore"
                 [] OTHER                    -> "unwind", "abandoned")
    /\ IF call[c].kind = "resume" THEN SetRun(call[c].run, [run[call[c].run] EXCEPT !.kernel = "suspended"]) ELSE UNCHANGED run
    /\ UNCHANGED <<ledger, terminal, effects, issued>>

\* The deferred aborts: an import transaction that was consumed or is
\* uncertain, or a plan that does not release, makes the answer uncertain.
Unwind(c) ==
    /\ At(c, "unwind")
    /\ LET r == call[c].run
           value == run[r]
           lost == Holds(c, "import") /\ (value.phase # "SUSPENDED" \/ value.uncertain)
       IN  \E leaked \in IF Holds(c, "prepared") THEN BOOLEAN ELSE {FALSE} :
              /\ SetRun(r, [value EXCEPT !.bound = @ /\ ~Holds(c, "binding"),
                                         !.kernel = IF Holds(c, "prepared") THEN "none" ELSE @,
                                         !.identity = IF Holds(c, "prepared") THEN "none" ELSE @,
                                         !.lease = IF Holds(c, "import") THEN "none" ELSE @,
                                         !.lock = IF Holds(c, "lock") THEN None ELSE @])
              /\ Fail(c, "release", IF lost \/ leaked THEN "uncertain" ELSE call[c].out)
    /\ UNCHANGED <<ledger, terminal, effects, issued>>

\* Mutant of Release: the slot is given back and the run stays reserved.
ReleaseSlotOnly(c) ==
    /\ At(c, "release")
    /\ host' = [host EXCEPT !.reserved = IF Holds(c, "slot") THEN @ - 1 ELSE @]
    /\ call' = [call EXCEPT ![c].own = {}, ![c].pc = "settle"]
    /\ UNCHANGED <<run, ledger, terminal, effects, issued>>

\* hostReservation.release.
Release(c) ==
    /\ At(c, "release")
    /\ host' = [host EXCEPT !.reserved = IF Holds(c, "slot") THEN @ - 1 ELSE @]
    /\ run' = IF Holds(c, "binding") THEN [run EXCEPT ![call[c].run].reserved = FALSE] ELSE run
    /\ call' = [call EXCEPT ![c].own = {}, ![c].pc = "settle"]
    /\ UNCHANGED <<ledger, terminal, effects, issued>>

-----------------------------------------------------------------------------
(* Suspend, Resume, Cancel and Respond.                                    *)

Hosted(r) == run[r].active
Retained(r) == \E i \in DOMAIN terminal : terminal[i] = r

\* A terminal run answers a Cancel; it has a sequence if it could be exported.
Ended(c) == IF run[call[c].run].sequence THEN "already" ELSE "failure"

Lookup(c) ==
    /\ At(c, "exec") /\ call[c].kind \in {"suspend", "resume", "cancel", "respond"}
    /\ LET r == call[c].run
       IN  CASE call[c].kind = "respond" /\ run[r].owner -> Go(c, "fence") /\ UNCHANGED host
             [] call[c].kind # "respond" /\ Hosted(r)    -> Go(c, "lock") /\ UNCHANGED host
             [] call[c].kind = "cancel" /\ ~Hosted(r) /\ Retained(r) -> Fail(c, "settle", Ended(c))
             [] OTHER -> Fail(c, "settle", "failure")
    /\ UNCHANGED <<run, ledger, terminal, effects, issued>>

\* transition.LockContext.
Lock(c) ==
    /\ At(c, "lock")
    /\ \/ /\ run[call[c].run].lock = None
          /\ run' = [run EXCEPT ![call[c].run].lock = c]
          /\ call' = [call EXCEPT ![c].own = {"lock"},
                         ![c].pc = CASE call[c].kind = "suspend" -> "boundary"
                                     [] call[c].kind = "resume"  -> "hold"
                                     [] OTHER                    -> "recheck"]
          /\ UNCHANGED host
       \/ Fail(c, "settle", "abandoned") /\ UNCHANGED run
    /\ UNCHANGED <<ledger, terminal, effects, issued>>

\* run.Suspend: the boundary is reached, the run ends first, or the caller
\* stops waiting and the run goes on.
Boundary(c) ==
    /\ At(c, "boundary")
    /\ \/ /\ run[call[c].run].kernel = "running"
          /\ run' = [run EXCEPT ![call[c].run].kernel = "suspended"]
          /\ Go(c, "fence") /\ UNCHANGED host
       \/ run[call[c].run].kernel # "running" /\ Fail(c, "unwind", "failure") /\ UNCHANGED run
       \/ Fail(c, "unwind", "abandoned") /\ UNCHANGED run
    /\ UNCHANGED <<ledger, terminal, effects, issued>>

\* restoreSuspendedRun: the run goes on unless it is being cancelled.
Restore(c) ==
    /\ At(c, "restore")
    /\ IF run[call[c].run].kernel = "suspended" /\ ~Cancelled(call[c].run)
       THEN run' = [run EXCEPT ![call[c].run].kernel = "running"] /\ Go(c, "unwind") /\ UNCHANGED host
       ELSE run' = [run EXCEPT ![call[c].run].cancelled = TRUE] /\ Fail(c, "unwind", "uncertain")
    /\ UNCHANGED <<ledger, terminal, effects, issued>>

\* ExportSnapshot and IssueSnapshotEnvelope.  The snapshot is the one of the
\* run as it is now: a run the host's root cancelled at the boundary may have
\* ended, and its envelope is then a tombstone.
Issue(c) ==
    /\ At(c, "issue")
    /\ LET r == call[c].run
           over == run[r].kernel = "over"
       IN  \/ /\ run[r].kernel \in {"suspended", "over"}
              /\ \E result \in Possible(r, {"ACTIVE"}) :
                    LET value == Written(run[r], IF over THEN "TERMINAL" ELSE "SUSPENDED", result)
                    IN  /\ CASE result = "written" ->
                                   /\ SetRun(r, [value EXCEPT !.snapshot = TRUE, !.lease = IF over THEN "none" ELSE @])
                                   /\ call' = [call EXCEPT ![c].pc = "unwind", ![c].out = "ok"] /\ UNCHANGED host
                             [] Attempted(result) -> SetRun(r, [value EXCEPT !.cancelled = TRUE]) /\ Fail(c, "unwind", "uncertain")
                             [] OTHER             -> SetRun(r, value) /\ Fail(c, "restore", AuthorityAnswer(result))
                        /\ Crossed(c, result)
           \/ /\ run[r].kernel = "suspended" /\ Cancelled(r)
              /\ Fail(c, "restore", "failure") /\ UNCHANGED <<run, effects>>
    /\ UNCHANGED <<ledger, terminal, issued>>

\* PrepareLocalResume.
Hold(c) ==
    /\ At(c, "hold")
    /\ IF run[call[c].run].kernel = "suspended" /\ ~Cancelled(call[c].run)
       THEN run' = [run EXCEPT ![call[c].run].kernel = "held"] /\ Go(c, "fence") /\ UNCHANGED host
       ELSE Fail(c, "unwind", "failure") /\ UNCHANGED run
    /\ UNCHANGED <<ledger, terminal, effects, issued>>

\* authority.Resume invalidates the envelope, then the kernel goes on.
AuthorizeResume(c) ==
    /\ At(c, "authorize")
    /\ LET r == call[c].run
       IN  \E result \in Possible(r, {"SUSPENDED"}) :
              LET value == Written(run[r], "ACTIVE", result)
              IN  /\ IF result = "written"
                     THEN /\ SetRun(r, [value EXCEPT !.kernel = "running", !.snapshot = FALSE])
                          /\ call' = [call EXCEPT ![c].pc = "unwind", ![c].out = "ok"] /\ UNCHANGED host
                     ELSE /\ SetRun(r, [value EXCEPT !.kernel = "suspended", !.cancelled = @ \/ Attempted(result)])
                          /\ Fail(c, "unwind", AuthorityAnswer(result))
                  /\ Crossed(c, result)
    /\ UNCHANGED <<ledger, terminal, issued>>

\* Cancel looks the run up again under the token.
Recheck(c) ==
    /\ At(c, "recheck")
    /\ LET r == call[c].run
       IN  CASE ~Hosted(r) /\ Retained(r) -> Fail(c, "unwind", Ended(c))
             [] ~Hosted(r) /\ ~Retained(r) -> Fail(c, "unwind", "failure")
             [] Hosted(r) /\ run[r].kernel = "over" -> Fail(c, "unwind", "already")
             [] OTHER -> Go(c, "fence") /\ UNCHANGED host
    /\ UNCHANGED <<run, ledger, terminal, effects, issued>>

RequestCancel(c) ==
    /\ At(c, "cancel")
    /\ run' = [run EXCEPT ![call[c].run].cancelled = TRUE]
    /\ call' = [call EXCEPT ![c].pc = "unwind", ![c].out = "ok"]
    /\ Crossed(c, "written")
    /\ UNCHANGED <<host, ledger, terminal, issued>>

\* pending.Respond: the interaction was pending or not.
Respond(c) ==
    /\ At(c, "respond")
    /\ \/ /\ run[call[c].run].bound /\ ~host.closing
          /\ call' = [call EXCEPT ![c].pc = "settle", ![c].out = "ok"]
          /\ Crossed(c, "written") /\ UNCHANGED host
       \/ Fail(c, "settle", "failure") /\ UNCHANGED effects
    /\ UNCHANGED <<run, ledger, terminal, issued>>

-----------------------------------------------------------------------------
(* The kernel's own steps, and the monitor of a published run.             *)

\* An execution ends; at a suspended boundary only a cancellation ends it.
KernelEnds(r) ==
    /\ \/ run[r].kernel = "running"
       \/ run[r].kernel = "suspended" /\ Cancelled(r)
    /\ SetRun(r, [run[r] EXCEPT !.kernel = "over", !.identity = "tombstone"])
    /\ UNCHANGED <<host, call, ledger, terminal, effects, issued>>

\* completeInert: an aborted paused run leaves no identity behind.
InertEnds(r) ==
    /\ run[r].kernel = "inert"
    /\ SetRun(r, [run[r] EXCEPT !.kernel = "none", !.identity = "none"])
    /\ UNCHANGED <<host, call, ledger, terminal, effects, issued>>

\* The run is over: its terminal snapshot is issued under the token.
MonitorIssue(r) ==
    /\ run[r].monitor = "wait" /\ run[r].kernel = "over" /\ run[r].lock = None
    /\ \E exported \in BOOLEAN : \E result \in IF exported THEN Possible(r, {"ACTIVE", "SUSPENDED"}) ELSE {"state"} :
          LET clean == exported /\ result = "written"
          IN  /\ SetRun(r, [Written(run[r], "TERMINAL", result) EXCEPT
                               !.lock = "monitor", !.sequence = exported, !.lease = IF clean THEN "none" ELSE @,
                               !.monitor = IF clean THEN "clean" ELSE "dirty"])
              /\ host' = [host EXCEPT !.degraded = @ \/ ~clean]
    /\ UNCHANGED <<call, ledger, terminal, effects, issued>>

Newest(s) == IF Len(s) > TerminalRuns THEN SubSeq(s, Len(s) - TerminalRuns + 1, Len(s)) ELSE s

\* authority.Close and finishRun: the slot is free, the run retained.
MonitorFinish(r) ==
    /\ run[r].monitor \in {"clean", "dirty"} /\ run[r].lock = "monitor"
    /\ SetRun(r, [run[r] EXCEPT !.lease = "none", !.active = FALSE, !.lock = None, !.snapshot = FALSE,
                     !.monitor = IF @ = "clean" THEN "drain" ELSE "drain dirty"])
    /\ host' = [host EXCEPT !.reserved = @ - 1]
    /\ terminal' = Newest(Append(terminal, r))
    /\ UNCHANGED <<call, ledger, effects, issued>>

\* binding.Release and WaitReleased, then the owner.
MonitorDrain(r) ==
    /\ run[r].monitor \in {"drain", "drain dirty"}
    /\ SetRun(r, [run[r] EXCEPT !.bound = FALSE, !.owner = FALSE,
                     !.monitor = IF @ = "drain" THEN "retire" ELSE "none",
                     !.kernel = IF run[r].monitor = "drain" THEN @ ELSE "none"])
    /\ UNCHANGED <<host, call, ledger, terminal, effects, issued>>

MonitorRetire(r) ==
    /\ run[r].monitor = "retire"
    /\ SetRun(r, [run[r] EXCEPT !.monitor = "none", !.identity = "none", !.kernel = "none"])
    /\ UNCHANGED <<host, call, ledger, terminal, effects, issued>>

-----------------------------------------------------------------------------
(* Shutdown and shutdownCore.                                              *)

Shutdown ==
    /\ ~host.closing
    /\ host' = [host EXCEPT !.closing = TRUE, !.stop = "collect"]
    /\ UNCHANGED <<call, run, ledger, terminal, effects, issued>>

Tracked == {c \in Calls : call[c].candidate \in {"tracked", "aborting"}}

\* The paused candidates are collected; sessions and pending hub close.
Collect ==
    /\ host.stop = "collect"
    /\ host' = [host EXCEPT !.stop = "abort", !.paused = Tracked]
    /\ UNCHANGED <<call, run, ledger, terminal, effects, issued>>

\* abortPaused of a collected candidate, under its mutex.
StopCandidate(c) ==
    /\ host.stop = "abort" /\ c \in host.paused
    /\ \/ /\ call[c].candidate = "tracked"
          /\ call' = [call EXCEPT ![c].candidate = "stopping"]
          /\ run' = [run EXCEPT ![call[c].run].kernel = "inert"]
          /\ UNCHANGED host
       \/ /\ call[c].candidate \in {"decided", "none"}
          /\ host' = [host EXCEPT !.paused = @ \ {c}]
          /\ UNCHANGED <<call, run>>
    /\ UNCHANGED <<ledger, terminal, effects, issued>>

CandidateStopped(c) ==
    /\ call[c].candidate = "stopping"
    /\ call' = [call EXCEPT ![c].candidate = "decided"]
    /\ host' = [host EXCEPT !.degraded = @ \/ run[call[c].run].kernel # "none", !.paused = @ \ {c}]
    /\ UNCHANGED <<run, ledger, terminal, effects, issued>>

\* operations.Wait; no operation is left to track a candidate after it.
Drained ==
    /\ host.stop = "abort" /\ host.paused = {} /\ \A c \in Calls : At(c, "idle")
    /\ host' = [host EXCEPT !.stop = "engine"]
    /\ UNCHANGED <<call, run, ledger, terminal, effects, issued>>

\* engine.Shutdown waits for every registered run, monitors.Wait for the
\* monitors; the authority is closed last.
StopEngine ==
    /\ host.stop = "engine" /\ \A r \in Runs : run[r].kernel \notin {"paused", "inert", "running", "suspended", "held"}
    /\ host' = [host EXCEPT !.stop = "monitors"]
    /\ UNCHANGED <<call, run, ledger, terminal, effects, issued>>

StopMonitors ==
    /\ host.stop = "monitors" /\ \A r \in Runs : run[r].monitor = "none" /\ ~run[r].late
    /\ host' = [host EXCEPT !.stop = "done"]
    /\ UNCHANGED <<call, run, ledger, terminal, effects, issued>>

-----------------------------------------------------------------------------
Init ==
    /\ host = [closing |-> FALSE, reserved |-> 0, degraded |-> FALSE, stop |-> "none", paused |-> {}]
    /\ call = [c \in Calls |-> Idle]
    /\ run \in [Runs -> {NewRun("ABSENT"), NewRun("SUSPENDED")}]
    /\ ledger = [o \in Ops |-> NoEntry]
    /\ terminal = <<>>
    /\ effects = [o \in Ops |-> 0]
    /\ issued = 0

LedgerStep(c) == Claim(c) \/ Reject(c) \/ Join(c) \/ Await(c) \/ Settle(c)
StartStep(c) ==
    \/ ReserveSlot(c) \/ PrepareStart(c) \/ Bind(c) \/ PrepareImport(c) \/ PrepareResume(c) \/ Consume(c)
    \/ CommitPaused(c) \/ TrackPaused(c) \/ ActivateStart(c) \/ ActivateImport(c) \/ AbortPaused(c) \/ Joined(c)
MutateStep(c) ==
    \/ Lookup(c) \/ Lock(c) \/ Boundary(c) \/ Restore(c) \/ Issue(c) \/ Hold(c) \/ AuthorizeResume(c)
    \/ Recheck(c) \/ RequestCancel(c) \/ Respond(c)
CallStep(c) == LedgerStep(c) \/ StartStep(c) \/ MutateStep(c) \/ Fence(c) \/ Unwind(c) \/ Release(c)
RunStep(r) == InertEnds(r) \/ LateRelease(r) \/ MonitorIssue(r) \/ MonitorFinish(r) \/ MonitorDrain(r) \/ MonitorRetire(r)
StopStep ==
    \/ Collect \/ Drained \/ StopEngine \/ StopMonitors
    \/ \E c \in Calls : StopCandidate(c) \/ CandidateStopped(c)

Finished ==
    /\ host.stop = "done"
    /\ UNCHANGED vars

Next ==
    \/ \E c \in Calls : Submit(c) \/ GiveUp(c) \/ Stale(c) \/ FenceFails(c) \/ JoinTimeout(c) \/ CallStep(c)
    \/ \E r \in Runs : KernelEnds(r) \/ RunStep(r)
    \/ Shutdown \/ StopStep \/ Finished

Fairness ==
    /\ \A c \in Calls : WF_vars(CallStep(c))
    /\ \A r \in Runs : WF_vars(RunStep(r)) /\ WF_vars(Cancelled(r) /\ KernelEnds(r))
    /\ WF_vars(StopStep)

Spec == Init /\ [][Next]_vars
FairSpec == Spec /\ Fairness

-----------------------------------------------------------------------------
TypeOK ==
    /\ host.reserved \in 0 .. Cardinality(Calls) + Cardinality(Runs)
    /\ \A c \in Calls : call[c].own \subseteq {"slot", "binding", "prepared", "import", "lock"}
    /\ \A r \in Runs :
          /\ run[r].kernel \in {"none", "prepared", "paused", "inert", "running", "suspended", "held", "over"}
          /\ run[r].identity \in {"none", "reserved", "active", "tombstone"}
          /\ run[r].phase \in {"ABSENT", "ACTIVE", "SUSPENDED", "IMPORTING", "TERMINAL"}

\* No kernel work happens outside a durably ACTIVE record: whatever writes
\* fail or are cut short, a run that executes has an active record, the
\* authority's lease, an active identity, its interaction binding and its
\* owner (Start, Import, Suspend, Resume and the monitor keep the order).
ExecutionIsAuthorized ==
    \A r \in Runs : run[r].kernel = "running" =>
        /\ run[r].phase = "ACTIVE" /\ ~run[r].uncertain /\ run[r].lease = "active"
        /\ run[r].identity = "active" /\ run[r].bound /\ run[r].owner /\ run[r].active

\* What the ledger remembers of an operation is true: a success crossed its
\* boundary exactly once, a failure and an abandoned operation crossed none,
\* so that a retry under the same ID never repeats one; an uncertain outcome
\* is never reported while the host's health is ready.
AnswersAreTrue ==
    \A o \in Ops :
        /\ effects[o] <= 1
        /\ ledger[o].out = "ok" => effects[o] = 1
        /\ ledger[o].out \in {"failure", "already"} \/ ledger[o] = NoEntry => effects[o] = 0
        /\ ledger[o].out = "uncertain" => Health # "ready"

HeldBy(c, r) == call[c].run = r /\ Holds(c, "binding")

\* Every slot, reservation, binding, identity and lease has one holder, a
\* call that is still out or a hosted run: what an operation took and did not
\* publish is given back on every way out of Start and Import, and a finished
\* Shutdown leaves nothing.
HoldingsAreAccounted ==
    /\ host.reserved = Cardinality({r \in Runs : run[r].active}) + Cardinality({c \in Calls : Holds(c, "slot")})
    /\ host.reserved <= ActiveRuns
    /\ \A r \in Runs :
          /\ Cardinality({c \in Calls : HeldBy(c, r)}) + (IF run[r].owner THEN 1 ELSE 0) <= 1
          /\ run[r].reserved <=> \E c \in Calls : HeldBy(c, r)
          /\ run[r].bound => run[r].owner \/ \E c \in Calls : HeldBy(c, r)
          /\ run[r].owner <=> run[r].monitor \notin {"none", "retire"}
          /\ run[r].lease = "active" => run[r].active
          /\ run[r].lease = "import" => run[r].late \/ \E c \in Calls : call[c].run = r /\ Holds(c, "import")
          /\ run[r].identity = "reserved" =>
                run[r].kernel = "inert" \/ \E c \in Calls : call[c].run = r /\ call[c].pc \notin {"idle", "settle"}
    /\ host.stop = "done" => \A r \in Runs : run[r].lease = "none" /\ ~run[r].bound /\ run[r].identity \in {"none", "tombstone"}

\* The engine forgets a finished run's identity only when the run's tombstone
\* is durable; after any failure the identity stays and a second execution
\* under it is refused (monitor, RunIdentityRetirement.Retire).
RetirementStep ==
    \A r \in Runs : run[r].identity = "tombstone" /\ run'[r].identity # "tombstone" => run[r].phase = "TERMINAL"
RetiredAfterTombstone == [][RetirementStep]_vars

\* A requested shutdown finishes: no operation, candidate, run or monitor can
\* hold it up (Shutdown, shutdownCore).
ShutdownCompletes == []<>(host.closing => host.stop = "done")

\* Every call returns, those that wait for another call's outcome included.
CallsReturn == \A c \in Calls : []<>At(c, "idle")

=============================================================================
