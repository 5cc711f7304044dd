---------------------------- MODULE ToolDispatch ----------------------------
(***************************************************************************)
(* The tools of one run: the lease of a tool plan (stage/plan.go,          *)
(* agent.go leaseCurrentToolPlan and leaseToolPlanGeneration), the round   *)
(* of tool calls (appendToolRound), the guards around one dispatch         *)
(* (stage/dispatch_guard.go), the base dispatcher (stage/stage.go), the    *)
(* facts of ToolStarted and of the terminal event (agent/tool_started.go,  *)
(* tool_terminal.go), and the release of the lease.                        *)
(*                                                                         *)
(* A guard is any code: it may answer without its continuation, call it on *)
(* its own goroutine or on another one, return before it ends, call it     *)
(* again, or keep it and call it after it returned.  A tool returns one of *)
(* the shapes of ToolReturns; it keeps no reporter after it returns, as    *)
(* tool.Tool demands.                                                      *)
(***************************************************************************)
EXTENDS Integers, Sequences

CONSTANTS
    Ids,        \* call IDs the model provider may use
    Plans,      \* tool plan generations of the source
    Tools,      \* declared tools: a function from names to [effect, replay]
    Ghost,      \* a name no plan declares
    Depth,      \* guards of the pipeline
    Attempts,   \* times the decorators may call the guarded dispatcher for one call
    Releasers,  \* callers of ReleaseContext
    None

VARIABLES
    run,        \* pc of the run's goroutine, its plan, the calls of the round, IDs of its history
    guard,      \* one activation of each guard, with its continuation
    base,       \* the base dispatcher: whether Execute runs, and the reporter's first error
    events,     \* per ID: ToolStarted, and the facts of its terminal event
    effects,    \* per ID: calls of the guarded dispatcher and of Execute; what Execute last returned
    lease,      \* the ToolPlanLease
    releaser    \* callers of ReleaseContext

vars == <<run, guard, base, events, effects, lease, releaser>>

Levels == 1..Depth

-----------------------------------------------------------------------------
(* Values: tool results, errors and the facts of a terminal event.         *)

States == {"definitive", "uncertain"}
Retries == {"never", "allowed"}
NoFacts == [outcome |-> None, retry |-> None]

Result(own, problem) == [kind |-> "result", own |-> own, problem |-> problem]
Failed(own, facts) == [kind |-> "error", own |-> own, facts |-> facts]
Plain == Failed(FALSE, NoFacts)
Both == [kind |-> "both"]

\* ExecutionError.Validate: an uncertain outcome never permits a retry.
ExecutionErrors == {f \in [outcome : States, retry : Retries] :
                        f.outcome = "uncertain" => f.retry = "never"}

ToolReturns == {Result(TRUE, FALSE), Result(TRUE, TRUE), Result(FALSE, FALSE), Both, Plain}
               \cup {Failed(own, f) : own \in BOOLEAN, f \in ExecutionErrors}

\* NewDefinition: a read-only tool is safe to replay, a mutating one is idempotent or unsafe.
ValidDefinition(d) == (d.effect = "read_only") = (d.replay = "safe")

validateExecutionError(d, r) ==
    IF /\ r.own
       /\ r.facts.outcome = "uncertain" => d.effect = "mutating"
       /\ r.facts.retry = "allowed" => d.replay # "unsafe"
    THEN r ELSE Plain

\* What Dispatcher.Dispatch makes of Execute's return.  A reporter's error is joined to a
\* typed failure (DispatchFailure) and replaces everything else.
Judged(d, r, reporterErr) ==
    CASE r.kind = "both" -> Plain
      [] r.kind = "error" -> validateExecutionError(d, r)
      [] r.kind = "result" -> IF reporterErr \/ ~r.own THEN Plain ELSE r

validateGuardOutcome(r) ==
    CASE r.kind = "both" -> Plain
      [] r.kind = "error" -> r
      [] r.kind = "result" -> IF r.own THEN r ELSE Plain

-----------------------------------------------------------------------------
(* Acquisition of the lease.                                               *)

NoLease == [id |-> None, started |-> FALSE, callback |-> "off", calls |-> 0, finished |-> FALSE, err |-> None]

Leased(id) == [NoLease EXCEPT !.id = id]

\* The source answers: a lease of some generation, possibly with an error or invalid; or none.
\* Anything but a valid lease of the wanted generation, under a live context, is rolled back.
Acquire(id, valid) ==
    /\ run.pc = "acquire"
    /\ lease' = Leased(id)
    /\ run' = IF valid /\ ~run.ctxDone /\ (run.wanted # None => id = run.wanted)
              THEN [run EXCEPT !.pc = "round", !.plan = id, !.wanted = None]
              ELSE [run EXCEPT !.pc = "release", !.wanted = None]
    /\ UNCHANGED <<guard, base, events, effects, releaser>>

AcquireFails ==
    /\ run.pc = "acquire"
    /\ run' = [run EXCEPT !.pc = "done", !.wanted = None]
    /\ UNCHANGED <<guard, base, events, effects, lease, releaser>>

-----------------------------------------------------------------------------
(* The round: appendToolRound.                                             *)

Active == Head(run.calls)

validateNewToolCalls(calls) ==
    /\ \A i, j \in DOMAIN calls : i # j => calls[i].id # calls[j].id
    /\ \A i \in DOMAIN calls : calls[i].id \notin run.seen

Fails == [run EXCEPT !.pc = "release", !.calls = <<>>]

\* The model ended its turn: with calls for another round, or without.
BeginRound(calls) ==
    /\ run.pc = "round" /\ run.calls = <<>>
    /\ run' = IF validateNewToolCalls(calls)
              THEN [run EXCEPT !.pc = "start", !.calls = calls, !.seen = @ \cup {calls[i].id : i \in DOMAIN calls}]
              ELSE Fails
    /\ UNCHANGED <<guard, base, events, effects, lease, releaser>>

EndRun ==
    /\ run.pc = "round" /\ run.calls = <<>>
    /\ run' = Fails
    /\ UNCHANGED <<guard, base, events, effects, lease, releaser>>

NewEvents == [started |-> 0, terminal |-> 0, refused |-> FALSE]
NewEffects == [entered |-> 0, executed |-> 0, returned |-> NoFacts]

\* ok; committed although a required observer failed; refused by the log.
Outcomes == {"ok", "observer", "log"}

\* NewDispatcher admits valid definitions only.
Declared(c) == c.name \in DOMAIN Tools /\ ValidDefinition(Tools[c.name])

\* The facts ToolStarted records, and what its validation and its decoder demand of them.
NoDefinition == [effect |-> None, replay |-> None]
ToolStartedOccurrence(c) ==
    [id |-> c.id, name |-> c.name, declared |-> Declared(c), executable |-> Declared(c), plan |-> run.plan,
     definition |-> IF Declared(c) THEN Tools[c.name] ELSE NoDefinition]
ValidStarted(o) ==
    /\ o.plan # None
    /\ o.executable => o.declared
    /\ IF o.declared THEN ValidDefinition(o.definition) ELSE o.definition = NoDefinition

\* emitToolStarted: an undeclared tool is recorded as one and then failed.
StartTool(o) ==
    /\ run.pc = "start"
    /\ IF run.ctxDone \/ o = "log" \/ ~ValidStarted(ToolStartedOccurrence(Active))
       THEN run' = Fails /\ UNCHANGED events
       ELSE /\ events' = [events EXCEPT ![Active.id].started = @ + 1]
            /\ run' = IF o = "ok" /\ Declared(Active) THEN [run EXCEPT !.pc = "dispatch"]
                      ELSE [run EXCEPT !.pc = "terminal", !.result = Plain]
    /\ UNCHANGED <<guard, base, effects, lease, releaser>>

\* toolFailure: the facts of an error typed for this call.
Facts(r) == IF r.kind = "error" /\ r.own THEN r.facts ELSE NoFacts

\* The facts of the terminal event, and what its validation and its decoder demand of them.
ToolTerminalOccurrence(c, r) ==
    [id |-> c.id, name |-> c.name, kind |-> IF r.kind = "error" THEN "ToolFailed" ELSE "ToolCompleted", facts |-> Facts(r)]
ValidTerminal(o) == o.facts = NoFacts \/ (o.kind = "ToolFailed" /\ o.facts \in ExecutionErrors)

\* The terminal is persisted outside the run's context; an error of the tool ends the round.
TerminateTool(o) ==
    /\ run.pc = "terminal"
    /\ events' = IF o = "log" \/ ~ValidTerminal(ToolTerminalOccurrence(Active, run.result)) THEN [events EXCEPT ![Active.id].refused = TRUE]
                 ELSE [events EXCEPT ![Active.id].terminal = @ + 1]
    /\ effects' = [effects EXCEPT ![Active.id] = NewEffects]
    /\ run' = IF o # "ok" \/ run.result.kind = "error" THEN [Fails EXCEPT !.result = None]
              ELSE [run EXCEPT !.pc = IF Len(run.calls) > 1 THEN "start" ELSE "round",
                               !.calls = Tail(@), !.result = None]
    /\ UNCHANGED <<guard, base, lease, releaser>>

Cancel ==
    /\ ~run.ctxDone /\ run.pc # "done"
    /\ run' = [run EXCEPT !.ctxDone = TRUE]
    /\ UNCHANGED <<guard, base, events, effects, lease, releaser>>

-----------------------------------------------------------------------------
(* One dispatch: decorators, guards and their continuations, the tool.     *)

\* guardedToolDispatcher.Dispatch's activation of one guard: pc of the code around it, the
\* continuation's atomic state and done channel, and what the continuation returned.
NoGuard == [pc |-> "off", state |-> 2, done |-> FALSE, out |-> None, got |-> None]
NoBase == [running |-> FALSE, reporterErr |-> FALSE]

\* invoke(ctx, index) gives r: to the dispatcher's caller, or to the continuation above it.
\* The continuation stores its state before it closes done.
Answered(g, l, r) == IF l = 1 THEN g ELSE [g EXCEPT ![l - 1].got = r, ![l - 1].state = 2]

Dispatched(l, r) == IF l = 1 THEN run' = [run EXCEPT !.result = r] ELSE UNCHANGED run

\* invoke(ctx, l) begins: the guard, or below the last one the base dispatcher.
Begun(g, l) == IF l <= Depth THEN [g EXCEPT ![l] = [NoGuard EXCEPT !.pc = "guard", !.state = 0]] ELSE g

\* Execute starts, unless the context has ended or the scope's plan is not the leased one.
Invoke(g, l) ==
    LET refused == run.ctxDone \/ (l > Depth /\ lease.id # run.plan)
        executes == ~refused /\ l > Depth
    IN  /\ guard' = IF refused THEN Answered(g, l, Plain) ELSE Begun(g, l)
        /\ IF refused THEN Dispatched(l, Plain) ELSE UNCHANGED run
        /\ base' = IF executes THEN [base EXCEPT !.running = TRUE] ELSE base
        /\ effects' = [effects EXCEPT ![Active.id].entered = IF l = 1 THEN @ + 1 ELSE @,
                                      ![Active.id].executed = IF executes THEN @ + 1 ELSE @]

\* A decorator calls the guarded dispatcher, again if it likes, once the last call has returned.
Idle == (\A l \in Levels : guard[l].pc = "off") /\ ~base.running

Enter ==
    /\ run.pc = "dispatch" /\ Idle /\ effects[Active.id].entered < Attempts
    /\ Invoke(guard, 1)
    /\ UNCHANGED <<events, lease, releaser>>

\* The dispatcher's last answer is the round's result.
Leave ==
    /\ run.pc = "dispatch" /\ Idle /\ run.result # None
    /\ run' = [run EXCEPT !.pc = "terminal"]
    /\ UNCHANGED <<guard, base, events, effects, lease, releaser>>

\* Some goroutine calls the continuation of guard l: CompareAndSwap(0, 1).
Continue(l) ==
    /\ guard[l].state = 0
    /\ Invoke([guard EXCEPT ![l].state = 1], l + 1)
    /\ UNCHANGED <<events, lease, releaser>>

\* The continuation's deferred close(done).
CloseDone(l) ==
    /\ guard[l].state = 2 /\ guard[l].got # None /\ ~guard[l].done
    /\ guard' = [guard EXCEPT ![l].done = TRUE]
    /\ UNCHANGED <<run, base, events, effects, lease, releaser>>

\* The guard returns or panics: with an answer of its own, or with its continuation's.
GuardReturns(l, r) ==
    /\ guard[l].pc = "guard"
    /\ r \in {Result(TRUE, FALSE), Result(FALSE, FALSE), Both, Plain}
             \cup (IF guard[l].done THEN {guard[l].got} ELSE {})
    /\ guard' = [guard EXCEPT ![l].pc = "closing", ![l].out = validateGuardOutcome(r)]
    /\ UNCHANGED <<run, base, events, effects, lease, releaser>>

\* The activation is over: the answer goes to whoever invoked it.
Finished(l) ==
    /\ guard' = Answered([guard EXCEPT ![l] = [NoGuard EXCEPT !.state = guard[l].state]], l, guard[l].out)
    /\ Dispatched(l, guard[l].out)
    /\ UNCHANGED <<base, events, effects, lease, releaser>>

\* Mutant of CloseContinuation: the guard's answer is returned without closing its continuation.
CloseContinuationNever(l) == guard[l].pc = "closing" /\ Finished(l)

\* closeContinuation: CompareAndSwap(0, 2), ...
CloseContinuation(l) ==
    /\ guard[l].pc = "closing"
    /\ guard' = IF guard[l].state = 0 THEN [guard EXCEPT ![l].state = 2, ![l].pc = "closed"]
                ELSE [guard EXCEPT ![l].pc = "load"]
    /\ UNCHANGED <<run, base, events, effects, lease, releaser>>

\* ... or else a Load, ...
LoadState(l) ==
    /\ guard[l].pc = "load"
    /\ guard' = [guard EXCEPT ![l].pc = IF guard[l].state = 1 THEN "join" ELSE "closed"]
    /\ UNCHANGED <<run, base, events, effects, lease, releaser>>

\* ... and the wait for an invoked continuation that has not stored its state.
Join(l) ==
    /\ guard[l].pc = "closed" \/ (guard[l].pc = "join" /\ guard[l].done)
    /\ Finished(l)

\* scopedReporter keeps the first error of Report.
ReportFails ==
    /\ base.running /\ ~base.reporterErr
    /\ base' = [base EXCEPT !.reporterErr = TRUE]
    /\ UNCHANGED <<run, guard, events, effects, lease, releaser>>

\* Execute returns, or panics as far as the guard above it (or safeDispatch).
ToolReturn(r) ==
    /\ base.running
    /\ LET out == Judged(Tools[Active.name], r, base.reporterErr)
       IN  /\ guard' = Answered(guard, Depth + 1, out)
           /\ Dispatched(Depth + 1, out)
    /\ base' = NoBase
    /\ effects' = [effects EXCEPT ![Active.id].returned = Facts(r)]
    /\ UNCHANGED <<events, lease, releaser>>

-----------------------------------------------------------------------------
(* Release of the lease: ReleaseContext, invokeRelease, finishRelease.     *)

\* releaseStart.Do: the first caller starts the callback in a goroutine of its own.
ReleaseContext(c) ==
    /\ releaser[c].pc = "idle" /\ run.pc = "release" /\ lease.id # None
    /\ lease' = IF lease.started THEN lease
                ELSE [lease EXCEPT !.started = TRUE, !.calls = @ + 1, !.callback = "running"]
    /\ releaser' = [releaser EXCEPT ![c].pc = "select"]
    /\ UNCHANGED <<run, guard, base, events, effects>>

finishRelease(l, err) == IF l.finished THEN l ELSE [l EXCEPT !.finished = TRUE, !.err = err]

\* invokeRelease: the callback returns or panics; nothing obliges it to.
CallbackReturns(err) ==
    /\ lease.callback = "running"
    /\ lease' = finishRelease([lease EXCEPT !.callback = "over"], err)
    /\ UNCHANGED <<run, guard, base, events, effects, releaser>>

\* The caller's context expires first.
ReleaseExpires(c) ==
    /\ releaser[c].pc = "select"
    /\ lease' = finishRelease(lease, "late")
    /\ releaser' = [releaser EXCEPT ![c].pc = "wait"]
    /\ UNCHANGED <<run, guard, base, events, effects>>

\* releaseDone is closed.
Released(c) ==
    /\ releaser[c].pc \in {"select", "wait"} /\ lease.finished
    /\ releaser' = [releaser EXCEPT ![c] = [pc |-> "done", err |-> lease.err]]
    /\ UNCHANGED <<run, guard, base, events, effects, lease>>

-----------------------------------------------------------------------------
Init ==
    /\ \E wanted \in Plans \cup {None} :
           run = [pc |-> "acquire", wanted |-> wanted, plan |-> None, calls |-> <<>>,
                  seen |-> {}, result |-> None, ctxDone |-> FALSE]
    /\ guard = [l \in Levels |-> NoGuard]
    /\ base = NoBase
    /\ events = [i \in Ids |-> NewEvents]
    /\ effects = [i \in Ids |-> NewEffects]
    /\ lease = NoLease
    /\ releaser = [c \in Releasers |-> [pc |-> "idle", err |-> None]]

RoundCalls == [id : Ids, name : DOMAIN Tools \cup {Ghost}]
Rounds == {<<c>> : c \in RoundCalls} \cup {<<c, d>> : c, d \in RoundCalls}

RunStep ==
    \/ \E id \in Plans, valid \in BOOLEAN : Acquire(id, valid)
    \/ AcquireFails
    \/ \E calls \in Rounds : BeginRound(calls)
    \/ EndRun
    \/ \E o \in Outcomes : StartTool(o) \/ TerminateTool(o)
    \/ Enter \/ Leave

GuardStep(l) ==
    \/ Continue(l) \/ CloseDone(l)
    \/ CloseContinuation(l) \/ LoadState(l) \/ Join(l)
    \/ \E r \in ToolReturns : GuardReturns(l, r)

ReleaseStep(c) == ReleaseContext(c) \/ ReleaseExpires(c) \/ Released(c)

Next ==
    \/ RunStep \/ Cancel \/ ReportFails
    \/ \E l \in Levels : GuardStep(l)
    \/ \E r \in ToolReturns : ToolReturn(r)
    \/ \E c \in Releasers : ReleaseStep(c)
    \/ \E err \in {"ok", "failed"} : CallbackReturns(err)

Spec == Init /\ [][Next]_vars

-----------------------------------------------------------------------------
(* Properties.                                                             *)

\* While a tool executes its dispatch has not returned: every guard above it is still in
\* progress with its continuation invoked, and the plan's lease is not being released.  The
\* guarded dispatcher executes a tool at most once each time it is called, for an ID recorded
\* as started once (guardedToolDispatcher.Dispatch, newGuardContinuation, appendToolRound).
ToolRunsUnderGuards ==
    /\ base.running =>
           /\ run.pc = "dispatch" /\ ~lease.started /\ lease.id = run.plan
           /\ \A l \in Levels : guard[l].pc # "off" /\ guard[l].state = 1
    /\ \A i \in Ids :
           /\ effects[i].executed <= effects[i].entered
           /\ effects[i].executed > 0 => events[i].started = 1

\* The events of a call tell what happened to it: a call started once has one terminal event
\* when its round moves on, unless the log refused it; the terminal carries facts only when
\* the tool executed and failed with those facts; and it advises a retry only for a tool that
\* declares one harmless, an uncertain outcome only for a mutating tool
\* (toolFailure, toolTerminal, validateExecutionError).
RecordsAreTrue ==
    /\ \A i \in Ids :
           /\ events[i].started <= 1 /\ events[i].terminal <= events[i].started
           /\ run.pc \in {"round", "release", "done"} /\ ~events[i].refused =>
                  events[i].terminal = events[i].started
    /\ run.pc = "terminal" /\ Facts(run.result) # NoFacts =>
           LET f == Facts(run.result) IN
           /\ effects[Active.id].executed > 0 /\ effects[Active.id].returned = f
           /\ f.retry = "allowed" => Tools[Active.name].replay # "unsafe"
           /\ f.outcome = "uncertain" => Tools[Active.name].effect = "mutating"

\* The release callback runs at most once;
\* all callers of ReleaseContext are told the same, which does not change when the callback
\* ends later (ToolPlanLease.ReleaseContext, finishRelease).
ReleaseIsOne ==
    /\ lease.calls <= 1
    /\ \A c \in Releasers : releaser[c].pc = "done" => lease.finished /\ releaser[c].err = lease.err
=============================================================================
