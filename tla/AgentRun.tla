------------------------------ MODULE AgentRun ------------------------------
(***************************************************************************)
(* One run of the agent kernel (agent/agent.go, prepared_execution.go,     *)
(* local_resume.go), from its prepared execution to its retired identity:  *)
(* the activation gate, the turn loop and the events it commits, Suspend   *)
(* and local resume at turn boundaries, interactions of other goroutines,  *)
(* cancellation, and finalization.                                         *)
(*                                                                         *)
(* One action is one critical section of run.stateMu, or one commit of an  *)
(* event under the emitter's lock with the sequence it records.  A turn    *)
(* runs at most MaxCalls tools.  Stream deltas and tool progress only take *)
(* sequence numbers and are left out.  Tools keep no reporter after they   *)
(* return, and required observers do not panic.                            *)
(***************************************************************************)
EXTENDS Integers, Sequences

CONSTANTS
    Suspenders, Resumers, Interactions,   \* callers of Suspend, of local resume, of Interact
    None,
    MaxTurns,       \* definition.maxTurns
    MaxCalls        \* tool calls of one turn

ASSUME TurnsAssumption == MaxTurns \in Nat \ {0} /\ MaxCalls \in Nat
ASSUME NobodyAssumption == None \notin Suspenders \cup Resumers

VARIABLES
    run,        \* the fields of Run under stateMu, its context and its plan lease
    exec,       \* the goroutine of awaitDecision and executeState
    prep,       \* preparedExecution.state and PreparedRun.state
    engine,     \* closed, whether engine.active has the run, the state of its identity
    log,        \* last sequence; events opened and not ended; the terminal event; a refused append
    suspender,  \* goroutines inside Suspend, with the waiter's buffered answer
    resumer,    \* owners of a PreparedLocalResume
    interact    \* goroutines inside Interact

vars == <<run, exec, prep, engine, log, suspender, resumer, interact>>

Spans == {"run", "turn", "model", "tool"} \cup Interactions

\* The kind of an event tells an interaction from the run's own operations.
ASSUME SpansAssumption == Interactions \cap {"run", "turn", "model", "tool"} = {}

\* The caller has the *Run: Commit or Activate returned it.
Handle == prep.gate = "activated"

-----------------------------------------------------------------------------
(* Events: what persist does to the log.                                   *)

\* ok; committed although a required observer failed; refused by Append.
Outcomes == {"ok", "observer", "log"}

Committed(o) == o # "log"

\* Started opens a span, a terminal ends it.
Persist(x, by, o) ==
    log' = IF Committed(o)
           THEN [log EXCEPT !.sequence = @ + 1, !.open[x] = @ + by]
           ELSE [log EXCEPT !.refused = TRUE]

\* emit looks at the context first.
Emit(x, by, o, ctxDone) == IF ctxDone THEN UNCHANGED log ELSE Persist(x, by, o)

Emitted(o, ctxDone) == o = "ok" /\ ~ctxDone

-----------------------------------------------------------------------------
(* The prepared execution and the activation gate.                         *)

Others == <<suspender, resumer, interact>>

\* commitPaused: the run is registered; Commit also passes the gate.
Commit(now) ==
    /\ prep.execution = "ready"
    /\ ~run.ctxDone /\ ~engine.closed
    /\ prep' = [execution |-> "committed", gate |-> IF now THEN "activated" ELSE "ready"]
    /\ engine' = [engine EXCEPT !.active = TRUE, !.identity = IF now THEN "active" ELSE @]
    /\ exec' = [exec EXCEPT !.pc = "gate"]
    /\ UNCHANGED <<run, log, Others>>

\* abortLocked: Abort, or a commit under an ended root or a closed engine.
AbortPreparation ==
    /\ prep.execution = "ready"
    /\ prep' = [prep EXCEPT !.execution = "aborted"]
    /\ run' = [run EXCEPT !.released = @ + 1]
    /\ engine' = [engine EXCEPT !.identity = "none"]
    /\ UNCHANGED <<exec, log, Others>>

\* Mutant of Activate: the gate opens without the identity.
ActivateOnly ==
    /\ prep.gate = "ready"
    /\ prep' = [prep EXCEPT !.gate = "activated"]
    /\ UNCHANGED <<run, exec, engine, log, Others>>

\* PreparedRun.Activate.
Activate ==
    /\ prep.gate = "ready"
    /\ prep' = [prep EXCEPT !.gate = "activated"]
    /\ engine' = [engine EXCEPT !.identity = "active"]
    /\ UNCHANGED <<run, exec, log, Others>>

\* PreparedRun.Abort.
AbortPaused ==
    /\ prep.gate = "ready"
    /\ prep' = [prep EXCEPT !.gate = "aborted"]
    /\ run' = [run EXCEPT !.ctxDone = TRUE]
    /\ UNCHANGED <<exec, engine, log, Others>>

\* awaitDecision goes on to executeState or finalizeAbort.
Decided ==
    /\ exec.pc = "gate"
    /\ prep.gate # "ready"
    /\ exec' = [exec EXCEPT !.pc = IF prep.gate = "aborted" THEN "finalize"
                                  ELSE IF exec.emitRunStart THEN "start" ELSE "turn"]
    /\ UNCHANGED <<run, prep, engine, log, Others>>

\* Run.Cancel, Engine.Shutdown of a registered run, or the end of the root context.
Cancel ==
    /\ ~run.ctxDone
    /\ run' = [run EXCEPT !.ctxDone = TRUE]
    /\ UNCHANGED <<exec, prep, engine, log, Others>>

\* Engine.Close or Shutdown before the run is registered; a registered run does not look at
\* engine.closed again.
Stop ==
    /\ ~engine.closed
    /\ prep.execution = "ready"
    /\ engine' = [engine EXCEPT !.closed = TRUE]
    /\ UNCHANGED <<run, exec, prep, log, Others>>

-----------------------------------------------------------------------------
(* executeState: the run's own steps.                                      *)

\* The loop is left with an error, and ctx.Err() chooses between failed and cancelled.
Fails == [exec EXCEPT !.pc = "finalize", !.todo = <<>>,
                      !.kind = IF run.ctxDone THEN "cancelled" ELSE "failed"]

\* Failure events still owed for what is open, innermost first.
Owes(spans) == [exec EXCEPT !.pc = "fail", !.todo = spans]

Local == <<run, prep, engine, Others>>

\* lifecycleStart and markStarted; its context ignores cancellation.
StartRun(o) ==
    /\ exec.pc = "start"
    /\ Persist("run", 1, o)
    /\ run' = [run EXCEPT !.started = Committed(o), !.status = IF Committed(o) THEN "running" ELSE @]
    /\ exec' = IF o = "ok" THEN [exec EXCEPT !.pc = "turn"]
               ELSE [exec EXCEPT !.pc = "finalize", !.kind = "failed"]
    /\ UNCHANGED <<prep, engine, Others>>

\* TurnStarted.
StartTurn(o) ==
    /\ exec.pc = "turn"
    /\ Emit("turn", 1, o, run.ctxDone)
    /\ exec' = CASE Emitted(o, run.ctxDone) -> [exec EXCEPT !.pc = "model"]
                 [] o = "observer" /\ ~run.ctxDone -> Owes(<<"turn">>)
                 [] OTHER -> Fails
    /\ UNCHANGED Local

\* The request cannot be built.
RefuseRequest ==
    /\ exec.pc = "model"
    /\ exec' = Owes(<<"turn">>)
    /\ UNCHANGED <<log, Local>>

\* ModelStarted.
StartModel(o) ==
    /\ exec.pc = "model"
    /\ Emit("model", 1, o, run.ctxDone)
    /\ exec' = CASE Emitted(o, run.ctxDone) -> [exec EXCEPT !.pc = "stream"]
                 [] o = "observer" /\ ~run.ctxDone -> Owes(<<"model", "turn">>)
                 [] OTHER -> Owes(<<"turn">>)
    /\ UNCHANGED Local

\* The provider or its stream fails.
StreamFails ==
    /\ exec.pc = "stream"
    /\ exec' = Owes(<<"model", "turn">>)
    /\ UNCHANGED <<log, Local>>

\* consumeStream returns the completed stream's tool calls.
StreamEnds(n) ==
    /\ exec.pc = "stream"
    /\ exec' = [exec EXCEPT !.pc = "modelDone", !.calls = n]
    /\ UNCHANGED <<log, Local>>

\* ModelCompleted.
CompleteModel(o) ==
    /\ exec.pc = "modelDone"
    /\ Emit("model", -1, o, run.ctxDone)
    /\ exec' = IF Emitted(o, run.ctxDone)
               THEN [exec EXCEPT !.pc = IF exec.calls = 0 THEN "turnDone" ELSE "tool", !.final = exec.calls = 0]
               ELSE Owes(<<"turn">>)
    /\ UNCHANGED Local

\* appendToolRound refuses the calls, or the message of a result cannot be built.
RefuseTool ==
    /\ exec.pc = "tool" \/ (exec.pc = "turnDone" /\ ~exec.final)
    /\ exec' = Owes(<<"turn">>)
    /\ UNCHANGED <<log, Local>>

\* ToolStarted, of a declared tool or of one that is not.
StartTool(o, declared) ==
    /\ exec.pc = "tool"
    /\ Emit("tool", 1, o, run.ctxDone)
    /\ exec' = CASE Emitted(o, run.ctxDone) /\ declared -> [exec EXCEPT !.pc = "dispatch"]
                 [] ~run.ctxDone /\ Committed(o) /\ ~(o = "ok" /\ declared) -> Owes(<<"tool", "turn">>)
                 [] OTHER -> Owes(<<"turn">>)
    /\ UNCHANGED Local

\* The dispatcher returns a result or an error.
Dispatch(failed) ==
    /\ exec.pc = "dispatch"
    /\ exec' = IF failed THEN Owes(<<"tool", "turn">>) ELSE [exec EXCEPT !.pc = "toolDone"]
    /\ UNCHANGED <<log, Local>>

\* toolTerminal, and the next call; its context ignores cancellation.
CompleteTool(o) ==
    /\ exec.pc = "toolDone"
    /\ Persist("tool", -1, o)
    /\ exec' = IF o = "ok"
               THEN [exec EXCEPT !.pc = IF exec.calls = 1 THEN "turnDone" ELSE "tool", !.calls = @ - 1]
               ELSE Owes(<<"turn">>)
    /\ UNCHANGED Local

\* TurnCompleted, and recordBoundary: the run is complete, or reaches the turn's boundary.
CompleteTurn(o) ==
    /\ exec.pc = "turnDone"
    /\ Emit("turn", -1, o, run.ctxDone)
    /\ IF Emitted(o, run.ctxDone)
       THEN /\ run' = [run EXCEPT !.completedTurns = exec.turn]
            /\ exec' = IF exec.final THEN [exec EXCEPT !.pc = "finalize", !.kind = "completed"]
                       ELSE [exec EXCEPT !.pc = "boundary"]
       ELSE exec' = Fails /\ UNCHANGED run
    /\ UNCHANGED <<prep, engine, Others>>

\* toolFailure, modelFailure and turnFailure; their context ignores cancellation.
Fail(o) ==
    /\ exec.pc = "fail"
    /\ Persist(Head(exec.todo), -1, o)
    /\ exec' = IF Len(exec.todo) = 1 THEN Fails ELSE [exec EXCEPT !.todo = Tail(@)]
    /\ UNCHANGED Local

-----------------------------------------------------------------------------
(* suspendAtBoundary.                                                      *)

\* The loop goes round, or has used its turns.
NextTurn == IF exec.turn < MaxTurns
            THEN [exec EXCEPT !.pc = "turn", !.turn = @ + 1]
            ELSE [exec EXCEPT !.pc = "finalize", !.kind = "failed"]

PassBoundary ==
    /\ exec.pc = "boundary"
    /\ ~run.suspendRequested
    /\ exec' = NextTurn
    /\ UNCHANGED <<log, Local>>

Answered(s, answer) == [suspender EXCEPT ![s].answer = answer]

\* An interaction is still active: the request fails.
RefuseSuspend ==
    /\ exec.pc = "boundary"
    /\ run.suspendRequested /\ run.activeInteractions # {}
    /\ run' = [run EXCEPT !.suspendRequested = FALSE, !.suspendWaiter = None, !.status = "running"]
    /\ suspender' = Answered(run.suspendWaiter, "unsafe")
    /\ exec' = NextTurn
    /\ UNCHANGED <<prep, engine, log, resumer, interact>>

\* The boundary is established; the goroutine waits for its resume signal or for its context.
Park ==
    /\ exec.pc = "boundary"
    /\ run.suspendRequested /\ run.activeInteractions = {}
    /\ run' = [run EXCEPT !.suspendRequested = FALSE, !.suspendWaiter = None, !.status = "suspended",
                          !.resumeSignal = TRUE]
    /\ suspender' = Answered(run.suspendWaiter, "suspended")
    /\ exec' = [exec EXCEPT !.pc = "parked"]
    /\ UNCHANGED <<prep, engine, log, resumer, interact>>

\* The signal is closed.
Unpark ==
    /\ exec.pc = "parked"
    /\ ~run.resumeSignal
    /\ exec' = IF run.ctxDone THEN Fails ELSE NextTurn
    /\ UNCHANGED <<log, Local>>

\* The context ended: finish, or wait for the local resume that holds the boundary.
ParkedCancel ==
    /\ exec.pc = "parked"
    /\ run.ctxDone
    /\ IF run.localResume = None
       THEN run' = [run EXCEPT !.status = "finishing"] /\ exec' = Fails
       ELSE exec' = [exec EXCEPT !.pc = "latched"] /\ UNCHANGED run
    /\ UNCHANGED <<prep, engine, log, Others>>

\* Mutant of Unlatch: the resume signal is awaited, which Abort does not close.
UnlatchResumed ==
    /\ exec.pc = "latched"
    /\ ~run.resumeSignal
    /\ exec' = Fails
    /\ UNCHANGED <<log, Local>>

\* The decision was made.
Unlatch ==
    /\ exec.pc = "latched"
    /\ run.localResume = None
    /\ exec' = Fails
    /\ UNCHANGED <<log, Local>>

-----------------------------------------------------------------------------
(* Finalization.                                                           *)

\* beginFinalization, up to its wait for the interactions.
BeginFinalization ==
    /\ exec.pc = "finalize"
    /\ run' = [run EXCEPT !.status = "finishing", !.suspendRequested = FALSE,
                          !.suspendWaiter = None, !.ctxDone = TRUE]
    /\ suspender' = IF run.suspendRequested THEN Answered(run.suspendWaiter, "unsafe") ELSE suspender
    /\ exec' = [exec EXCEPT !.pc = "drain"]
    /\ UNCHANGED <<prep, engine, log, resumer, interact>>

\* Mutant of Drained: the interactions are not awaited.
DrainedAtOnce == TRUE

\* interactionWG.Wait.
Drained == run.activeInteractions = {}

\* The plan lease is released, which may report a failure; an inert run has no terminal event.
Release(failed) ==
    /\ exec.pc = "drain"
    /\ Drained
    /\ run' = [run EXCEPT !.released = @ + 1]
    /\ exec' = IF prep.gate = "aborted" THEN [exec EXCEPT !.pc = "complete"]
               ELSE [exec EXCEPT !.pc = "terminal", !.kind = IF failed THEN "failed" ELSE @]
    /\ UNCHANGED <<prep, engine, log, Others>>

\* terminal and recordTerminal.
Terminal(o) ==
    /\ exec.pc = "terminal"
    /\ log' = IF Committed(o)
              THEN [log EXCEPT !.sequence = @ + 1, !.open["run"] = @ - 1, !.terminal = TRUE]
              ELSE [log EXCEPT !.refused = TRUE]
    /\ run' = [run EXCEPT !.status = IF Committed(o) THEN exec.kind ELSE @]
    /\ exec' = [exec EXCEPT !.pc = "complete"]
    /\ UNCHANGED <<prep, engine, Others>>

\* complete and completeInert: the run leaves the engine and closes its log and done channel.
Complete ==
    /\ exec.pc = "complete"
    /\ engine' = [engine EXCEPT !.active = FALSE,
                                !.identity = IF prep.gate = "aborted" THEN "none" ELSE "tombstone"]
    /\ exec' = [exec EXCEPT !.pc = "done"]
    /\ UNCHANGED <<run, prep, log, Others>>

\* RunIdentityRetirement.Retire: refused before the tombstone.
Retire ==
    /\ engine.identity = "tombstone"
    /\ engine' = [engine EXCEPT !.identity = "none"]
    /\ UNCHANGED <<run, exec, prep, log, Others>>

-----------------------------------------------------------------------------
(* Suspend, local resume and interactions, from other goroutines.          *)

\* Suspend is accepted and waits.
Suspend(s) ==
    /\ Handle
    /\ suspender[s].pc = "idle"
    /\ run.status = "running" /\ run.started /\ ~run.suspendRequested
    /\ run' = [run EXCEPT !.suspendRequested = TRUE, !.suspendWaiter = s, !.status = "suspending"]
    /\ suspender' = [suspender EXCEPT ![s] = [pc |-> "waiting", answer |-> None]]
    /\ UNCHANGED <<exec, prep, engine, log, resumer, interact>>

IdleSuspender == [pc |-> "idle", answer |-> None]

\* The waiter has its answer.
SuspendReturns(s) ==
    /\ suspender[s].pc = "waiting" /\ suspender[s].answer # None
    /\ suspender' = [suspender EXCEPT ![s] = IdleSuspender]
    /\ UNCHANGED <<run, exec, prep, engine, log, resumer, interact>>

\* resumeLocked.
Resumed == [run EXCEPT !.status = "running", !.resumeSignal = FALSE]

\* The context of the call ends, and the select takes that branch: the request is withdrawn,
\* or a boundary that was established is resumed.
SuspendCancelled(s) ==
    /\ suspender[s].pc = "waiting"
    /\ suspender' = [suspender EXCEPT ![s] = IdleSuspender]
    /\ run' = CASE run.suspendRequested /\ run.suspendWaiter = s ->
                    [run EXCEPT !.suspendRequested = FALSE, !.suspendWaiter = None, !.status = "running"]
                [] ~(run.suspendRequested /\ run.suspendWaiter = s)
                        /\ run.status = "suspended" /\ run.resumeSignal -> Resumed
                [] OTHER -> run
    /\ UNCHANGED <<exec, prep, engine, log, resumer, interact>>

\* PrepareLocalResume.
PrepareLocalResume(p) ==
    /\ Handle
    /\ resumer[p] = "idle"
    /\ ~run.ctxDone
    /\ run.status = "suspended" /\ run.resumeSignal
    /\ run.localResume = None /\ run.activeInteractions = {}
    /\ run' = [run EXCEPT !.localResume = p, !.status = "resume-pending"]
    /\ resumer' = [resumer EXCEPT ![p] = "ready"]
    /\ UNCHANGED <<exec, prep, engine, log, suspender, interact>>

HoldsBoundary(p) ==
    /\ resumer[p] = "ready"
    /\ run.localResume = p /\ run.status = "resume-pending" /\ run.resumeSignal

\* PreparedLocalResume.Commit.
CommitLocalResume(p) ==
    /\ HoldsBoundary(p)
    /\ run' = [Resumed EXCEPT !.localResume = None]
    /\ resumer' = [resumer EXCEPT ![p] = "idle"]
    /\ UNCHANGED <<exec, prep, engine, log, suspender, interact>>

\* PreparedLocalResume.Abort.
AbortLocalResume(p) ==
    /\ HoldsBoundary(p)
    /\ run' = [run EXCEPT !.localResume = None,
                          !.status = IF run.ctxDone THEN "finishing" ELSE "suspended"]
    /\ resumer' = [resumer EXCEPT ![p] = "idle"]
    /\ UNCHANGED <<exec, prep, engine, log, suspender, interact>>

\* reserveInteraction; the other cases of Interact's guard return an error.
Reserve(i) ==
    /\ Handle
    /\ interact[i] = "idle"
    /\ run.status = "running" /\ run.started
    /\ run' = [run EXCEPT !.activeInteractions = @ \cup {i}]
    /\ interact' = [interact EXCEPT ![i] = "reserved"]
    /\ UNCHANGED <<exec, prep, engine, log, suspender, resumer>>

Around == <<run, exec, prep, engine, suspender, resumer>>

\* InteractionStarted, under the caller's own context.
StartInteraction(i, o, ctxDone) ==
    /\ interact[i] = "reserved"
    /\ Emit(i, 1, o, ctxDone)
    /\ interact' = [interact EXCEPT ![i] = CASE Emitted(o, ctxDone) -> "asking"
                                             [] o = "observer" /\ ~ctxDone -> "failing"
                                             [] OTHER -> "release"]
    /\ UNCHANGED Around

\* The broker answers, or fails because it does, the caller left or the run was cancelled.
Answer(i, failed) ==
    /\ interact[i] = "asking"
    /\ interact' = [interact EXCEPT ![i] = IF failed THEN "failing" ELSE "answered"]
    /\ UNCHANGED <<log, Around>>

\* InteractionCompleted; if it was not committed the interaction fails.
CompleteInteraction(i, o, ctxDone) ==
    /\ interact[i] = "answered"
    /\ Emit(i, -1, o, ctxDone)
    /\ interact' = [interact EXCEPT ![i] = IF ~ctxDone /\ Committed(o) THEN "release" ELSE "failing"]
    /\ UNCHANGED Around

\* interactionFailure; its context ignores cancellation.
FailInteraction(i, o) ==
    /\ interact[i] = "failing"
    /\ Persist(i, -1, o)
    /\ interact' = [interact EXCEPT ![i] = "release"]
    /\ UNCHANGED Around

\* releaseInteraction; the ID stays in seenInteractions.
ReleaseInteraction(i) ==
    /\ interact[i] = "release"
    /\ run' = [run EXCEPT !.activeInteractions = @ \ {i}]
    /\ interact' = [interact EXCEPT ![i] = "seen"]
    /\ UNCHANGED <<exec, prep, engine, log, suspender, resumer>>

-----------------------------------------------------------------------------

\* A prepared start, or a prepared resume of a snapshot whose run had been started.
Init ==
    /\ exec \in {[pc |-> "none", emitRunStart |-> e, turn |-> 1, calls |-> 0, final |-> FALSE,
                  todo |-> <<>>, kind |-> "failed"] : e \in BOOLEAN}
    /\ run = [status |-> IF exec.emitRunStart THEN "" ELSE "running", started |-> ~exec.emitRunStart,
              suspendRequested |-> FALSE, suspendWaiter |-> None, resumeSignal |-> FALSE,
              localResume |-> None, activeInteractions |-> {}, completedTurns |-> 0,
              ctxDone |-> FALSE, released |-> 0]
    /\ prep = [execution |-> "ready", gate |-> "none"]
    /\ engine = [closed |-> FALSE, active |-> FALSE, identity |-> "reserved"]
    /\ log = [sequence |-> 0, terminal |-> FALSE, refused |-> FALSE,
              open |-> [x \in Spans |-> IF x = "run" /\ ~exec.emitRunStart THEN 1 ELSE 0]]
    /\ suspender = [s \in Suspenders |-> IdleSuspender]
    /\ resumer = [p \in Resumers |-> "idle"]
    /\ interact = [i \in Interactions |-> "idle"]

Execute ==
    \/ Decided \/ RefuseRequest \/ StreamFails \/ RefuseTool
    \/ \E o \in Outcomes :
        \/ StartRun(o) \/ StartTurn(o) \/ StartModel(o) \/ CompleteModel(o) \/ CompleteTool(o)
        \/ CompleteTurn(o) \/ Fail(o) \/ Terminal(o)
        \/ \E declared \in BOOLEAN : StartTool(o, declared)
    \/ \E n \in 0 .. MaxCalls : StreamEnds(n)
    \/ \E failed \in BOOLEAN : Dispatch(failed) \/ Release(failed)
    \/ PassBoundary \/ RefuseSuspend \/ Park \/ Unpark \/ ParkedCancel \/ Unlatch
    \/ BeginFinalization \/ Complete

Interacting(i) ==
    \/ \E o \in Outcomes, c \in BOOLEAN : StartInteraction(i, o, c) \/ CompleteInteraction(i, o, c)
    \/ \E o \in Outcomes : FailInteraction(i, o)
    \/ \E failed \in BOOLEAN : Answer(i, failed)
    \/ ReleaseInteraction(i)

Next ==
    \/ \E now \in BOOLEAN : Commit(now)
    \/ AbortPreparation \/ Activate \/ AbortPaused \/ Cancel \/ Stop \/ Retire
    \/ Execute
    \/ \E s \in Suspenders : Suspend(s) \/ SuspendReturns(s) \/ SuspendCancelled(s)
    \/ \E p \in Resumers : PrepareLocalResume(p) \/ CommitLocalResume(p) \/ AbortLocalResume(p)
    \/ \E i \in Interactions : Reserve(i) \/ Interacting(i)

Spec == Init /\ [][Next]_vars

\* Goroutines run; providers, tools and brokers return; whoever holds a paused run or a
\* prepared local resume decides it, as both are documented to be.
Fairness ==
    /\ WF_vars(Execute)
    /\ WF_vars(Activate \/ AbortPaused)
    /\ \A s \in Suspenders : WF_vars(SuspendReturns(s))
    /\ \A p \in Resumers : WF_vars(CommitLocalResume(p) \/ AbortLocalResume(p))
    /\ \A i \in Interactions : WF_vars(Interacting(i))

FairSpec == Spec /\ Fairness

-----------------------------------------------------------------------------
(* Properties.                                                             *)

\* Types; the two counters show that the plan lease is released at most once and that, unless
\* the log refused an event, nothing starts twice or ends twice.
TypeOK ==
    /\ run.status \in {"", "running", "suspending", "suspended", "resume-pending", "finishing",
                       "completed", "failed", "cancelled"}
    /\ run.suspendWaiter \in Suspenders \cup {None} /\ run.localResume \in Resumers \cup {None}
    /\ run.activeInteractions \subseteq Interactions /\ run.completedTurns \in 0 .. MaxTurns
    /\ run.released \in 0 .. 1
    /\ exec.turn \in 1 .. MaxTurns /\ exec.calls \in 0 .. MaxCalls
    /\ ~log.refused => log.open \in [Spans -> 0 .. 1]

\* A snapshot is exported only while execution stands at its boundary: suspended, or with a
\* local resume pending, nothing executes and no interaction is active.
SuspendedIsParked ==
    run.status \in {"suspended", "resume-pending"} =>
        /\ exec.pc \in {"parked", "latched"}
        /\ run.resumeSignal /\ run.activeInteractions = {}
        /\ run.status = "resume-pending" <=> run.localResume # None

Working == {"start", "turn", "model", "stream", "modelDone", "tool", "dispatch", "toolDone",
            "turnDone", "fail", "boundary", "parked", "latched"}

\* Whatever executes or interacts has the plan lease, an active identity and its place in the
\* engine; and when the run is over, or its preparation aborted, all three are given back.
ResourcesFollowRun ==
    /\ exec.pc \in Working \/ run.activeInteractions # {} =>
        run.released = 0 /\ engine.identity = "active" /\ engine.active
    /\ exec.pc = "done" \/ prep.execution = "aborted" =>
        /\ run.released = 1 /\ ~engine.active
        /\ engine.identity = "none" \/ (engine.identity = "tombstone" /\ Handle)

\* Once the run is over every committed start of the run, of a tool and of an interaction has
\* its terminal, on every failure path, unless the log itself refused an event; and of a run
\* that completed every turn and model operation has too.
EndedUnlessCutShort ==
    exec.pc = "done" /\ Handle /\ ~log.refused =>
        \A x \in Spans : log.open[x] # 0 => x \in {"turn", "model"} /\ run.status # "completed"

\* The run is accounted for: types and bounds, a suspended one stands still, what it holds it
\* gives back, and what it started it ended.
RunIsAccounted == TypeOK /\ SuspendedIsParked /\ ResourcesFollowRun /\ EndedUnlessCutShort

\* docs/rfc/0002-message-and-event-model.md: "Every committed
\* Run/Turn/Model/Tool/Interaction Started event receives exactly one matching
\* Completed, Failed, or Cancelled terminal."
EveryStartEnds == exec.pc = "done" /\ Handle /\ ~log.refused => \A x \in Spans : log.open[x] = 0

\* After the terminal event nothing is committed, however late an interaction ends, and an
\* inert run commits nothing at all; at a boundary the next sequence is that of the snapshot.
QuietWhenSettled ==
    [][log.terminal \/ prep.gate = "aborted"
            \/ {run.status, run'.status} \subseteq {"suspended", "resume-pending"} =>
        log'.sequence = log.sequence]_vars

\* A cancelled run, paused at its gate, suspended or executing, reaches its end.
CancelEnds == []<>~(run.ctxDone /\ engine.active)

\* Every accepted Suspend returns.
SuspendEnds == \A s \in Suspenders : []<>(suspender[s].pc = "idle")
=============================================================================
