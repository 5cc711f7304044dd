----------------------------- MODULE PluginLink -----------------------------
(***************************************************************************)
(* One candidate of a runtime plugin, from launch to containment, and the  *)
(* plugin process at the other end of its connection (plugin/host          *)
(* launcher.go, candidate.go, accepted_candidate.go, remote_tool.go,       *)
(* output.go; the process side is internal/pluginfixture).                 *)
(*                                                                         *)
(* The launch, the calls of a run, the health observer, the closes of the  *)
(* host and the process interleave; the process may exit, write to stdout  *)
(* and break the stream at any time.  Every call and every lifecycle RPC   *)
(* may run out of time.  The content of the handshake is PluginContract's. *)
(***************************************************************************)
EXTENDS Integers, FiniteSets

CONSTANTS
    Calls,          \* tool calls, each made once
    Tools,          \* [effect, replay]
    MaxConcurrent,  \* negotiated MaxConcurrentCalls
    MaxCloses,      \* calls of close
    MaxFaults,      \* failures of the process, its output, its containment or the executable's path
    None

VARIABLES
    path,       \* whether the configured path still names the pinned executable
    cand,       \* the candidate: launch phase and the resources it owns
    child,      \* the process
    sink,       \* readinessSink
    acc,        \* acceptedCandidate
    closer,     \* the close that holds acc.operation
    sess,       \* remoteSession: admission slots, active calls, draining
    call,       \* the host's side of each call
    svc,        \* the plugin's service
    work,       \* the plugin's side of each call
    faults

vars == <<path, cand, child, sink, acc, closer, sess, call, svc, work, faults>>

hostVars == <<acc, closer, sess, call>>
pluginVars == <<child, sink, svc, work>>

Fault == faults < MaxFaults /\ faults' = faults + 1
NoFault == UNCHANGED faults

-----------------------------------------------------------------------------
(* Launch.                                                                 *)

NoCandidate == [phase |-> "new", lease |-> FALSE, endpoint |-> FALSE, process |-> FALSE,
                connection |-> FALSE, input |-> FALSE, session |-> FALSE, closed |-> FALSE]

LaunchFails(c) == cand' = [c EXCEPT !.phase = "failed", !.input = FALSE]

\* VerifyExecutable, the random material, the endpoint and the bootstrap; stop is where it fails.
Prepare(stop) ==
    /\ cand.phase = "new"
    /\ stop = "none" => path = "pinned"
    /\ IF stop = "none" THEN NoFault ELSE IF path = "pinned" THEN Fault ELSE NoFault
    /\ LET held == [NoCandidate EXCEPT !.lease = stop # "verify",
                                       !.endpoint = stop \notin {"verify", "random", "endpoint"}]
       IN  IF stop = "none" THEN cand' = [held EXCEPT !.phase = "prepared", !.input = TRUE]
           ELSE LaunchFails(held)
    /\ UNCHANGED <<path, pluginVars, hostVars>>

\* StartVerified may return a process together with an error; ownership transfers either way.
Start(owned, failed) ==
    /\ cand.phase = "prepared" /\ (owned \/ failed)
    /\ IF failed THEN Fault ELSE NoFault
    /\ child' = [child EXCEPT !.state = IF owned THEN "running" ELSE "none"]
    /\ IF owned THEN cand' = [cand EXCEPT !.phase = IF failed THEN "unstarted" ELSE "recheck",
                                          !.process = TRUE]
       ELSE LaunchFails(cand)
    /\ UNCHANGED <<path, sink, svc, work, hostVars>>

\* recheckVerifiedExecutable, then the error of the start.
Recheck ==
    /\ cand.phase \in {"recheck", "unstarted"}
    /\ IF path = "pinned" /\ cand.phase = "recheck"
       THEN cand' = [cand EXCEPT !.phase = "readiness"] ELSE LaunchFails(cand)
    /\ NoFault /\ UNCHANGED <<path, pluginVars, hostVars>>

\* waitForReadiness; the input is cleared whatever it returns.
Readiness ==
    /\ cand.phase = "readiness" /\ (sink.ready \/ sink.failed \/ child.state = "exited")
    /\ IF sink.ready /\ ~sink.failed /\ child.state = "running"
       THEN cand' = [cand EXCEPT !.phase = "connect", !.input = FALSE] ELSE LaunchFails(cand)
    /\ NoFault /\ UNCHANGED <<path, pluginVars, hostVars>>

StartupTimeout ==
    /\ cand.phase \in {"readiness", "connect"}
    /\ Fault
    /\ LaunchFails(cand)
    /\ UNCHANGED <<path, pluginVars, hostVars>>

\* initializeCandidate and the checks of the response; then postReadyFailure.
Authenticate(ok) ==
    /\ cand.phase = "connect"
    /\ IF ok THEN NoFault ELSE IF child.state = "running" /\ ~sink.failed THEN Fault ELSE NoFault
    /\ LET answered == ok /\ child.state = "running" /\ ~svc.initialized
           alive == child.state = "running" /\ ~sink.failed
       IN  /\ svc' = [svc EXCEPT !.initialized = @ \/ answered]
           /\ IF answered /\ alive
              THEN cand' = [cand EXCEPT !.phase = "launched", !.connection = TRUE, !.session = TRUE]
              ELSE LaunchFails([cand EXCEPT !.connection = TRUE])
    /\ UNCHANGED <<path, child, sink, work, hostVars>>

\* newAcceptedCandidate
Accept ==
    /\ cand.phase = "launched" /\ ~cand.closed
    /\ IF sink.failed \/ child.state # "running" \/ ~cand.connection
       THEN LaunchFails(cand) /\ UNCHANGED acc
       ELSE /\ cand' = [cand EXCEPT !.phase = "accepted"]
            /\ acc' = [acc EXCEPT !.on = TRUE]
    /\ NoFault /\ UNCHANGED <<path, pluginVars, closer, sess, call>>

\* The path is replaced by another file.
Replace ==
    /\ path = "pinned" /\ cand.phase \in {"new", "prepared", "recheck"}
    /\ Fault
    /\ path' = "replaced"
    /\ UNCHANGED <<cand, pluginVars, hostVars>>

-----------------------------------------------------------------------------
(* The process: readiness, exit and noise.                                 *)

\* DecodeBootstrap, Listen and WriteReadiness; Read empties the private input.
WriteReadiness ==
    /\ child.state = "running" /\ ~child.booted /\ cand.input
    /\ child' = [child EXCEPT !.booted = TRUE]
    /\ cand' = [cand EXCEPT !.input = FALSE]
    /\ sink' = [sink EXCEPT !.ready = ~sink.failed]
    /\ NoFault /\ UNCHANGED <<path, svc, work, hostVars>>

\* A byte that is not the readiness record, before it or after it.
Noise ==
    /\ child.state = "running" /\ ~sink.failed
    /\ Fault
    /\ sink' = [sink EXCEPT !.failed = TRUE]
    /\ UNCHANGED <<path, cand, child, svc, work, hostVars>>

\* The process ends by itself: after Shutdown, or before; its stdout closes.
Exit ==
    /\ child.state = "running"
    /\ IF svc.closed THEN NoFault ELSE Fault
    /\ child' = [child EXCEPT !.state = "exited"]
    /\ sink' = [sink EXCEPT !.failed = @ \/ ~sink.ready]
    /\ work' = [c \in Calls |-> IF work[c].pc = "running" THEN [work[c] EXCEPT !.pc = "ended"] ELSE work[c]]
    /\ svc' = [svc EXCEPT !.active = {}]
    /\ UNCHANGED <<path, cand, hostVars>>

\* observe and markUnhealthy
Unwell == child.state # "running" \/ sink.failed \/ ~cand.connection
Observe ==
    /\ acc.on /\ ~acc.unhealthy /\ ~acc.contained /\ Unwell
    /\ acc' = [acc EXCEPT !.unhealthy = TRUE]
    /\ NoFault /\ UNCHANGED <<path, cand, pluginVars, closer, sess, call>>

-----------------------------------------------------------------------------
(* Calls: remoteTool.Execute and the plugin's Execute.                     *)

IdleCall == [pc |-> "idle", tool |-> None, terminal |-> None, out |-> None]
IdleWork == [pc |-> "none", effect |-> FALSE, wire |-> None, said |-> None]

Failure(state, retry) == [kind |-> "failure", state |-> state, retry |-> retry]
Success == [kind |-> "result"]

\* remoteTool.failure
failure(t, definitive) ==
    Failure(IF ~definitive /\ t.effect = "mutating" THEN "uncertain" ELSE "definitive", "never")

\* compatibleTerminalFailure
compatibleTerminalFailure(t, f) ==
    /\ f.state = "uncertain" => t.effect = "mutating"
    /\ f.retry = "allowed" => t.replay # "unsafe"

CallVars == <<path, cand, acc, closer>>

Execute(c, t) ==
    /\ call[c].pc = "idle" /\ acc.on
    /\ call' = [call EXCEPT ![c] = [@ EXCEPT !.pc = "acquire", !.tool = t]]
    /\ NoFault /\ UNCHANGED <<CallVars, pluginVars, sess>>

Outcome(c, out) == call' = [call EXCEPT ![c].pc = "returned", ![c].out = out, ![c].terminal = None]

\* acquire takes a slot, then looks at draining under the mutex.
Acquire(c) ==
    /\ call[c].pc = "acquire" /\ sess.slots < MaxConcurrent
    /\ sess' = [sess EXCEPT !.slots = @ + 1]
    /\ call' = [call EXCEPT ![c].pc = "enter"]
    /\ NoFault /\ UNCHANGED <<CallVars, pluginVars>>

Enter(c) ==
    /\ call[c].pc = "enter"
    /\ IF sess.draining
       THEN sess' = [sess EXCEPT !.slots = @ - 1] /\ Outcome(c, failure(call[c].tool, TRUE))
       ELSE sess' = [sess EXCEPT !.active = @ + 1] /\ call' = [call EXCEPT ![c].pc = "admitted"]
    /\ NoFault /\ UNCHANGED <<CallVars, pluginVars>>

\* release
Released(c, out) ==
    /\ sess' = [sess EXCEPT !.active = @ - 1, !.slots = @ - 1]
    /\ Outcome(c, out)

\* The call's context ends before the request is sent.
ExpireEarly(c) ==
    /\ call[c].pc \in {"acquire", "admitted"}
    /\ IF call[c].pc = "acquire" THEN Outcome(c, failure(call[c].tool, TRUE)) /\ UNCHANGED sess
       ELSE Released(c, failure(call[c].tool, TRUE))
    /\ NoFault /\ UNCHANGED <<CallVars, pluginVars>>

Send(c) ==
    /\ call[c].pc = "admitted"
    /\ call' = [call EXCEPT ![c].pc = "sent"]
    /\ work' = [work EXCEPT ![c].pc = "arriving"]
    /\ NoFault /\ UNCHANGED <<CallVars, child, sink, svc, sess>>

\* The plugin's Execute: refused, or admitted.
Handle(c) ==
    /\ work[c].pc = "arriving" /\ child.state = "running"
    /\ IF svc.closed \/ svc.draining \/ Cardinality(svc.active) >= MaxConcurrent
       THEN work' = [work EXCEPT ![c].pc = "ended"] /\ UNCHANGED svc
       ELSE /\ work' = [work EXCEPT ![c].pc = "running"]
            /\ svc' = [svc EXCEPT !.active = @ \cup {c}]
    /\ NoFault /\ UNCHANGED <<CallVars, child, sink, sess, call>>

\* The tool acts, once, before its terminal frame.
Act(c) ==
    /\ work[c].pc = "running" /\ ~work[c].effect /\ work[c].said = None
    /\ call[c].tool.effect = "mutating"
    /\ work' = [work EXCEPT ![c].effect = TRUE]
    /\ NoFault /\ UNCHANGED <<CallVars, child, sink, svc, sess, call>>

Frames == {Success} \cup {Failure(s, r) : s \in {"definitive", "uncertain"}, r \in {"never", "allowed"}}

\* A frame of the stream: progress, a terminal (an honest one), or one the validator refuses.
Emit(c, f) ==
    /\ work[c].pc = "running" /\ work[c].wire = None
    /\ IF f.kind = "bad" THEN Fault ELSE NoFault
    /\ f \in Frames => work[c].said = None
    /\ f \in Frames /\ f.kind = "failure" /\ f.state = "definitive" => ~work[c].effect
    /\ f.kind = "progress" => work[c].said = None
    /\ work' = [work EXCEPT ![c].wire = f, ![c].said = IF f \in Frames THEN f ELSE @]
    /\ UNCHANGED <<CallVars, child, sink, svc, sess, call>>

\* The handler returns; release
HandlerReturns(c) ==
    /\ work[c].pc = "running" /\ work[c].wire = None
    /\ work' = [work EXCEPT ![c].pc = IF work[c].said = None THEN "ended" ELSE "finished"]
    /\ svc' = [svc EXCEPT !.active = @ \ {c}]
    /\ NoFault /\ UNCHANGED <<CallVars, child, sink, sess, call>>

\* receive: StreamValidator.Accept, then the frame.
Receive(c, reported) ==
    /\ call[c].pc = "sent" /\ work[c].wire # None
    /\ LET f == work[c].wire
           t == call[c].tool
           refused == \/ f.kind = "bad" \/ call[c].terminal # None
                      \/ (f.kind = "failure" /\ ~compatibleTerminalFailure(t, f))
                      \/ (f.kind = "progress" /\ ~reported)
       IN  IF refused THEN Released(c, failure(t, FALSE))
           ELSE /\ call' = [call EXCEPT ![c].terminal = IF f.kind = "progress" THEN @ ELSE f]
                /\ UNCHANGED sess
    /\ work' = [work EXCEPT ![c].wire = None]
    /\ NoFault /\ UNCHANGED <<CallVars, child, sink, svc>>

\* Mutant of ReceiveEnd: a stream that ends without a terminal proves that nothing happened.
ReceiveEndDefinitive(c) ==
    /\ call[c].pc = "sent" /\ work[c].wire = None
    /\ work[c].pc \in {"ended", "finished"} \/ ~cand.connection
    /\ Released(c, IF call[c].terminal # None THEN call[c].terminal ELSE failure(call[c].tool, TRUE))
    /\ NoFault /\ UNCHANGED <<CallVars, pluginVars>>

\* The stream ends or breaks: the terminal frame stands, its absence is a failure.
ReceiveEnd(c) ==
    /\ call[c].pc = "sent" /\ work[c].wire = None
    /\ work[c].pc \in {"ended", "finished"} \/ ~cand.connection
    /\ Released(c, IF call[c].terminal # None THEN call[c].terminal ELSE failure(call[c].tool, FALSE))
    /\ NoFault /\ UNCHANGED <<CallVars, pluginVars>>

\* The call timeout, or the run's context; the plugin's handler may go on.
Expire(c) ==
    /\ call[c].pc = "sent"
    /\ Released(c, IF call[c].terminal # None THEN call[c].terminal ELSE failure(call[c].tool, FALSE))
    /\ work' = [work EXCEPT ![c].wire = None,
                            ![c].pc = IF @ = "arriving" /\ child.state # "running" THEN "ended" ELSE @]
    /\ NoFault /\ UNCHANGED <<CallVars, child, sink, svc>>

\* A request that reaches nobody.
Undelivered(c) ==
    /\ work[c].pc = "arriving" /\ (child.state # "running" \/ ~cand.connection)
    /\ work' = [work EXCEPT ![c].pc = "ended"]
    /\ NoFault /\ UNCHANGED <<CallVars, child, sink, svc, sess, call>>

-----------------------------------------------------------------------------
(* acceptedCandidate.close.                                                *)

CloserAt(pc) == closer.pc = pc
CloseGo(pc) == closer' = [closer EXCEPT !.pc = pc]
CloseVars == <<path, sess, call>>

\* A failed launch is cleaned up directly; an accepted candidate drains first.
Close ==
    /\ closer.pc = "idle" /\ closer.calls < MaxCloses
    /\ acc.on \/ (cand.phase = "failed" /\ ~cand.closed)
    /\ ~acc.contained
    /\ closer' = [pc |-> IF ~acc.on \/ (acc.drainAttempted /\ ~acc.drained) THEN "kill"
                         ELSE IF acc.drainAttempted THEN "shutdown"
                         ELSE IF acc.admissionDrained THEN "health" ELSE "drain",
                  calls |-> closer.calls + 1]
    /\ NoFault /\ UNCHANGED <<CloseVars, cand, acc, pluginVars>>

\* beginDrain
BeginDrain ==
    /\ CloserAt("drain")
    /\ sess' = [sess EXCEPT !.draining = TRUE]
    /\ CloseGo("zero")
    /\ NoFault /\ UNCHANGED <<path, call, cand, acc, pluginVars>>

AdmissionDrained ==
    /\ CloserAt("zero") /\ sess.active = 0
    /\ acc' = [acc EXCEPT !.admissionDrained = TRUE]
    /\ CloseGo("health")
    /\ NoFault /\ UNCHANGED <<CloseVars, cand, pluginVars>>

\* The drain timeout: the close fails and may be repeated.
DrainExpires ==
    /\ closer.pc \in {"drain", "zero"}
    /\ CloseGo("idle")
    /\ NoFault /\ UNCHANGED <<CloseVars, cand, acc, pluginVars>>

\* currentHealthFailure, then the Drain request; a failed drain skips Shutdown for good.
SendDrain ==
    /\ CloserAt("health")
    /\ acc' = [acc EXCEPT !.drainAttempted = TRUE, !.unhealthy = @ \/ Unwell]
    /\ CloseGo(IF acc.unhealthy \/ Unwell THEN "kill" ELSE "draining")
    /\ NoFault /\ UNCHANGED <<CloseVars, cand, pluginVars>>

\* The plugin's Drain sets draining and waits for its calls.
HandleDrain ==
    /\ CloserAt("draining") /\ child.state = "running" /\ ~svc.draining
    /\ svc' = [svc EXCEPT !.draining = TRUE]
    /\ NoFault /\ UNCHANGED <<CloseVars, cand, acc, closer, child, sink, work>>

DrainAnswered ==
    /\ CloserAt("draining") /\ child.state = "running" /\ svc.draining /\ svc.active = {}
    /\ acc' = [acc EXCEPT !.drained = ~(acc.unhealthy \/ Unwell), !.unhealthy = @ \/ Unwell]
    /\ CloseGo(IF acc.unhealthy \/ Unwell THEN "kill" ELSE "shutdown")
    /\ NoFault /\ UNCHANGED <<CloseVars, cand, pluginVars>>

DrainFails ==
    /\ CloserAt("draining")
    /\ CloseGo("kill")
    /\ NoFault /\ UNCHANGED <<CloseVars, cand, acc, pluginVars>>

\* shutdownLocked: one attempt; a repeated close returns its result.
SendShutdown ==
    /\ CloserAt("shutdown")
    /\ IF acc.shutdownAttempted
       THEN CloseGo(IF acc.shutdown THEN "exit" ELSE "kill") /\ UNCHANGED acc
       ELSE /\ acc' = [acc EXCEPT !.shutdownAttempted = TRUE, !.unhealthy = @ \/ Unwell]
            /\ CloseGo(IF acc.unhealthy \/ Unwell THEN "kill" ELSE "stopping")
    /\ NoFault /\ UNCHANGED <<CloseVars, cand, pluginVars>>

\* The plugin's Shutdown, which refuses while it is not drained.
HandleShutdown ==
    /\ CloserAt("stopping") /\ child.state = "running"
    /\ IF ~svc.draining \/ svc.active # {} \/ svc.closed
       THEN CloseGo("kill") /\ UNCHANGED <<svc, acc>>
       ELSE /\ svc' = [svc EXCEPT !.closed = TRUE]
            /\ acc' = [acc EXCEPT !.shutdown = TRUE]
            /\ CloseGo("exit")
    /\ NoFault /\ UNCHANGED <<CloseVars, cand, child, sink, work>>

ShutdownFails ==
    /\ CloserAt("stopping")
    /\ CloseGo("kill")
    /\ NoFault /\ UNCHANGED <<CloseVars, cand, acc, pluginVars>>

\* awaitProcessExitLocked, which may time out: cleanup follows in both cases.
AwaitExit ==
    /\ CloserAt("exit")
    /\ CloseGo("kill")
    /\ NoFault /\ UNCHANGED <<CloseVars, cand, acc, pluginVars>>

\* cleanup: secrets and the connection go first, then ForceKill, then Wait.
Kill(killed) ==
    /\ CloserAt("kill")
    /\ IF killed THEN NoFault ELSE Fault
    /\ cand' = [cand EXCEPT !.input = FALSE, !.session = FALSE, !.connection = FALSE]
    /\ LET dies == killed /\ child.state = "running"
       IN  /\ child' = [child EXCEPT !.state = IF dies THEN "exited" ELSE @]
           /\ work' = IF dies THEN [c \in Calls |-> IF work[c].pc = "running"
                                                     THEN [work[c] EXCEPT !.pc = "ended"] ELSE work[c]]
                      ELSE work
           /\ svc' = [svc EXCEPT !.active = IF dies THEN {} ELSE @]
    /\ CloseGo("wait")
    /\ UNCHANGED <<CloseVars, acc, sink>>

Contained(result) == /\ acc' = [acc EXCEPT !.contained = acc.on]
                     /\ cand' = [result EXCEPT !.process = FALSE, !.endpoint = FALSE, !.lease = FALSE,
                                               !.closed = TRUE]
                     /\ CloseGo("idle")

\* Mutant of Wait: the file and the endpoint are released although Wait failed.
WaitReleases(joined) ==
    /\ CloserAt("wait")
    /\ joined => child.state \in {"none", "exited", "joined"}
    /\ IF joined THEN NoFault ELSE Fault
    /\ child' = [child EXCEPT !.state = IF joined /\ @ = "exited" THEN "joined" ELSE @]
    /\ Contained(cand)
    /\ UNCHANGED <<CloseVars, sink, svc, work>>

\* Wait proves containment or fails; only then the endpoint and the lease are released.
Wait(joined) ==
    /\ CloserAt("wait")
    /\ joined => child.state \in {"none", "exited", "joined"}
    /\ IF joined THEN NoFault ELSE Fault
    /\ child' = [child EXCEPT !.state = IF joined /\ @ = "exited" THEN "joined" ELSE @]
    /\ IF joined THEN Contained(cand) ELSE CloseGo("idle") /\ UNCHANGED <<acc, cand>>
    /\ UNCHANGED <<CloseVars, sink, svc, work>>

-----------------------------------------------------------------------------

Init ==
    /\ path = "pinned"
    /\ cand = NoCandidate
    /\ child = [state |-> "none", booted |-> FALSE]
    /\ sink = [ready |-> FALSE, failed |-> FALSE]
    /\ acc = [on |-> FALSE, admissionDrained |-> FALSE, drainAttempted |-> FALSE, drained |-> FALSE,
              shutdownAttempted |-> FALSE, shutdown |-> FALSE, contained |-> FALSE, unhealthy |-> FALSE]
    /\ closer = [pc |-> "idle", calls |-> 0]
    /\ sess = [slots |-> 0, active |-> 0, draining |-> FALSE]
    /\ call = [c \in Calls |-> IdleCall]
    /\ svc = [initialized |-> FALSE, draining |-> FALSE, closed |-> FALSE, active |-> {}]
    /\ work = [c \in Calls |-> IdleWork]
    /\ faults = 0

Launch ==
    \/ \E stop \in {"none", "verify", "random", "endpoint", "owned", "bootstrap"} : Prepare(stop)
    \/ \E owned, failed \in BOOLEAN : Start(owned, failed)
    \/ Recheck \/ Readiness \/ StartupTimeout \/ Accept \/ Replace
    \/ \E ok \in BOOLEAN : Authenticate(ok)

Process == WriteReadiness \/ Noise \/ Exit \/ Observe

CallStep(c) ==
    \/ \E t \in Tools : Execute(c, t)
    \/ Acquire(c) \/ Enter(c) \/ ExpireEarly(c) \/ Send(c) \/ Handle(c) \/ Act(c)
    \/ \E f \in Frames \cup {[kind |-> "progress"], [kind |-> "bad"]} : Emit(c, f)
    \/ HandlerReturns(c) \/ ReceiveEnd(c) \/ Expire(c) \/ Undelivered(c)
    \/ \E reported \in BOOLEAN : Receive(c, reported)

CloseStep ==
    \/ Close \/ BeginDrain \/ AdmissionDrained \/ DrainExpires \/ SendDrain \/ HandleDrain
    \/ DrainAnswered \/ DrainFails \/ SendShutdown \/ HandleShutdown \/ ShutdownFails \/ AwaitExit
    \/ \E ok \in BOOLEAN : Kill(ok) \/ Wait(ok)

Next == Launch \/ Process \/ CloseStep \/ \E c \in Calls : CallStep(c)

Spec == Init /\ [][Next]_vars

-----------------------------------------------------------------------------
(* Properties.                                                             *)

\* As long as the process may still run, the candidate owns it, its endpoint and its pinned
\* executable, whatever failed (launch's partial ownership, cleanup's retry after Wait); and no
\* bootstrap secret outlives the launch.
ContainedFirst ==
    /\ child.state \in {"running", "exited"} => cand.process /\ cand.lease /\ cand.endpoint
    /\ cand.closed => child.state \in {"none", "joined"}
    /\ cand.phase \in {"failed", "connect", "launched", "accepted"} => ~cand.input

\* A call that acted is never reported as one that surely did not, and a retry is never allowed
\* for an unsafe tool, whenever the stream breaks, the call times out, admission closes or the
\* plugin refuses it (Execute, receive, failure, compatibleTerminalFailure).
CallsAreToldTrue ==
    \A c \in Calls : call[c].pc = "returned" =>
        LET o == call[c].out
            t == call[c].tool
        IN  /\ work[c].effect => ~(o.kind = "failure" /\ o.state = "definitive")
            /\ o.kind = "failure" /\ o.retry = "allowed" => t.replay # "unsafe"
            /\ o.kind = "failure" /\ o.state = "uncertain" => t.effect = "mutating"
            /\ o.kind = "result" => work[c].said = Success

\* Calls and lifecycle requests never overlap: from the Drain request on no call is outstanding
\* or admitted, a Shutdown finds the plugin drained and idle, and the admission slots, the
\* active count and the calls agree (beginDrain, acquire and release, drainLocked,
\* shutdownLocked and the plugin's own Drain).
DrainIsQuiet ==
    /\ sess.active = Cardinality({c \in Calls : call[c].pc \in {"admitted", "sent"}})
    /\ sess.slots = sess.active + Cardinality({c \in Calls : call[c].pc = "enter"})
    /\ acc.admissionDrained => sess.active = 0
    /\ closer.pc = "stopping" /\ child.state = "running" /\ ~svc.closed =>
           svc.draining /\ svc.active = {}
=============================================================================
