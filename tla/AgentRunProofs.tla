--------------------------- MODULE AgentRunProofs ---------------------------
(***************************************************************************)
(* Theorems about AgentRun, for any number of callers of Suspend, of local *)
(* resume and of Interact and for every bound on turns and tool calls: the *)
(* run is accounted for in every state, and a run that is settled commits  *)
(* no event.                                                               *)
(***************************************************************************)
EXTENDS AgentRun, TLAPS

Statuses == {"", "running", "suspending", "suspended", "resume-pending", "finishing",
             "completed", "failed", "cancelled"}
Still == {"suspended", "resume-pending"}
Kinds == {"completed", "failed", "cancelled"}

\* The places of the goroutine after beginFinalization.
Ending == {"drain", "terminal", "complete", "done"}
Places == Working \cup Ending \cup {"none", "gate", "finalize"}

Todos == {<<>>, <<"turn">>, <<"model", "turn">>, <<"tool", "turn">>}
Talks == {"idle", "reserved", "asking", "answered", "failing", "release", "seen"}

Runs == [status : Statuses, started : BOOLEAN, suspendRequested : BOOLEAN,
         suspendWaiter : Suspenders \cup {None}, resumeSignal : BOOLEAN,
         localResume : Resumers \cup {None}, activeInteractions : SUBSET Interactions,
         completedTurns : 0 .. MaxTurns, ctxDone : BOOLEAN, released : 0 .. 1]
Execs == [pc : Places, emitRunStart : BOOLEAN, turn : 1 .. MaxTurns, calls : 0 .. MaxCalls,
          final : BOOLEAN, todo : Todos, kind : Kinds]
Preps == [execution : {"ready", "committed", "aborted"}, gate : {"none", "ready", "activated", "aborted"}]
Engines == [closed : BOOLEAN, active : BOOLEAN, identity : {"reserved", "active", "tombstone", "none"}]
Logs == [sequence : Nat, terminal : BOOLEAN, refused : BOOLEAN, open : [Spans -> Int]]

\* Types; a tool call in progress is counted, and failure events are owed only while failing.
Typed ==
    /\ run \in Runs /\ exec \in Execs /\ prep \in Preps /\ engine \in Engines /\ log \in Logs
    /\ interact \in [Interactions -> Talks]
    /\ exec.pc \in {"tool", "dispatch", "toolDone"} => exec.calls # 0
    /\ exec.pc = "fail" <=> exec.todo # <<>>

\* Where the goroutine is fixes the state of the preparation, of its gate, of the plan lease,
\* of the engine's entry and of the identity.
Placed ==
    /\ prep.gate = "none" <=> exec.pc = "none"
    /\ prep.execution = "committed" <=> exec.pc # "none"
    /\ prep.gate = "ready" => exec.pc = "gate"
    /\ prep.gate = "aborted" => exec.pc \in {"gate", "finalize", "drain", "complete", "done"}
    /\ run.released = IF exec.pc \in {"terminal", "complete", "done"} \/ prep.execution = "aborted" THEN 1 ELSE 0
    /\ engine.active <=> exec.pc \notin {"none", "done"}
    /\ exec.pc = "none" => engine.identity = IF prep.execution = "ready" THEN "reserved" ELSE "none"
    /\ exec.pc \notin {"none", "done"} =>
           engine.identity = IF prep.gate = "activated" THEN "active" ELSE "reserved"
    /\ exec.pc = "done" => engine.identity = "none" \/ (engine.identity = "tombstone" /\ prep.gate = "activated")

\* A run that stands still stands at its boundary; a local resume that is prepared holds it
\* there; a withdrawn Suspend cannot let it go, and nothing revives it once it is finishing.
Stands ==
    /\ run.status \in Still => exec.pc \in {"parked", "latched"} /\ run.resumeSignal /\ run.activeInteractions = {}
    /\ run.localResume # None <=> run.status = "resume-pending"
    /\ run.suspendRequested => run.status \notin Still
    /\ exec.pc = "latched" => run.ctxDone /\ run.status # "suspended"
    /\ exec.pc \in Ending => ~run.suspendRequested /\ run.status \in Kinds \cup {"finishing"}

\* The set of active interactions is that of the goroutines inside Interact, and they have a
\* run that is not finalized.
Active ==
    /\ run.activeInteractions = {i \in Interactions : interact[i] \notin {"idle", "seen"}}
    /\ run.activeInteractions # {} =>
           prep.gate = "activated" /\ exec.pc \notin {"none", "terminal", "complete", "done"}

\* The run is open from its start to its terminal event.
Begun ==
    /\ exec.pc \in {"none", "gate"} => (run.started <=> ~exec.emitRunStart)
    /\ exec.pc = "start" => ~run.started
    /\ log.terminal => exec.pc \in {"complete", "done"}
    /\ run.status = "completed" => exec.kind = "completed" /\ exec.pc \in {"complete", "done"}
    /\ ~log.refused =>
        /\ prep.gate = "activated" /\ exec.pc \notin {"gate", "start"} => run.started
        /\ prep.gate = "activated" /\ exec.pc \in {"complete", "done"} => log.terminal
        /\ log.open["run"] = IF run.started /\ ~log.terminal THEN 1 ELSE 0

\* Between turns nothing of a turn is open, inside one what the goroutine has begun is; a turn or
\* a model operation may stay open, but not in a run that completes.
Leaving == Ending \cup {"finalize"}
Outside == {"none", "gate", "start", "turn", "boundary", "parked", "latched"}

Spanned ==
    ~log.refused =>
        /\ log.open["turn"] \in 0 .. 1 /\ log.open["model"] \in 0 .. 1
        /\ exec.pc \in Outside => log.open["turn"] = 0 /\ log.open["model"] = 0
        /\ exec.pc \notin Outside \cup Leaving => log.open["turn"] = 1
        /\ exec.pc \in {"model", "tool", "dispatch", "toolDone", "turnDone"} => log.open["model"] = 0
        /\ exec.pc \in {"stream", "modelDone"} \/ exec.todo = <<"model", "turn">> => log.open["model"] = 1
        /\ log.open["tool"] = IF exec.pc \in {"dispatch", "toolDone"} \/ exec.todo = <<"tool", "turn">> THEN 1 ELSE 0
        /\ exec.pc \in Leaving /\ exec.kind = "completed" => log.open["turn"] = 0 /\ log.open["model"] = 0

\* An interaction is open while it is asked, answered or failing.
Talked ==
    ~log.refused =>
        \A i \in Interactions : log.open[i] = IF interact[i] \in {"asking", "answered", "failing"} THEN 1 ELSE 0

IInv == Typed /\ Placed /\ Stands /\ Active /\ Begun /\ Spanned /\ Talked

-----------------------------------------------------------------------------
(* The log and the goroutine's record.                                     *)

\* What an append that is accepted, refused or not tried (by = 0) does to the log.
Wrote(x, by) ==
    /\ log' \in Logs /\ log'.terminal = log.terminal /\ (log.refused => log'.refused)
    /\ ~log'.refused => /\ log'.open[x] = log.open[x] + by
                        /\ \A y \in Spans \ {x} : log'.open[y] = log.open[y]

\* persist commits the event or marks the log.
LEMMA PersistWrites ==
    ASSUME log \in Logs, NEW x \in Spans, NEW by \in {-1, 1}, NEW o \in Outcomes, Persist(x, by, o)
    PROVE  Wrote(x, by) /\ (~Committed(o) => log'.refused)
<1>1. CASE Committed(o)
  <2> DEFINE opened == [log.open EXCEPT ![x] = log.open[x] + by]
  <2>1. opened \in [Spans -> Int] /\ opened[x] = log.open[x] + by
        /\ \A y \in Spans \ {x} : opened[y] = log.open[y]
    BY DEF Logs
  <2>2. log' = [log EXCEPT !.sequence = log.sequence + 1, !.open = opened]
    BY <1>1 DEF Persist, Logs
  <2> DEFINE next == log.sequence + 1
  <2>3. next \in Nat /\ log' = [log EXCEPT !.sequence = next, !.open = opened]
    BY <2>2 DEF Logs
  <2> HIDE DEF opened, next
  <2>4. log' \in Logs /\ log'.terminal = log.terminal /\ (log.refused <=> log'.refused) /\ log'.open = opened
    BY <2>1, <2>3 DEF Logs
  <2> QED  BY <1>1, <2>1, <2>4 DEF Wrote
<1>2. CASE ~Committed(o)
  <2>1. log' = [log EXCEPT !.refused = TRUE]
    BY <1>2 DEF Persist
  <2>2. log' \in Logs /\ log'.terminal = log.terminal /\ log'.refused
    BY <2>1 DEF Logs
  <2> QED  BY <2>2 DEF Wrote
<1> QED  BY <1>1, <1>2

\* emit does nothing under an ended context.
LEMMA EmitWrites ==
    ASSUME log \in Logs, NEW x \in Spans, NEW by \in {-1, 1}, NEW o \in Outcomes,
           NEW ctxDone \in BOOLEAN, Emit(x, by, o, ctxDone)
    PROVE  /\ ctxDone => Wrote(x, 0)
           /\ ~ctxDone => Wrote(x, by) /\ (~Committed(o) => log'.refused)
<1>1. CASE ctxDone
  <2>1. log' = log
    BY <1>1 DEF Emit
  <2> QED  BY <1>1, <2>1 DEF Wrote, Logs
<1>2. CASE ~ctxDone
  <2>1. Persist(x, by, o)
    BY <1>2 DEF Emit
  <2> QED  BY <1>2, <2>1, PersistWrites
<1> QED  BY <1>1, <1>2

\* A log that is not touched.
LEMMA Untouched ==
    ASSUME log \in Logs, UNCHANGED log, NEW x \in Spans
    PROVE  Wrote(x, 0)
  BY DEF Wrote, Logs

\* The run's own operations and the interactions are different spans.
LEMMA SpanFacts ==
    /\ {"run", "turn", "model", "tool"} \subseteq Spans
    /\ Interactions \subseteq Spans
    /\ \A i \in Interactions : i # "run" /\ i # "turn" /\ i # "model" /\ i # "tool"
  BY SpansAssumption DEF Spans

\* Lists of failure events that are owed.
LEMMA TodoFacts ==
    /\ <<"turn">> # <<>> /\ <<"model", "turn">> # <<>> /\ <<"tool", "turn">> # <<>>
    /\ <<"turn">> # <<"model", "turn">> /\ <<"turn">> # <<"tool", "turn">>
    /\ <<"model", "turn">> # <<"tool", "turn">>
    /\ Head(<<"turn">>) = "turn" /\ Len(<<"turn">>) = 1
    /\ Head(<<"model", "turn">>) = "model" /\ Len(<<"model", "turn">>) = 2 /\ Tail(<<"model", "turn">>) = <<"turn">>
    /\ Head(<<"tool", "turn">>) = "tool" /\ Len(<<"tool", "turn">>) = 2 /\ Tail(<<"tool", "turn">>) = <<"turn">>
<1>1. <<"turn">> # <<>> /\ <<"model", "turn">> # <<>> /\ <<"tool", "turn">> # <<>>
  OBVIOUS
<1>2. /\ <<"turn">> # <<"model", "turn">> /\ <<"turn">> # <<"tool", "turn">>
      /\ <<"model", "turn">> # <<"tool", "turn">>
  OBVIOUS
<1>3. Tail(<<"model", "turn">>) = <<"turn">>
  OBVIOUS
<1>4. Tail(<<"tool", "turn">>) = <<"turn">>
  OBVIOUS
<1> QED  BY <1>1, <1>2, <1>3, <1>4

\* The record of the goroutine keeps its type when it moves, owes or fails.
LEMMA MovesTo ==
    ASSUME exec \in Execs, NEW p \in Places
    PROVE  LET e == [exec EXCEPT !.pc = p]
           IN  e \in Execs /\ e.pc = p /\ e.todo = exec.todo /\ e.calls = exec.calls /\ e.kind = exec.kind
  BY DEF Execs

\* The places of the loop are places of the goroutine.
LEMMA InLoop == {"model", "stream", "dispatch", "toolDone", "parked", "latched"} \subseteq Places
  BY DEF Places, Working

\* The goroutine turns to the failure events it owes.
LEMMA OwesIs ==
    ASSUME exec \in Execs, NEW t \in Todos
    PROVE  Owes(t) \in Execs /\ Owes(t).pc = "fail" /\ Owes(t).todo = t
  BY DEF Execs, Owes, Places, Working

\* The loop is left with an error, to finalize as failed or cancelled.
LEMMA FailsIs ==
    ASSUME exec \in Execs
    PROVE  Fails \in Execs /\ Fails.pc = "finalize" /\ Fails.todo = <<>> /\ Fails.kind \in {"cancelled", "failed"}
<1> DEFINE k == IF run.ctxDone THEN "cancelled" ELSE "failed"
<1>1. k \in {"cancelled", "failed"} /\ k \in Kinds /\ "finalize" \in Places /\ <<>> \in Todos
  BY DEF Kinds, Places, Todos
<1>2. Fails = [exec EXCEPT !.pc = "finalize", !.todo = <<>>, !.kind = k]
  BY DEF Fails
<1> HIDE DEF k
<1> QED  BY <1>1, <1>2 DEF Execs

-----------------------------------------------------------------------------
(* The turn loop.                                                          *)

\* A step of the loop that does not stand still keeps everything but the spans of the turn.
LEMMA Within ==
    ASSUME IInv, exec.pc \in Working \ {"start"}, run.status \notin Still,
           exec' \in Execs, exec'.pc \in (Working \ {"start", "parked", "latched"}) \cup {"finalize"},
           UNCHANGED <<run, prep, engine, interact>>,
           NEW x \in {"turn", "model", "tool"}, NEW by \in {-1, 0, 1}, Wrote(x, by)
    PROVE  Placed' /\ Stands' /\ Active' /\ Begun' /\ Talked'
<1>1. Placed'
  BY DEF IInv, Placed, Working
<1>2. Stands'
  BY DEF IInv, Stands, Working, Ending
<1>3. Active'
  BY DEF IInv, Active, Working
<1>4. Begun'
  <2>1. "run" \in Spans \ {x}
    BY SpanFacts
  <2>2. ~log'.refused => log'.open["run"] = log.open["run"] /\ ~log.refused
    BY <2>1 DEF Wrote
  <2>3. log'.terminal = log.terminal
    BY DEF Wrote
  <2> QED  BY <2>2, <2>3 DEF IInv, Begun, Working
<1>5. Talked'
  <2>1. \A i \in Interactions : i \in Spans \ {x}
    BY SpanFacts
  <2>2. ~log'.refused => ~log.refused /\ \A i \in Interactions : log'.open[i] = log.open[i]
    BY <2>1 DEF Wrote
  <2> QED  BY <2>2 DEF IInv, Talked
<1> QED  BY <1>1, <1>2, <1>3, <1>4, <1>5

\* A step of the loop that leaves the run alone keeps what is not about the spans of a turn.
LEMMA Looped ==
    ASSUME IInv, exec.pc \in Working \ {"start"}, run.status \notin Still,
           exec' \in Execs, exec'.pc \in (Working \ {"start", "parked", "latched"}) \cup {"finalize"},
           exec'.pc \in {"tool", "dispatch", "toolDone"} => exec'.calls # 0,
           exec'.pc = "fail" <=> exec'.todo # <<>>,
           UNCHANGED <<run, prep, engine, interact>>,
           NEW x \in {"turn", "model", "tool"}, NEW by \in {-1, 0, 1}, Wrote(x, by), Spanned'
    PROVE  IInv'
<1>1. Typed'
  BY DEF IInv, Typed, Wrote
<1>2. Placed' /\ Stands' /\ Active' /\ Begun' /\ Talked'
  BY Within
<1> QED  BY <1>1, <1>2 DEF IInv

\* In the loop, away from a boundary, the run does not stand still.
LEMMA Moving ==
    ASSUME IInv, exec.pc \in Working \ {"start", "parked", "latched"}
    PROVE  run.status \notin Still
  BY DEF IInv, Stands

\* TurnStarted opens the turn, or the loop is left.
LEMMA StartTurnStep ==
    ASSUME IInv, NEW o \in Outcomes, StartTurn(o)
    PROVE  IInv'
<1>1. /\ exec.pc = "turn" /\ exec.pc \in Working \ {"start"} /\ exec \in Execs /\ exec.todo = <<>>
      /\ run.status \notin Still /\ UNCHANGED <<run, prep, engine, interact>>
  BY Moving DEF IInv, Typed, StartTurn, Working, Local, Others
<1>2. /\ run.ctxDone \in BOOLEAN
      /\ run.ctxDone => Wrote("turn", 0)
      /\ ~run.ctxDone => Wrote("turn", 1) /\ (~Committed(o) => log'.refused)
  <2>1. run.ctxDone \in BOOLEAN /\ log \in Logs /\ "turn" \in Spans
    BY SpanFacts DEF IInv, Typed, Runs
  <2> QED  BY <2>1, EmitWrites DEF StartTurn
<1>3. log.refused \/ (log.open["turn"] = 0 /\ log.open["model"] = 0 /\ log.open["tool"] = 0)
  BY <1>1, TodoFacts DEF IInv, Spanned, Outside
<1>4. {"model", "tool"} \subseteq Spans \ {"turn"}
  BY SpanFacts
<1>5. CASE Emitted(o, run.ctxDone)
  <2>1. exec' = [exec EXCEPT !.pc = "model"]
    BY <1>5 DEF StartTurn, Emitted
  <2>2. exec' \in Execs /\ exec'.pc = "model" /\ exec'.todo = <<>>
    BY <1>1, <2>1, MovesTo, InLoop
  <2>3. Wrote("turn", 1)
    BY <1>2, <1>5 DEF Emitted
  <2>4. Spanned'
    BY <1>3, <1>4, <2>2, <2>3, TodoFacts DEF Spanned, Wrote, Outside, Leaving, Ending
  <2> QED  BY <1>1, <2>2, <2>3, <2>4, Looped, TodoFacts DEF Working
<1>6. CASE ~run.ctxDone /\ Committed(o) /\ ~Emitted(o, run.ctxDone)
  <2>1. exec' = Owes(<<"turn">>)
    BY <1>6 DEF StartTurn, Emitted, Committed, Outcomes
  <2>2. exec' \in Execs /\ exec'.pc = "fail" /\ exec'.todo = <<"turn">>
    BY <1>1, <2>1, OwesIs DEF Todos
  <2>3. Wrote("turn", 1)
    BY <1>2, <1>6
  <2>4. Spanned'
    BY <1>3, <1>4, <2>2, <2>3, TodoFacts DEF Spanned, Wrote, Outside, Leaving, Ending
  <2> QED  BY <1>1, <2>2, <2>3, <2>4, Looped, TodoFacts DEF Working
<1>7. CASE (run.ctxDone \/ ~Committed(o)) /\ ~Emitted(o, run.ctxDone)
  <2>1. exec' = Fails
    BY <1>7 DEF StartTurn, Emitted, Committed, Outcomes
  <2>2. exec' \in Execs /\ exec'.pc = "finalize" /\ exec'.todo = <<>> /\ exec'.kind # "completed"
    BY <1>1, <2>1, FailsIs
  <2>3. Wrote("turn", 0) \/ (Wrote("turn", 1) /\ log'.refused)
    BY <1>2, <1>7
  <2>4. Spanned'
    BY <1>3, <1>4, <2>2, <2>3, TodoFacts DEF Spanned, Wrote, Outside, Leaving, Ending
  <2> QED  BY <1>1, <2>2, <2>3, <2>4, Looped, TodoFacts DEF Working
<1> QED  BY <1>5, <1>6, <1>7

\* ModelStarted opens the model operation inside its turn.
LEMMA StartModelStep ==
    ASSUME IInv, NEW o \in Outcomes, StartModel(o)
    PROVE  IInv'
<1>1. /\ exec.pc = "model" /\ exec.pc \in Working \ {"start"} /\ exec \in Execs /\ exec.todo = <<>>
      /\ run.status \notin Still /\ UNCHANGED <<run, prep, engine, interact>>
  BY Moving DEF IInv, Typed, StartModel, Working, Local, Others
<1>2. /\ run.ctxDone \in BOOLEAN
      /\ run.ctxDone => Wrote("model", 0)
      /\ ~run.ctxDone => Wrote("model", 1) /\ (~Committed(o) => log'.refused)
  <2>1. run.ctxDone \in BOOLEAN /\ log \in Logs /\ "model" \in Spans
    BY SpanFacts DEF IInv, Typed, Runs
  <2> QED  BY <2>1, EmitWrites DEF StartModel
<1>3. log.refused \/ (log.open["turn"] = 1 /\ log.open["model"] = 0 /\ log.open["tool"] = 0)
  BY <1>1, TodoFacts DEF IInv, Spanned, Outside, Leaving, Ending
<1>4. {"turn", "model", "tool"} \ {"model"} \subseteq Spans \ {"model"}
  BY SpanFacts
<1>5. CASE Emitted(o, run.ctxDone)
  <2>1. exec' = [exec EXCEPT !.pc = "stream"]
    BY <1>1, <1>5 DEF StartModel, Emitted, Committed, Outcomes
  <2>2. exec' \in Execs /\ exec'.pc = "stream" /\ exec'.todo = <<>> /\ exec'.calls = exec.calls
    BY <1>1, <2>1, MovesTo, InLoop
  <2>3. Wrote("model", 1)
    BY <1>2, <1>5 DEF Emitted
  <2>4. Spanned'
    BY <1>3, <1>4, <2>2, <2>3, TodoFacts DEF Spanned, Wrote, Outside, Leaving, Ending
  <2> QED  BY <1>1, <2>2, <2>3, <2>4, Looped, TodoFacts DEF Working
<1>6. CASE ~run.ctxDone /\ o = "observer"
  <2>1. exec' = Owes(<<"model", "turn">>)
    BY <1>1, <1>6 DEF StartModel, Emitted, Committed, Outcomes
  <2>2. exec' \in Execs /\ exec'.pc = "fail" /\ exec'.todo = <<"model", "turn">>
    BY <1>1, <2>1, OwesIs DEF Todos
  <2>3. Wrote("model", 1)
    BY <1>2, <1>6 DEF Emitted
  <2>4. Spanned'
    BY <1>3, <1>4, <2>2, <2>3, TodoFacts DEF Spanned, Wrote, Outside, Leaving, Ending
  <2> QED  BY <1>1, <2>2, <2>3, <2>4, Looped, TodoFacts DEF Working
<1>7. CASE run.ctxDone \/ ~Committed(o)
  <2>1. exec' = Owes(<<"turn">>)
    BY <1>1, <1>7 DEF StartModel, Emitted, Committed, Outcomes
  <2>2. exec' \in Execs /\ exec'.pc = "fail" /\ exec'.todo = <<"turn">>
    BY <1>1, <2>1, OwesIs DEF Todos
  <2>3. Wrote("model", 0) \/ (Wrote("model", 1) /\ log'.refused)
    BY <1>2, <1>7 DEF Emitted
  <2>4. Spanned'
    BY <1>3, <1>4, <2>2, <2>3, TodoFacts DEF Spanned, Wrote, Outside, Leaving, Ending
  <2> QED  BY <1>1, <2>2, <2>3, <2>4, Looped, TodoFacts DEF Working
<1> QED  BY <1>5, <1>6, <1>7 DEF Outcomes, Emitted, Committed

\* A request that cannot be built leaves its turn to be failed.
LEMMA RefuseRequestStep ==
    ASSUME IInv, RefuseRequest
    PROVE  IInv'
<1>1. /\ exec.pc = "model" /\ exec.pc \in Working \ {"start"} /\ exec \in Execs /\ exec.todo = <<>>
      /\ run.status \notin Still /\ UNCHANGED <<run, prep, engine, interact>>
  BY Moving DEF IInv, Typed, RefuseRequest, Working, Local, Others
<1>2. Wrote("turn", 0)
  <2>1. log \in Logs /\ "turn" \in Spans /\ UNCHANGED log
    BY SpanFacts DEF IInv, Typed, RefuseRequest
  <2> QED  BY <2>1, Untouched
<1>3. log.refused \/ (log.open["turn"] = 1 /\ log.open["model"] = 0 /\ log.open["tool"] = 0)
  BY <1>1, TodoFacts DEF IInv, Spanned, Outside, Leaving, Ending
<1>4. {"turn", "model", "tool"} \ {"turn"} \subseteq Spans \ {"turn"}
  BY SpanFacts
<1>5. CASE TRUE
  <2>1. exec' = Owes(<<"turn">>)
    BY <1>1, <1>5 DEF RefuseRequest, Emitted, Committed, Outcomes
  <2>2. exec' \in Execs /\ exec'.pc = "fail" /\ exec'.todo = <<"turn">>
    BY <1>1, <2>1, OwesIs DEF Todos
  <2>3. Wrote("turn", 0)
    BY <1>2, <1>5 DEF Emitted
  <2>4. Spanned'
    BY <1>3, <1>4, <2>2, <2>3, TodoFacts DEF Spanned, Wrote, Outside, Leaving, Ending
  <2> QED  BY <1>1, <2>2, <2>3, <2>4, Looped, TodoFacts DEF Working
<1> QED  BY <1>5

\* A stream that fails leaves its model operation and its turn to be failed.
LEMMA StreamFailsStep ==
    ASSUME IInv, StreamFails
    PROVE  IInv'
<1>1. /\ exec.pc = "stream" /\ exec.pc \in Working \ {"start"} /\ exec \in Execs /\ exec.todo = <<>>
      /\ run.status \notin Still /\ UNCHANGED <<run, prep, engine, interact>>
  BY Moving DEF IInv, Typed, StreamFails, Working, Local, Others
<1>2. Wrote("turn", 0)
  <2>1. log \in Logs /\ "turn" \in Spans /\ UNCHANGED log
    BY SpanFacts DEF IInv, Typed, StreamFails
  <2> QED  BY <2>1, Untouched
<1>3. log.refused \/ (log.open["turn"] = 1 /\ log.open["model"] = 1 /\ log.open["tool"] = 0)
  BY <1>1, TodoFacts DEF IInv, Spanned, Outside, Leaving, Ending
<1>4. {"turn", "model", "tool"} \ {"turn"} \subseteq Spans \ {"turn"}
  BY SpanFacts
<1>5. CASE TRUE
  <2>1. exec' = Owes(<<"model", "turn">>)
    BY <1>1, <1>5 DEF StreamFails, Emitted, Committed, Outcomes
  <2>2. exec' \in Execs /\ exec'.pc = "fail" /\ exec'.todo = <<"model", "turn">>
    BY <1>1, <2>1, OwesIs DEF Todos
  <2>3. Wrote("turn", 0)
    BY <1>2, <1>5 DEF Emitted
  <2>4. Spanned'
    BY <1>3, <1>4, <2>2, <2>3, TodoFacts DEF Spanned, Wrote, Outside, Leaving, Ending
  <2> QED  BY <1>1, <2>2, <2>3, <2>4, Looped, TodoFacts DEF Working
<1> QED  BY <1>5

\* A completed stream has its tool calls counted.
LEMMA StreamEndsStep ==
    ASSUME IInv, NEW n \in 0 .. MaxCalls, StreamEnds(n)
    PROVE  IInv'
<1>1. /\ exec.pc = "stream" /\ exec.pc \in Working \ {"start"} /\ exec \in Execs /\ exec.todo = <<>>
      /\ run.status \notin Still /\ UNCHANGED <<run, prep, engine, interact>>
  BY Moving DEF IInv, Typed, StreamEnds, Working, Local, Others
<1>2. Wrote("turn", 0)
  <2>1. log \in Logs /\ "turn" \in Spans /\ UNCHANGED log
    BY SpanFacts DEF IInv, Typed, StreamEnds
  <2> QED  BY <2>1, Untouched
<1>3. log.refused \/ (log.open["turn"] = 1 /\ log.open["model"] = 1 /\ log.open["tool"] = 0)
  BY <1>1, TodoFacts DEF IInv, Spanned, Outside, Leaving, Ending
<1>4. {"turn", "model", "tool"} \ {"turn"} \subseteq Spans \ {"turn"}
  BY SpanFacts
<1>5. CASE TRUE
  <2>1. exec' = [exec EXCEPT !.pc = "modelDone", !.calls = n]
    BY <1>1, <1>5 DEF StreamEnds, Emitted, Committed, Outcomes
  <2>2. exec' \in Execs /\ exec'.pc = "modelDone" /\ exec'.todo = <<>>
    BY <1>1, <2>1 DEF Execs, Places, Working
  <2>3. Wrote("turn", 0)
    BY <1>2, <1>5 DEF Emitted
  <2>4. Spanned'
    BY <1>3, <1>4, <2>2, <2>3, TodoFacts DEF Spanned, Wrote, Outside, Leaving, Ending
  <2> QED  BY <1>1, <2>2, <2>3, <2>4, Looped, TodoFacts DEF Working
<1> QED  BY <1>5

\* The tool that was started returns a result or an error.
LEMMA DispatchStep ==
    ASSUME IInv, NEW failed \in BOOLEAN, Dispatch(failed)
    PROVE  IInv'
<1>1. /\ exec.pc = "dispatch" /\ exec.pc \in Working \ {"start"} /\ exec \in Execs /\ exec.todo = <<>>
      /\ run.status \notin Still /\ UNCHANGED <<run, prep, engine, interact>>
  BY Moving DEF IInv, Typed, Dispatch, Working, Local, Others
<1>2. Wrote("turn", 0)
  <2>1. log \in Logs /\ "turn" \in Spans /\ UNCHANGED log
    BY SpanFacts DEF IInv, Typed, Dispatch
  <2> QED  BY <2>1, Untouched
<1>3. log.refused \/ (log.open["turn"] = 1 /\ log.open["model"] = 0 /\ log.open["tool"] = 1)
  BY <1>1, TodoFacts DEF IInv, Spanned, Outside, Leaving, Ending
<1>4. {"turn", "model", "tool"} \ {"turn"} \subseteq Spans \ {"turn"}
  BY SpanFacts
<1>5. exec.calls # 0
  BY <1>1 DEF IInv, Typed
<1>6. CASE failed
  <2>1. exec' = Owes(<<"tool", "turn">>)
    BY <1>1, <1>6 DEF Dispatch, Emitted, Committed, Outcomes
  <2>2. exec' \in Execs /\ exec'.pc = "fail" /\ exec'.todo = <<"tool", "turn">>
    BY <1>1, <2>1, OwesIs DEF Todos
  <2>3. Wrote("turn", 0)
    BY <1>2, <1>6 DEF Emitted
  <2>4. Spanned'
    BY <1>3, <1>4, <2>2, <2>3, TodoFacts DEF Spanned, Wrote, Outside, Leaving, Ending
  <2> QED  BY <1>1, <2>2, <2>3, <2>4, Looped, TodoFacts, <1>5 DEF Working
<1>7. CASE ~failed
  <2>1. exec' = [exec EXCEPT !.pc = "toolDone"]
    BY <1>1, <1>7 DEF Dispatch, Emitted, Committed, Outcomes
  <2>2. exec' \in Execs /\ exec'.pc = "toolDone" /\ exec'.todo = <<>> /\ exec'.calls = exec.calls
    BY <1>1, <2>1, MovesTo, InLoop
  <2>3. Wrote("turn", 0)
    BY <1>2, <1>7 DEF Emitted
  <2>4. Spanned'
    BY <1>3, <1>4, <2>2, <2>3, TodoFacts DEF Spanned, Wrote, Outside, Leaving, Ending
  <2> QED  BY <1>1, <2>2, <2>3, <2>4, Looped, TodoFacts, <1>5 DEF Working
<1> QED  BY <1>6, <1>7 DEF Outcomes, Emitted, Committed

\* ToolStarted opens the tool, declared or not.
LEMMA StartToolStep ==
    ASSUME IInv, NEW o \in Outcomes, NEW declared \in BOOLEAN, StartTool(o, declared)
    PROVE  IInv'
<1>1. /\ exec.pc = "tool" /\ exec.pc \in Working \ {"start"} /\ exec \in Execs /\ exec.todo = <<>>
      /\ run.status \notin Still /\ UNCHANGED <<run, prep, engine, interact>>
  BY Moving DEF IInv, Typed, StartTool, Working, Local, Others
<1>2. /\ run.ctxDone \in BOOLEAN
      /\ run.ctxDone => Wrote("tool", 0)
      /\ ~run.ctxDone => Wrote("tool", 1) /\ (~Committed(o) => log'.refused)
  <2>1. run.ctxDone \in BOOLEAN /\ log \in Logs /\ "tool" \in Spans
    BY SpanFacts DEF IInv, Typed, Runs
  <2> QED  BY <2>1, EmitWrites DEF StartTool
<1>3. log.refused \/ (log.open["turn"] = 1 /\ log.open["model"] = 0 /\ log.open["tool"] = 0)
  BY <1>1, TodoFacts DEF IInv, Spanned, Outside, Leaving, Ending
<1>4. {"turn", "model", "tool"} \ {"tool"} \subseteq Spans \ {"tool"}
  BY SpanFacts
<1>5. exec.calls # 0
  BY <1>1 DEF IInv, Typed
<1>6. CASE Emitted(o, run.ctxDone) /\ declared
  <2>1. exec' = [exec EXCEPT !.pc = "dispatch"]
    BY <1>1, <1>6 DEF StartTool, Emitted, Committed, Outcomes
  <2>2. exec' \in Execs /\ exec'.pc = "dispatch" /\ exec'.todo = <<>> /\ exec'.calls = exec.calls
    BY <1>1, <2>1, MovesTo, InLoop
  <2>3. Wrote("tool", 1)
    BY <1>2, <1>6 DEF Emitted
  <2>4. Spanned'
    BY <1>3, <1>4, <2>2, <2>3, TodoFacts DEF Spanned, Wrote, Outside, Leaving, Ending
  <2> QED  BY <1>1, <2>2, <2>3, <2>4, Looped, TodoFacts, <1>5 DEF Working
<1>7. CASE ~run.ctxDone /\ Committed(o) /\ ~(o = "ok" /\ declared)
  <2>1. exec' = Owes(<<"tool", "turn">>)
    BY <1>1, <1>7 DEF StartTool, Emitted, Committed, Outcomes
  <2>2. exec' \in Execs /\ exec'.pc = "fail" /\ exec'.todo = <<"tool", "turn">>
    BY <1>1, <2>1, OwesIs DEF Todos
  <2>3. Wrote("tool", 1)
    BY <1>2, <1>7 DEF Emitted
  <2>4. Spanned'
    BY <1>3, <1>4, <2>2, <2>3, TodoFacts DEF Spanned, Wrote, Outside, Leaving, Ending
  <2> QED  BY <1>1, <2>2, <2>3, <2>4, Looped, TodoFacts, <1>5 DEF Working
<1>8. CASE run.ctxDone \/ ~Committed(o)
  <2>1. exec' = Owes(<<"turn">>)
    BY <1>1, <1>8 DEF StartTool, Emitted, Committed, Outcomes
  <2>2. exec' \in Execs /\ exec'.pc = "fail" /\ exec'.todo = <<"turn">>
    BY <1>1, <2>1, OwesIs DEF Todos
  <2>3. Wrote("tool", 0) \/ (Wrote("tool", 1) /\ log'.refused)
    BY <1>2, <1>8 DEF Emitted
  <2>4. Spanned'
    BY <1>3, <1>4, <2>2, <2>3, TodoFacts DEF Spanned, Wrote, Outside, Leaving, Ending
  <2> QED  BY <1>1, <2>2, <2>3, <2>4, Looped, TodoFacts, <1>5 DEF Working
<1> QED  BY <1>6, <1>7, <1>8 DEF Outcomes, Emitted, Committed

\* ModelCompleted ends the model operation; its calls come before the end of the turn.
LEMMA CompleteModelStep ==
    ASSUME IInv, NEW o \in Outcomes, CompleteModel(o)
    PROVE  IInv'
<1>1. /\ exec.pc = "modelDone" /\ exec.pc \in Working \ {"start"} /\ exec \in Execs /\ exec.todo = <<>>
      /\ run.status \notin Still /\ UNCHANGED <<run, prep, engine, interact>>
  BY Moving DEF IInv, Typed, CompleteModel, Working, Local, Others
<1>2. /\ run.ctxDone \in BOOLEAN
      /\ run.ctxDone => Wrote("model", 0)
      /\ ~run.ctxDone => Wrote("model", -1) /\ (~Committed(o) => log'.refused)
  <2>1. run.ctxDone \in BOOLEAN /\ log \in Logs /\ "model" \in Spans
    BY SpanFacts DEF IInv, Typed, Runs
  <2> QED  BY <2>1, EmitWrites DEF CompleteModel
<1>3. log.refused \/ (log.open["turn"] = 1 /\ log.open["model"] = 1 /\ log.open["tool"] = 0)
  BY <1>1, TodoFacts DEF IInv, Spanned, Outside, Leaving, Ending
<1>4. {"turn", "tool"} \subseteq Spans \ {"model"}
  BY SpanFacts
<1>5. CASE Emitted(o, run.ctxDone)
  <2> DEFINE p == IF exec.calls = 0 THEN "turnDone" ELSE "tool"
             f == exec.calls = 0
  <2>1. exec' = [exec EXCEPT !.pc = p, !.final = f]
    BY <1>1, <1>5 DEF CompleteModel
  <2>2. p \in {"turnDone", "tool"} /\ p \in Places /\ (p = "tool" => exec.calls # 0) /\ f \in BOOLEAN
    BY DEF Places, Working
  <2> HIDE DEF p, f
  <2>3. exec' \in Execs /\ exec'.pc = p /\ exec'.todo = <<>> /\ exec'.calls = exec.calls
    BY <1>1, <2>1, <2>2 DEF Execs
  <2>4. Wrote("model", -1)
    BY <1>2, <1>5 DEF Emitted
  <2>5. Spanned'
    BY <1>3, <1>4, <2>2, <2>3, <2>4, TodoFacts DEF Spanned, Wrote, Outside, Leaving, Ending
  <2> QED  BY <1>1, <2>2, <2>3, <2>4, <2>5, Looped, TodoFacts DEF Working
<1>6. CASE ~Emitted(o, run.ctxDone)
  <2>1. exec' = Owes(<<"turn">>)
    BY <1>1, <1>6 DEF CompleteModel
  <2>2. exec' \in Execs /\ exec'.pc = "fail" /\ exec'.todo = <<"turn">>
    BY <1>1, <2>1, OwesIs DEF Todos
  <2>3. Wrote("model", 0) \/ Wrote("model", -1)
    BY <1>2
  <2>4. Spanned'
    BY <1>3, <1>4, <2>2, <2>3, TodoFacts DEF Spanned, Wrote, Outside, Leaving, Ending
  <2> QED  BY <1>1, <2>2, <2>3, <2>4, Looped, TodoFacts DEF Working
<1> QED  BY <1>5, <1>6

\* Calls that are refused leave their turn to be failed.
LEMMA RefuseToolStep ==
    ASSUME IInv, RefuseTool
    PROVE  IInv'
<1>1. /\ exec.pc \in {"tool", "turnDone"} /\ exec.pc \in Working \ {"start"} /\ exec \in Execs /\ exec.todo = <<>>
      /\ run.status \notin Still /\ UNCHANGED <<run, prep, engine, interact>>
  BY Moving DEF IInv, Typed, RefuseTool, Working, Local, Others
<1>2. Wrote("turn", 0)
  <2>1. log \in Logs /\ "turn" \in Spans /\ UNCHANGED log
    BY SpanFacts DEF IInv, Typed, RefuseTool
  <2> QED  BY <2>1, Untouched
<1>3. log.refused \/ (log.open["turn"] = 1 /\ log.open["model"] = 0 /\ log.open["tool"] = 0)
  BY <1>1, TodoFacts DEF IInv, Spanned, Outside, Leaving, Ending
<1>4. {"model", "tool"} \subseteq Spans \ {"turn"}
  BY SpanFacts
<1>5. exec' = Owes(<<"turn">>)
  BY DEF RefuseTool
<1>6. exec' \in Execs /\ exec'.pc = "fail" /\ exec'.todo = <<"turn">>
  BY <1>1, <1>5, OwesIs DEF Todos
<1>7. Spanned'
  BY <1>2, <1>3, <1>4, <1>6, TodoFacts DEF Spanned, Wrote, Outside, Leaving, Ending
<1> QED  BY <1>1, <1>2, <1>6, <1>7, Looped, TodoFacts DEF Working

\* toolTerminal ends the tool, and one call less is left.
LEMMA CompleteToolStep ==
    ASSUME IInv, NEW o \in Outcomes, CompleteTool(o)
    PROVE  IInv'
<1>1. /\ exec.pc = "toolDone" /\ exec.pc \in Working \ {"start"} /\ exec \in Execs /\ exec.todo = <<>>
      /\ run.status \notin Still /\ UNCHANGED <<run, prep, engine, interact>>
  BY Moving DEF IInv, Typed, CompleteTool, Working, Local, Others
<1>2. Wrote("tool", -1)
  <2>1. log \in Logs /\ "tool" \in Spans
    BY SpanFacts DEF IInv, Typed
  <2> QED  BY <2>1, PersistWrites DEF CompleteTool
<1>3. log.refused \/ (log.open["turn"] = 1 /\ log.open["model"] = 0 /\ log.open["tool"] = 1)
  BY <1>1, TodoFacts DEF IInv, Spanned, Outside, Leaving, Ending
<1>4. {"turn", "model"} \subseteq Spans \ {"tool"}
  BY SpanFacts
<1>5. CASE o = "ok"
  <2> DEFINE p == IF exec.calls = 1 THEN "turnDone" ELSE "tool"
             n == exec.calls - 1
  <2>1. exec' = [exec EXCEPT !.pc = p, !.calls = n]
    BY <1>1, <1>5 DEF CompleteTool, Execs
  <2>2. exec.calls \in 0 .. MaxCalls /\ exec.calls # 0
    BY <1>1 DEF IInv, Typed, Execs
  <2>3. p \in {"turnDone", "tool"} /\ p \in Places /\ (p = "tool" => n # 0) /\ n \in 0 .. MaxCalls
    BY <2>2, TurnsAssumption DEF Places, Working
  <2> HIDE DEF p, n
  <2>4. exec' \in Execs /\ exec'.pc = p /\ exec'.todo = <<>> /\ exec'.calls = n
    BY <1>1, <2>1, <2>3 DEF Execs
  <2>5. Spanned'
    BY <1>2, <1>3, <1>4, <2>3, <2>4, TodoFacts DEF Spanned, Wrote, Outside, Leaving, Ending
  <2> QED  BY <1>1, <1>2, <2>3, <2>4, <2>5, Looped, TodoFacts DEF Working
<1>6. CASE o # "ok"
  <2>1. exec' = Owes(<<"turn">>)
    BY <1>1, <1>6 DEF CompleteTool
  <2>2. exec' \in Execs /\ exec'.pc = "fail" /\ exec'.todo = <<"turn">>
    BY <1>1, <2>1, OwesIs DEF Todos
  <2>3. Spanned'
    BY <1>2, <1>3, <1>4, <2>2, TodoFacts DEF Spanned, Wrote, Outside, Leaving, Ending
  <2> QED  BY <1>1, <1>2, <2>2, <2>3, Looped, TodoFacts DEF Working
<1> QED  BY <1>5, <1>6

\* toolFailure, modelFailure and turnFailure end what is open, innermost first.
LEMMA FailStep ==
    ASSUME IInv, NEW o \in Outcomes, Fail(o)
    PROVE  IInv'
<1>1. /\ exec.pc = "fail" /\ exec.pc \in Working \ {"start"} /\ exec \in Execs /\ exec.todo \in Todos \ {<<>>}
      /\ run.status \notin Still /\ UNCHANGED <<run, prep, engine, interact>>
  <2>1. exec.pc = "fail" /\ exec \in Execs /\ exec.todo # <<>>
    BY DEF IInv, Typed, Fail
  <2>2. exec.todo \in Todos
    BY <2>1 DEF Execs
  <2> QED  BY <2>1, <2>2, Moving DEF Fail, Working, Local, Others
<1>2. log \in Logs /\ {"turn", "model", "tool"} \subseteq Spans
  BY SpanFacts DEF IInv, Typed
<1>3. log.refused \/ (log.open["turn"] = 1 /\ log.open["model"] \in 0 .. 1)
  BY <1>1 DEF IInv, Spanned, Outside, Leaving, Ending
<1>4. CASE exec.todo = <<"turn">>
  <2>1. Wrote("turn", -1)
    BY <1>2, <1>4, TodoFacts, PersistWrites DEF Fail
  <2>2. exec' = Fails
    BY <1>4, TodoFacts DEF Fail
  <2>3. exec' \in Execs /\ exec'.pc = "finalize" /\ exec'.todo = <<>> /\ exec'.kind # "completed"
    BY <1>1, <2>2, FailsIs
  <2>4. log.refused \/ log.open["tool"] = 0
    BY <1>1, <1>4, TodoFacts DEF IInv, Spanned
  <2>5. {"model", "tool"} \subseteq Spans \ {"turn"}
    BY SpanFacts
  <2>6. Spanned'
    BY <1>3, <2>1, <2>3, <2>4, <2>5, TodoFacts DEF Spanned, Wrote, Outside, Leaving, Ending
  <2> QED  BY <1>1, <2>1, <2>3, <2>6, Looped, TodoFacts DEF Working
<1>5. ASSUME exec.todo # <<"turn">>
      PROVE  exec' \in Execs /\ exec'.pc = "fail" /\ exec'.todo = <<"turn">>
  <2>1. exec' = [exec EXCEPT !.todo = <<"turn">>]
    <3>1. exec.todo = <<"model", "turn">> \/ exec.todo = <<"tool", "turn">>
      BY <1>1, <1>5 DEF Todos
    <3>2. ASSUME exec.todo = <<"model", "turn">>
          PROVE  Len(exec.todo) = 2 /\ Tail(exec.todo) = <<"turn">>
      BY <3>2, TodoFacts
    <3>3. ASSUME exec.todo = <<"tool", "turn">>
          PROVE  Len(exec.todo) = 2 /\ Tail(exec.todo) = <<"turn">>
      BY <3>3, TodoFacts
    <3>4. Len(exec.todo) = 2 /\ Tail(exec.todo) = <<"turn">>
      BY <3>1, <3>2, <3>3
    <3>5. Len(exec.todo) # 1
      BY <3>4
    <3>6. exec' = [exec EXCEPT !.todo = Tail(@)]
      BY <3>5 DEF Fail
    <3>7. exec' = [exec EXCEPT !.todo = Tail(exec.todo)]
      BY <3>6
    <3> QED  BY <3>4, <3>7, Zenon
  <2>2. <<"turn">> \in Todos
    BY DEF Todos
  <2> QED  BY <1>1, <2>1, <2>2 DEF Execs
<1>6. CASE exec.todo = <<"model", "turn">>
  <2>1. Wrote("model", -1)
    BY <1>2, <1>6, TodoFacts, PersistWrites DEF Fail
  <2>2. log.refused \/ (log.open["model"] = 1 /\ log.open["tool"] = 0)
    BY <1>1, <1>6, TodoFacts DEF IInv, Spanned
  <2>3. {"turn", "tool"} \subseteq Spans \ {"model"}
    BY SpanFacts
  <2>4. exec' \in Execs /\ exec'.pc = "fail" /\ exec'.todo = <<"turn">>
    BY <1>5, <1>6, TodoFacts
  <2>5. Spanned'
    BY <1>3, <2>1, <2>2, <2>3, <2>4, TodoFacts DEF Spanned, Wrote, Outside, Leaving, Ending
  <2> QED  BY <1>1, <2>1, <2>4, <2>5, Looped, TodoFacts DEF Working
<1>7. CASE exec.todo = <<"tool", "turn">>
  <2>1. Wrote("tool", -1)
    BY <1>2, <1>7, TodoFacts, PersistWrites DEF Fail
  <2>2. log.refused \/ log.open["tool"] = 1
    BY <1>1, <1>7, TodoFacts DEF IInv, Spanned
  <2>3. {"turn", "model"} \subseteq Spans \ {"tool"}
    BY SpanFacts
  <2>4. exec' \in Execs /\ exec'.pc = "fail" /\ exec'.todo = <<"turn">>
    BY <1>5, <1>7, TodoFacts
  <2>5. Spanned'
    BY <1>3, <2>1, <2>2, <2>3, <2>4, TodoFacts DEF Spanned, Wrote, Outside, Leaving, Ending
  <2> QED  BY <1>1, <2>1, <2>4, <2>5, Looped, TodoFacts DEF Working
<1> QED  BY <1>1, <1>4, <1>6, <1>7 DEF Todos

\* TurnCompleted and recordBoundary: the turn that is recorded is over.
LEMMA CompleteTurnStep ==
    ASSUME IInv, NEW o \in Outcomes, CompleteTurn(o)
    PROVE  IInv'
<1>1. /\ exec.pc = "turnDone" /\ exec.pc \in Working \ {"start"} /\ exec \in Execs /\ exec.todo = <<>>
      /\ run \in Runs /\ run.status \notin Still /\ UNCHANGED <<prep, engine, interact>>
  BY Moving DEF IInv, Typed, CompleteTurn, Working, Others
<1>2. /\ run.ctxDone \in BOOLEAN
      /\ run.ctxDone => Wrote("turn", 0)
      /\ ~run.ctxDone => Wrote("turn", -1) /\ (~Committed(o) => log'.refused)
  <2>1. run.ctxDone \in BOOLEAN /\ log \in Logs /\ "turn" \in Spans
    BY SpanFacts DEF IInv, Typed, Runs
  <2> QED  BY <2>1, EmitWrites DEF CompleteTurn
<1>3. log.refused \/ (log.open["turn"] = 1 /\ log.open["model"] = 0 /\ log.open["tool"] = 0)
  BY <1>1, TodoFacts DEF IInv, Spanned, Outside, Leaving, Ending
<1>4. {"model", "tool"} \subseteq Spans \ {"turn"}
  BY SpanFacts
<1>5. CASE Emitted(o, run.ctxDone)
  <2>1. run' = [run EXCEPT !.completedTurns = exec.turn]
        /\ exec' = IF exec.final THEN [exec EXCEPT !.pc = "finalize", !.kind = "completed"]
                   ELSE [exec EXCEPT !.pc = "boundary"]
    BY <1>5 DEF CompleteTurn
  <2>2. exec' \in Execs /\ exec'.pc \in {"finalize", "boundary"} /\ exec'.todo = <<>>
    BY <1>1, <2>1 DEF Execs, Places, Working, Kinds
  <2>3. exec.turn \in 0 .. MaxTurns
    BY <1>1 DEF Execs
  <2>4. /\ run' \in Runs /\ run'.status = run.status /\ (run'.started <=> run.started)
        /\ (run'.suspendRequested <=> run.suspendRequested) /\ (run'.resumeSignal <=> run.resumeSignal)
        /\ run'.localResume = run.localResume /\ run'.activeInteractions = run.activeInteractions
        /\ run'.released = run.released
    BY <1>1, <2>1, <2>3 DEF Runs
  <2>5. Wrote("turn", -1)
    BY <1>2, <1>5 DEF Emitted
  <2>6. Typed'
    BY <1>1, <2>2, <2>4, <2>5 DEF IInv, Typed, Wrote
  <2>7. Placed'
    BY <1>1, <2>2, <2>4 DEF IInv, Placed, Working
  <2>8. Stands'
    BY <1>1, <2>2, <2>4 DEF IInv, Stands, Working, Ending
  <2>9. Active'
    BY <1>1, <2>2, <2>4 DEF IInv, Active, Working
  <2>10. Begun'
    <3>1. "run" \in Spans \ {"turn"}
      BY SpanFacts
    <3>2. ~log'.refused => log'.open["run"] = log.open["run"] /\ ~log.refused
      BY <2>5, <3>1 DEF Wrote
    <3>3. log'.terminal = log.terminal
      BY <2>5 DEF Wrote
    <3> QED  BY <1>1, <2>2, <2>4, <3>2, <3>3 DEF IInv, Begun, Working
  <2>11. Spanned'
    BY <1>3, <1>4, <2>2, <2>5, TodoFacts DEF Spanned, Wrote, Outside, Leaving, Ending
  <2>12. Talked'
    <3>1. \A i \in Interactions : i \in Spans \ {"turn"}
      BY SpanFacts
    <3>2. ~log'.refused => ~log.refused /\ \A i \in Interactions : log'.open[i] = log.open[i]
      BY <2>5, <3>1 DEF Wrote
    <3> QED  BY <1>1, <3>2 DEF IInv, Talked
  <2> QED  BY <2>6, <2>7, <2>8, <2>9, <2>10, <2>11, <2>12 DEF IInv
<1>6. CASE ~Emitted(o, run.ctxDone)
  <2>1. exec' = Fails /\ UNCHANGED run
    BY <1>6 DEF CompleteTurn
  <2>2. exec' \in Execs /\ exec'.pc = "finalize" /\ exec'.todo = <<>> /\ exec'.kind # "completed"
    BY <1>1, <2>1, FailsIs
  <2>3. Wrote("turn", 0) \/ Wrote("turn", -1)
    BY <1>2
  <2>4. Spanned'
    BY <1>3, <1>4, <2>2, <2>3, TodoFacts DEF Spanned, Wrote, Outside, Leaving, Ending
  <2> QED  BY <1>1, <2>1, <2>2, <2>3, <2>4, Looped, TodoFacts DEF Working
<1> QED  BY <1>5, <1>6

-----------------------------------------------------------------------------
(* The boundary.                                                           *)

\* Only what Stands is about changes in the run.
SameRun ==
    /\ run' \in Runs /\ (run'.started <=> run.started)
    /\ run'.activeInteractions = run.activeInteractions /\ run'.released = run.released
    /\ run'.status = "completed" => run.status = "completed"

\* Callers that change only the run's status, its requests and its context.
LEMMA AsideStep ==
    ASSUME IInv, SameRun, Stands', UNCHANGED <<exec, prep, engine, log, interact>>
    PROVE  IInv'
<1>1. Typed'
  BY DEF IInv, Typed, SameRun
<1>2. Placed'
  BY DEF IInv, Placed, SameRun
<1>3. Active'
  BY DEF IInv, Active, SameRun
<1>4. Begun'
  BY DEF IInv, Begun, SameRun
<1>5. Spanned' /\ Talked'
  BY DEF IInv, Spanned, Talked
<1> QED  BY <1>1, <1>2, <1>3, <1>4, <1>5 DEF IInv

\* The goroutine arrives at its boundary, waits there or leaves it.
LEMMA BoundaryStep ==
    ASSUME IInv, SameRun, Stands', UNCHANGED <<prep, engine, log, interact>>,
           exec.pc \in {"boundary", "parked", "latched"}, exec' \in Execs, exec'.todo = <<>>,
           exec'.pc \in {"turn", "parked", "latched", "finalize"},
           exec'.pc = "finalize" => exec'.kind # "completed"
    PROVE  IInv'
<1>1. Typed'
  BY DEF IInv, Typed, SameRun
<1>2. Placed'
  BY DEF IInv, Placed, SameRun
<1>3. Active'
  BY DEF IInv, Active, SameRun
<1>4. Begun'
  BY DEF IInv, Begun, SameRun
<1>5. Spanned'
  <2>1. log.refused \/ (log.open["turn"] = 0 /\ log.open["model"] = 0 /\ log.open["tool"] = 0)
    <3>1. exec.todo = <<>>
      BY DEF IInv, Typed
    <3> QED  BY <3>1, TodoFacts DEF IInv, Spanned, Outside
  <2> QED  BY <2>1, TodoFacts DEF Spanned, Outside, Leaving, Ending
<1>6. Talked'
  BY DEF IInv, Talked
<1> QED  BY <1>1, <1>2, <1>3, <1>4, <1>5, <1>6 DEF IInv

\* The loop goes round or has used its turns.
LEMMA NextTurnIs ==
    ASSUME exec \in Execs
    PROVE  /\ NextTurn \in Execs /\ NextTurn.pc \in {"turn", "finalize"} /\ NextTurn.todo = exec.todo
           /\ NextTurn.pc = "finalize" => NextTurn.kind # "completed"
<1>1. CASE exec.turn < MaxTurns
  <2> DEFINE t == exec.turn + 1
  <2>1. t \in 1 .. MaxTurns /\ "turn" \in Places
    BY <1>1, TurnsAssumption DEF Execs, Places, Working
  <2>2. NextTurn = [exec EXCEPT !.pc = "turn", !.turn = t]
    BY <1>1 DEF NextTurn, Execs
  <2> HIDE DEF t
  <2> QED  BY <2>1, <2>2 DEF Execs
<1>2. CASE ~(exec.turn < MaxTurns)
  <2>1. NextTurn = [exec EXCEPT !.pc = "finalize", !.kind = "failed"]
    BY <1>2 DEF NextTurn
  <2> QED  BY <2>1 DEF Execs, Places, Kinds
<1> QED  BY <1>1, <1>2

\* A run that is left alone is the same run.
LEMMA SameRunUnchanged ==
    ASSUME IInv, UNCHANGED run
    PROVE  SameRun
  BY DEF IInv, Typed, SameRun

\* suspendAtBoundary with no request pending.
LEMMA PassBoundaryStep ==
    ASSUME IInv, PassBoundary
    PROVE  IInv'
<1>1. exec.pc = "boundary" /\ exec \in Execs /\ exec.todo = <<>> /\ exec' = NextTurn
      /\ UNCHANGED <<run, prep, engine, log, interact>>
  BY DEF IInv, Typed, PassBoundary, Local, Others
<1>2. exec' \in Execs /\ exec'.todo = <<>> /\ exec'.pc \in {"turn", "finalize"}
      /\ (exec'.pc = "finalize" => exec'.kind # "completed")
  BY <1>1, NextTurnIs
<1>3. Stands'
  BY <1>1, <1>2 DEF IInv, Stands, Ending
<1> QED  BY <1>1, <1>2, <1>3, BoundaryStep, SameRunUnchanged

\* suspendAtBoundary refuses the request while an interaction is active.
LEMMA RefuseSuspendStep ==
    ASSUME IInv, RefuseSuspend
    PROVE  IInv'
<1>1. exec.pc = "boundary" /\ exec \in Execs /\ exec.todo = <<>> /\ exec' = NextTurn
      /\ UNCHANGED <<prep, engine, log, interact>> /\ run \in Runs
      /\ run' = [run EXCEPT !.suspendRequested = FALSE, !.suspendWaiter = None, !.status = "running"]
  BY DEF IInv, Typed, RefuseSuspend
<1>2. exec' \in Execs /\ exec'.todo = <<>> /\ exec'.pc \in {"turn", "finalize"}
      /\ (exec'.pc = "finalize" => exec'.kind # "completed")
  BY <1>1, NextTurnIs
<1>3. SameRun /\ run'.status = "running" /\ run'.localResume = run.localResume
  BY <1>1 DEF SameRun, Runs, Statuses
<1>4. Stands'
  BY <1>1, <1>2, <1>3 DEF IInv, Stands, Ending, Still
<1> QED  BY <1>1, <1>2, <1>3, <1>4, BoundaryStep

\* suspendAtBoundary establishes the boundary with no active interaction.
LEMMA ParkStep ==
    ASSUME IInv, Park
    PROVE  IInv'
<1>1. exec.pc = "boundary" /\ exec \in Execs /\ exec.todo = <<>> /\ exec' = [exec EXCEPT !.pc = "parked"]
      /\ UNCHANGED <<prep, engine, log, interact>> /\ run \in Runs /\ run.activeInteractions = {}
      /\ run' = [run EXCEPT !.suspendRequested = FALSE, !.suspendWaiter = None, !.status = "suspended",
                            !.resumeSignal = TRUE]
  BY DEF IInv, Typed, Park
<1>2. exec' \in Execs /\ exec'.todo = <<>> /\ exec'.pc = "parked"
  BY <1>1, MovesTo, InLoop
<1>3. SameRun /\ run'.status = "suspended" /\ run'.localResume = run.localResume /\ run'.resumeSignal
      /\ ~run'.suspendRequested
  BY <1>1 DEF SameRun, Runs, Statuses
<1>4. run'.localResume = None /\ run'.activeInteractions = {}
  BY <1>1, <1>3 DEF IInv, Stands, Still, SameRun
<1>5. Stands'
  BY <1>2, <1>3, <1>4 DEF Stands, Ending, Still
<1> QED  BY <1>1, <1>2, <1>3, <1>5, BoundaryStep

\* The resume signal is closed, so nobody calls the run suspended any more.
LEMMA UnparkStep ==
    ASSUME IInv, Unpark
    PROVE  IInv'
<1>1. exec.pc = "parked" /\ exec \in Execs /\ exec.todo = <<>> /\ (exec' = Fails \/ exec' = NextTurn)
      /\ UNCHANGED <<run, prep, engine, log, interact>> /\ ~run.resumeSignal
  BY DEF IInv, Typed, Unpark, Local, Others
<1>2. exec' \in Execs /\ exec'.todo = <<>> /\ exec'.pc \in {"turn", "finalize"}
      /\ (exec'.pc = "finalize" => exec'.kind # "completed")
  BY <1>1, NextTurnIs, FailsIs
<1>3. Stands'
  BY <1>1, <1>2 DEF IInv, Stands, Ending
<1> QED  BY <1>1, <1>2, <1>3, BoundaryStep, SameRunUnchanged

\* The local resume that held the boundary was decided.
LEMMA UnlatchStep ==
    ASSUME IInv, Unlatch
    PROVE  IInv'
<1>1. exec.pc = "latched" /\ exec \in Execs /\ exec.todo = <<>> /\ exec' = Fails
      /\ UNCHANGED <<run, prep, engine, log, interact>> /\ run.localResume = None
  BY DEF IInv, Typed, Unlatch, Local, Others
<1>2. exec' \in Execs /\ exec'.todo = <<>> /\ exec'.pc = "finalize" /\ exec'.kind # "completed"
  BY <1>1, FailsIs
<1>3. Stands'
  BY <1>1, <1>2 DEF IInv, Stands, Ending, Still
<1> QED  BY <1>1, <1>2, <1>3, BoundaryStep, SameRunUnchanged

\* A cancelled boundary finishes, or waits for the local resume that holds it.
LEMMA ParkedCancelStep ==
    ASSUME IInv, ParkedCancel
    PROVE  IInv'
<1>1. exec.pc = "parked" /\ exec \in Execs /\ exec.todo = <<>> /\ run.ctxDone /\ run \in Runs
      /\ UNCHANGED <<prep, engine, log, interact>>
  BY DEF IInv, Typed, ParkedCancel, Others
<1>2. CASE run.localResume = None
  <2>1. run' = [run EXCEPT !.status = "finishing"] /\ exec' = Fails
    BY <1>2 DEF ParkedCancel
  <2>2. exec' \in Execs /\ exec'.todo = <<>> /\ exec'.pc = "finalize" /\ exec'.kind # "completed"
    BY <1>1, <2>1, FailsIs
  <2>3. SameRun /\ run'.status = "finishing" /\ run'.localResume = None
    BY <1>1, <1>2, <2>1 DEF SameRun, Runs, Statuses
  <2>4. Stands'
    BY <2>2, <2>3 DEF Stands, Ending, Still
  <2> QED  BY <1>1, <2>2, <2>3, <2>4, BoundaryStep
<1>3. CASE run.localResume # None
  <2>1. UNCHANGED run /\ exec' = [exec EXCEPT !.pc = "latched"]
    BY <1>3 DEF ParkedCancel
  <2>2. exec' \in Execs /\ exec'.todo = <<>> /\ exec'.pc = "latched"
    BY <1>1, <2>1, MovesTo, InLoop
  <2>3. Stands'
    BY <1>1, <1>3, <2>1, <2>2 DEF IInv, Stands, Ending, Still
  <2> QED  BY <1>1, <2>1, <2>2, <2>3, BoundaryStep, SameRunUnchanged
<1> QED  BY <1>2, <1>3

-----------------------------------------------------------------------------
(* Suspend, local resume and cancellation.                                 *)

\* Suspend asks a running run.
LEMMA SuspendStep ==
    ASSUME IInv, NEW s \in Suspenders, Suspend(s)
    PROVE  IInv'
<1>1. /\ run \in Runs /\ run.status = "running" /\ UNCHANGED <<exec, prep, engine, log, interact>>
      /\ run' = [run EXCEPT !.suspendRequested = TRUE, !.suspendWaiter = s, !.status = "suspending"]
  BY DEF IInv, Typed, Suspend
<1>2. SameRun /\ run'.status = "suspending" /\ run'.localResume = run.localResume
  BY <1>1 DEF SameRun, Runs, Statuses
<1>3. Stands'
  BY <1>1, <1>2 DEF IInv, Stands, Still, Kinds
<1> QED  BY <1>1, <1>2, <1>3, AsideStep

\* Suspend returns the answer it has.
LEMMA SuspendReturnsStep ==
    ASSUME IInv, NEW s \in Suspenders, SuspendReturns(s)
    PROVE  IInv'
<1>1. UNCHANGED <<run, exec, prep, engine, log, interact>>
  BY DEF SuspendReturns
<1>2. Stands'
  BY <1>1 DEF IInv, Stands
<1> QED  BY <1>1, <1>2, SameRunUnchanged, AsideStep

\* The withdrawn request was pending, or its boundary stands and no local resume holds it.
LEMMA SuspendCancelledStep ==
    ASSUME IInv, NEW s \in Suspenders, SuspendCancelled(s)
    PROVE  IInv'
<1>1. run \in Runs /\ UNCHANGED <<exec, prep, engine, log, interact>>
  BY DEF IInv, Typed, SuspendCancelled
<1>2. CASE run.suspendRequested /\ run.suspendWaiter = s
  <2>1. run' = [run EXCEPT !.suspendRequested = FALSE, !.suspendWaiter = None, !.status = "running"]
    BY <1>2 DEF SuspendCancelled
  <2>2. SameRun /\ run'.status = "running" /\ run'.localResume = run.localResume
        /\ ~run'.suspendRequested /\ (run'.ctxDone <=> run.ctxDone)
    BY <1>1, <2>1 DEF SameRun, Runs, Statuses
  <2>3. Stands'
    BY <1>1, <1>2, <2>2 DEF IInv, Stands, Still, Kinds
  <2> QED  BY <1>1, <2>2, <2>3, AsideStep
<1>3. CASE ~(run.suspendRequested /\ run.suspendWaiter = s) /\ run.status = "suspended" /\ run.resumeSignal
  <2>1. run' = [run EXCEPT !.status = "running", !.resumeSignal = FALSE]
    BY <1>3 DEF SuspendCancelled, Resumed
  <2>2. SameRun /\ run'.status = "running" /\ run'.localResume = run.localResume
        /\ (run'.ctxDone <=> run.ctxDone)
    BY <1>1, <2>1 DEF SameRun, Runs, Statuses
  <2>3. Stands'
    BY <1>1, <1>3, <2>2 DEF IInv, Stands, Still, Kinds
  <2> QED  BY <1>1, <2>2, <2>3, AsideStep
<1>4. CASE /\ ~(run.suspendRequested /\ run.suspendWaiter = s)
           /\ ~(run.status = "suspended" /\ run.resumeSignal)
  <2>1. UNCHANGED run
    BY <1>4 DEF SuspendCancelled
  <2>2. Stands'
    BY <1>1, <2>1 DEF IInv, Stands
  <2> QED  BY <1>1, <2>1, <2>2, SameRunUnchanged, AsideStep
<1> QED  BY <1>2, <1>3, <1>4

\* PrepareLocalResume takes a boundary that stands.
LEMMA PrepareLocalResumeStep ==
    ASSUME IInv, NEW p \in Resumers, PrepareLocalResume(p)
    PROVE  IInv'
<1>1. /\ run \in Runs /\ run.status = "suspended" /\ run.resumeSignal
      /\ UNCHANGED <<exec, prep, engine, log, interact>>
      /\ run' = [run EXCEPT !.localResume = p, !.status = "resume-pending"]
  BY DEF IInv, Typed, PrepareLocalResume
<1>2. SameRun /\ run'.status = "resume-pending" /\ run'.localResume = p /\ run'.resumeSignal
      /\ (run'.suspendRequested <=> run.suspendRequested)
  BY <1>1 DEF SameRun, Runs, Statuses
<1>3. p # None
  BY NobodyAssumption
<1>4. Stands'
  BY <1>1, <1>2, <1>3 DEF IInv, Stands, Still, Ending, SameRun
<1> QED  BY <1>1, <1>2, <1>4, AsideStep

\* Committing the local resume lets the run go.
LEMMA CommitLocalResumeStep ==
    ASSUME IInv, NEW p \in Resumers, CommitLocalResume(p)
    PROVE  IInv'
<1>1. /\ run \in Runs /\ run.status = "resume-pending"
      /\ UNCHANGED <<exec, prep, engine, log, interact>>
      /\ run' = [run EXCEPT !.status = "running", !.resumeSignal = FALSE, !.localResume = None]
  BY DEF IInv, Typed, CommitLocalResume, HoldsBoundary, Resumed, Runs
<1>2. SameRun /\ run'.status = "running" /\ run'.localResume = None /\ (run'.ctxDone <=> run.ctxDone)
  BY <1>1 DEF SameRun, Runs, Statuses
<1>3. Stands'
  BY <1>1, <1>2 DEF IInv, Stands, Still, Ending
<1> QED  BY <1>1, <1>2, <1>3, AsideStep

\* Aborting it gives the boundary back, unless the run was cancelled meanwhile.
LEMMA AbortLocalResumeStep ==
    ASSUME IInv, NEW p \in Resumers, AbortLocalResume(p)
    PROVE  IInv'
<1> DEFINE st == IF run.ctxDone THEN "finishing" ELSE "suspended"
<1>1. /\ run \in Runs /\ run.status = "resume-pending" /\ run.resumeSignal
      /\ UNCHANGED <<exec, prep, engine, log, interact>>
      /\ run' = [run EXCEPT !.localResume = None, !.status = st]
  BY DEF IInv, Typed, AbortLocalResume, HoldsBoundary
<1>2. st \in {"finishing", "suspended"} /\ (run.ctxDone => st = "finishing")
  OBVIOUS
<1> HIDE DEF st
<1>3. SameRun /\ run'.status = st /\ run'.localResume = None /\ (run'.ctxDone <=> run.ctxDone)
      /\ run'.resumeSignal /\ (run'.suspendRequested <=> run.suspendRequested)
  BY <1>1, <1>2 DEF SameRun, Runs, Statuses
<1>4. Stands'
  BY <1>1, <1>2, <1>3 DEF IInv, Stands, Still, Ending, SameRun
<1> QED  BY <1>1, <1>3, <1>4, AsideStep

\* Cancellation only ends the context.
LEMMA CancelStep ==
    ASSUME IInv, Cancel
    PROVE  IInv'
<1>1. /\ run \in Runs /\ UNCHANGED <<exec, prep, engine, log, interact>>
      /\ run' = [run EXCEPT !.ctxDone = TRUE]
  BY DEF IInv, Typed, Cancel, Others
<1>2. SameRun /\ run'.status = run.status /\ run'.localResume = run.localResume /\ run'.ctxDone
      /\ (run'.suspendRequested <=> run.suspendRequested) /\ (run'.resumeSignal <=> run.resumeSignal)
  <2>1. run' \in Runs /\ run'.status = run.status /\ run'.localResume = run.localResume
        /\ run'.activeInteractions = run.activeInteractions /\ run'.released = run.released
    BY <1>1 DEF Runs
  <2>2. /\ run'.ctxDone /\ (run'.started <=> run.started)
        /\ (run'.suspendRequested <=> run.suspendRequested) /\ (run'.resumeSignal <=> run.resumeSignal)
    BY <1>1 DEF Runs
  <2> QED  BY <2>1, <2>2 DEF SameRun
<1>3. Stands'
  BY <1>1, <1>2 DEF IInv, Stands, SameRun
<1> QED  BY <1>1, <1>2, <1>3, AsideStep

-----------------------------------------------------------------------------
(* Interactions.                                                           *)

Asked == {"asking", "answered", "failing"}

\* The goroutine of interaction i goes on to w.
GoesOn(i, w) ==
    /\ interact' \in [Interactions -> Talks] /\ interact'[i] = w
    /\ \A j \in Interactions \ {i} : interact'[j] = interact[j]

\* GoesOn from the update of interact.
LEMMA GoingOn ==
    ASSUME IInv, NEW i \in Interactions, NEW w \in Talks, interact' = [interact EXCEPT ![i] = w]
    PROVE  GoesOn(i, w)
  BY DEF IInv, Typed, GoesOn

\* A goroutine inside Interact goes on: only its own events are written.
LEMMA TalkStep ==
    ASSUME IInv, NEW i \in Interactions, UNCHANGED Around, NEW w \in Talks \ {"idle", "seen"},
           GoesOn(i, w), interact[i] \notin {"idle", "seen"},
           NEW by \in -1 .. 1, Wrote(i, by),
           ~log'.refused => by = (IF w \in Asked THEN 1 ELSE 0) - (IF interact[i] \in Asked THEN 1 ELSE 0)
    PROVE  IInv'
<1>1. UNCHANGED <<run, exec, prep, engine>>
  BY DEF Around
<1>2. interact' \in [Interactions -> Talks] /\ interact'[i] = w
      /\ \A j \in Interactions \ {i} : interact'[j] = interact[j]
  BY DEF GoesOn
<1>3. {"run", "turn", "model", "tool"} \subseteq Spans \ {i} /\ \A j \in Interactions \ {i} : j \in Spans \ {i}
  BY SpanFacts
<1>4. Typed'
  BY <1>1, <1>2 DEF IInv, Typed, Wrote
<1>5. Placed' /\ Stands'
  BY <1>1 DEF IInv, Placed, Stands
<1>6. Active'
  <2>1. \A j \in Interactions : interact'[j] \notin {"idle", "seen"} <=> interact[j] \notin {"idle", "seen"}
    BY <1>2
  <2> QED  BY <1>1, <2>1 DEF IInv, Active
<1>7. ~log'.refused => ~log.refused /\ log'.open["run"] = log.open["run"]
         /\ log'.open["turn"] = log.open["turn"] /\ log'.open["model"] = log.open["model"]
         /\ log'.open["tool"] = log.open["tool"] /\ log'.open[i] = log.open[i] + by
         /\ \A j \in Interactions \ {i} : log'.open[j] = log.open[j]
  BY <1>3 DEF Wrote
<1>8. Begun'
  BY <1>1, <1>7 DEF IInv, Begun, Wrote
<1>9. Spanned'
  BY <1>1, <1>7 DEF IInv, Spanned
<1>10. Talked'
  <2> SUFFICES ASSUME ~log'.refused, NEW j \in Interactions
               PROVE  log'.open[j] = IF interact'[j] \in Asked THEN 1 ELSE 0
    BY DEF Talked, Asked
  <2>1. ~log.refused /\ log.open[j] = IF interact[j] \in Asked THEN 1 ELSE 0
    BY <1>7 DEF IInv, Talked, Asked
  <2>2. CASE j # i
    BY <1>2, <1>7, <2>1, <2>2
  <2>3. CASE j = i
    BY <1>2, <1>7, <2>1, <2>3
  <2> QED  BY <2>2, <2>3
<1> QED  BY <1>4, <1>5, <1>6, <1>8, <1>9, <1>10 DEF IInv

\* InteractionStarted opens the interaction, or it is released unopened.
LEMMA StartInteractionStep ==
    ASSUME IInv, NEW i \in Interactions, NEW o \in Outcomes, NEW c \in BOOLEAN, StartInteraction(i, o, c)
    PROVE  IInv'
<1>1. interact[i] = "reserved" /\ UNCHANGED Around /\ i \in Spans /\ log \in Logs
  BY SpanFacts DEF IInv, Typed, StartInteraction
<1>2. /\ c => Wrote(i, 0)
      /\ ~c => Wrote(i, 1) /\ (~Committed(o) => log'.refused)
  BY <1>1, EmitWrites DEF StartInteraction
<1>3. CASE c
  <2>1. GoesOn(i, "release")
    BY <1>3, GoingOn DEF StartInteraction, Emitted, Talks
  <2> QED  BY <1>1, <1>2, <1>3, <2>1, TalkStep DEF Talks, Asked
<1>4. CASE ~c /\ o = "ok"
  <2>1. GoesOn(i, "asking")
    BY <1>4, GoingOn DEF StartInteraction, Emitted, Talks
  <2> QED  BY <1>1, <1>2, <1>4, <2>1, TalkStep DEF Talks, Asked
<1>5. CASE ~c /\ o = "observer"
  <2>1. GoesOn(i, "failing")
    BY <1>5, GoingOn DEF StartInteraction, Emitted, Talks
  <2> QED  BY <1>1, <1>2, <1>5, <2>1, TalkStep DEF Talks, Asked
<1>6. CASE ~c /\ o = "log"
  <2>1. GoesOn(i, "release") /\ log'.refused
    BY <1>2, <1>6, GoingOn DEF StartInteraction, Emitted, Committed, Talks
  <2> QED  BY <1>1, <1>2, <1>6, <2>1, TalkStep DEF Talks, Asked
<1> QED  BY <1>3, <1>4, <1>5, <1>6 DEF Outcomes

\* The broker's answer or failure leaves the interaction open.
LEMMA AnswerStep ==
    ASSUME IInv, NEW i \in Interactions, NEW failed \in BOOLEAN, Answer(i, failed)
    PROVE  IInv'
<1> DEFINE w == IF failed THEN "failing" ELSE "answered"
<1>1. interact[i] = "asking" /\ UNCHANGED Around /\ interact' = [interact EXCEPT ![i] = w] /\ Wrote(i, 0)
  BY SpanFacts, Untouched DEF IInv, Typed, Answer
<1>2. w \in Talks \ {"idle", "seen"} /\ w \in Asked
  BY DEF Talks, Asked
<1> HIDE DEF w
<1>3. GoesOn(i, w)
  BY <1>1, <1>2, GoingOn
<1>4. Wrote(i, 0) /\ interact[i] = "asking" /\ UNCHANGED Around
  BY <1>1
<1> QED  BY <1>2, <1>3, <1>4, TalkStep DEF Asked

\* InteractionCompleted ends the interaction, or it is left to be failed.
LEMMA CompleteInteractionStep ==
    ASSUME IInv, NEW i \in Interactions, NEW o \in Outcomes, NEW c \in BOOLEAN, CompleteInteraction(i, o, c)
    PROVE  IInv'
<1>1. interact[i] = "answered" /\ UNCHANGED Around /\ i \in Spans /\ log \in Logs
  BY SpanFacts DEF IInv, Typed, CompleteInteraction
<1>2. /\ c => Wrote(i, 0)
      /\ ~c => Wrote(i, -1) /\ (~Committed(o) => log'.refused)
  BY <1>1, EmitWrites DEF CompleteInteraction
<1>3. CASE c
  <2>1. GoesOn(i, "failing")
    BY <1>3, GoingOn DEF CompleteInteraction, Talks
  <2> QED  BY <1>1, <1>2, <1>3, <2>1, TalkStep DEF Talks, Asked
<1>4. CASE ~c /\ Committed(o)
  <2>1. GoesOn(i, "release")
    BY <1>4, GoingOn DEF CompleteInteraction, Talks
  <2> QED  BY <1>1, <1>2, <1>4, <2>1, TalkStep DEF Talks, Asked
<1>5. CASE ~c /\ ~Committed(o)
  <2>1. GoesOn(i, "failing") /\ log'.refused
    BY <1>2, <1>5, GoingOn DEF CompleteInteraction, Talks
  <2> QED  BY <1>1, <1>2, <1>5, <2>1, TalkStep DEF Talks, Asked
<1> QED  BY <1>3, <1>4, <1>5

\* interactionFailure ends the interaction.
LEMMA FailInteractionStep ==
    ASSUME IInv, NEW i \in Interactions, NEW o \in Outcomes, FailInteraction(i, o)
    PROVE  IInv'
<1>1. interact[i] = "failing" /\ UNCHANGED Around /\ GoesOn(i, "release")
      /\ i \in Spans /\ log \in Logs
  BY SpanFacts, GoingOn DEF IInv, Typed, FailInteraction, Talks
<1>2. Wrote(i, -1)
  BY <1>1, PersistWrites DEF FailInteraction
<1> QED  BY <1>1, <1>2, TalkStep DEF Talks, Asked

\* reserveInteraction admits only into a running, hence unfinished, run.
LEMMA ReserveStep ==
    ASSUME IInv, NEW i \in Interactions, Reserve(i)
    PROVE  IInv'
<1> DEFINE active == run.activeInteractions \cup {i}
<1>1. /\ run \in Runs /\ run.status = "running" /\ prep.gate = "activated" /\ interact[i] = "idle"
      /\ UNCHANGED <<exec, prep, engine, log>>
      /\ run' = [run EXCEPT !.activeInteractions = active]
  BY DEF IInv, Typed, Reserve, Handle, Runs
<1>2. active \in SUBSET Interactions
  BY <1>1 DEF Runs
<1>3. active = {j \in Interactions : interact'[j] \notin {"idle", "seen"}} /\ interact' \in [Interactions -> Talks]
      /\ \A j \in Interactions : interact'[j] \in Asked <=> interact[j] \in Asked
  BY <1>1 DEF IInv, Typed, Active, Reserve, Talks, Asked
<1> HIDE DEF active
<1>4. /\ run' \in Runs /\ run'.status = run.status /\ (run'.started <=> run.started)
      /\ run'.localResume = run.localResume /\ run'.released = run.released
      /\ run'.activeInteractions = active /\ (run'.suspendRequested <=> run.suspendRequested)
      /\ (run'.ctxDone <=> run.ctxDone)
  BY <1>1, <1>2 DEF Runs
<1>5. Typed'
  BY <1>1, <1>3, <1>4 DEF IInv, Typed
<1>6. Placed'
  BY <1>1, <1>4 DEF IInv, Placed
<1>7. Stands'
  BY <1>1, <1>4 DEF IInv, Stands, Still
<1>8. Active'
  <2>1. exec.pc \notin Ending
    BY <1>1 DEF IInv, Stands, Kinds
  <2>2. exec.pc # "none"
    BY <1>1 DEF IInv, Placed
  <2> QED  BY <1>1, <1>3, <1>4, <2>1, <2>2 DEF Active, Ending
<1>9. Begun'
  BY <1>1, <1>4 DEF IInv, Begun
<1>10. Spanned'
  BY <1>1 DEF IInv, Spanned
<1>11. Talked'
  BY <1>1, <1>3 DEF IInv, Talked, Asked
<1> QED  BY <1>5, <1>6, <1>7, <1>8, <1>9, <1>10, <1>11 DEF IInv

\* releaseInteraction takes the interaction from the active ones.
LEMMA ReleaseInteractionStep ==
    ASSUME IInv, NEW i \in Interactions, ReleaseInteraction(i)
    PROVE  IInv'
<1> DEFINE active == run.activeInteractions \ {i}
<1>1. /\ run \in Runs /\ interact[i] = "release" /\ UNCHANGED <<exec, prep, engine, log>>
      /\ run' = [run EXCEPT !.activeInteractions = active]
  BY DEF IInv, Typed, ReleaseInteraction, Runs
<1>2. active \in SUBSET Interactions /\ (active # {} => run.activeInteractions # {})
      /\ (run.activeInteractions = {} => active = {})
  BY <1>1 DEF Runs
<1>3. active = {j \in Interactions : interact'[j] \notin {"idle", "seen"}} /\ interact' \in [Interactions -> Talks]
      /\ \A j \in Interactions : interact'[j] \in Asked <=> interact[j] \in Asked
  BY <1>1 DEF IInv, Typed, Active, ReleaseInteraction, Talks, Asked
<1> HIDE DEF active
<1>4. /\ run' \in Runs /\ run'.status = run.status /\ (run'.started <=> run.started)
      /\ run'.localResume = run.localResume /\ run'.released = run.released
      /\ run'.activeInteractions = active /\ (run'.suspendRequested <=> run.suspendRequested)
      /\ (run'.ctxDone <=> run.ctxDone) /\ (run'.resumeSignal <=> run.resumeSignal)
  BY <1>1, <1>2 DEF Runs
<1>5. Typed'
  BY <1>1, <1>3, <1>4 DEF IInv, Typed
<1>6. Placed'
  BY <1>1, <1>4 DEF IInv, Placed
<1>7. Stands'
  BY <1>1, <1>2, <1>4 DEF IInv, Stands
<1>8. Active'
  BY <1>1, <1>2, <1>3, <1>4 DEF IInv, Active
<1>9. Begun'
  BY <1>1, <1>4 DEF IInv, Begun
<1>10. Spanned'
  BY <1>1 DEF IInv, Spanned
<1>11. Talked'
  BY <1>1, <1>3 DEF IInv, Talked, Asked
<1> QED  BY <1>5, <1>6, <1>7, <1>8, <1>9, <1>10, <1>11 DEF IInv

-----------------------------------------------------------------------------
(* The prepared execution and its gate.                                    *)

\* commitPaused registers the run, Commit also passes its gate.
LEMMA CommitStep ==
    ASSUME IInv, NEW now \in BOOLEAN, Commit(now)
    PROVE  IInv'
<1> DEFINE g == IF now THEN "activated" ELSE "ready"
           d == IF now THEN "active" ELSE engine.identity
<1>1. /\ run \in Runs /\ exec \in Execs /\ engine \in Engines /\ prep.execution = "ready"
      /\ UNCHANGED <<run, log, interact>>
      /\ prep' = [execution |-> "committed", gate |-> g]
      /\ engine' = [engine EXCEPT !.active = TRUE, !.identity = d]
      /\ exec' = [exec EXCEPT !.pc = "gate"]
  BY DEF IInv, Typed, Commit, Others, Engines
<1>2. exec.pc = "none" /\ engine.identity = "reserved" /\ run.released = 0 /\ run.activeInteractions = {}
      /\ exec.todo = <<>>
  <2>1. exec.pc = "none"
    BY <1>1 DEF IInv, Placed
  <2>2. engine.identity = "reserved" /\ run.released = 0
    BY <1>1, <2>1 DEF IInv, Placed
  <2> QED  BY <2>1, <2>2 DEF IInv, Active, Typed
<1>3. (g = "activated" /\ d = "active") \/ (g = "ready" /\ d = "reserved")
  <2>1. now => g = "activated" /\ d = "active"
    OBVIOUS
  <2>2. ~now => g = "ready" /\ d = "reserved"
    BY <1>2
  <2> QED  BY <2>1, <2>2
<1> HIDE DEF g, d
<1>4. exec' \in Execs /\ exec'.pc = "gate" /\ exec'.todo = exec.todo /\ exec'.kind = exec.kind
      /\ (exec'.emitRunStart <=> exec.emitRunStart)
  BY <1>1 DEF Execs, Places
<1>5. prep' \in Preps /\ prep'.execution = "committed" /\ prep'.gate = g
  BY <1>1, <1>3 DEF Preps
<1>6. engine' \in Engines /\ engine'.active /\ engine'.identity = d
  BY <1>1, <1>3 DEF Engines
<1>7. Typed'
  BY <1>1, <1>2, <1>4, <1>5, <1>6 DEF IInv, Typed
<1>8. Placed'
  BY <1>1, <1>2, <1>3, <1>4, <1>5, <1>6 DEF Placed
<1>9. Stands'
  BY <1>1, <1>2, <1>4 DEF IInv, Stands, Ending
<1>10. Active'
  BY <1>1, <1>2 DEF IInv, Active
<1>11. Begun'
  BY <1>1, <1>2, <1>4 DEF IInv, Begun
<1>12. Spanned'
  BY <1>1, <1>2, <1>4 DEF IInv, Spanned, Outside, Leaving, Ending
<1>13. Talked'
  BY <1>1 DEF IInv, Talked
<1> QED  BY <1>7, <1>8, <1>9, <1>10, <1>11, <1>12, <1>13 DEF IInv

\* abortLocked gives back the plan lease and the identity.
LEMMA AbortPreparationStep ==
    ASSUME IInv, AbortPreparation
    PROVE  IInv'
<1>1. /\ run \in Runs /\ prep \in Preps /\ engine \in Engines /\ prep.execution = "ready"
      /\ UNCHANGED <<exec, log, interact>>
      /\ prep' = [prep EXCEPT !.execution = "aborted"]
      /\ engine' = [engine EXCEPT !.identity = "none"]
  BY DEF IInv, Typed, AbortPreparation, Others
<1>2. exec.pc = "none" /\ prep.gate = "none" /\ run.released = 0 /\ ~engine.active
  BY <1>1 DEF IInv, Placed
<1>3. run' = [run EXCEPT !.released = 1]
  BY <1>1, <1>2 DEF AbortPreparation, Runs
<1>5. /\ run' \in Runs /\ run'.released = 1 /\ run'.status = run.status /\ (run'.started <=> run.started)
      /\ run'.activeInteractions = run.activeInteractions /\ run'.localResume = run.localResume
      /\ (run'.suspendRequested <=> run.suspendRequested)
  BY <1>1, <1>3 DEF Runs
<1>6. prep' \in Preps /\ prep'.execution = "aborted" /\ prep'.gate = "none"
  BY <1>1, <1>2 DEF Preps
<1>7. engine' \in Engines /\ ~engine'.active /\ engine'.identity = "none"
  BY <1>1, <1>2 DEF Engines
<1>8. Typed'
  BY <1>1, <1>5, <1>6, <1>7 DEF IInv, Typed
<1>9. Placed'
  BY <1>1, <1>2, <1>5, <1>6, <1>7 DEF Placed
<1>10. Stands'
  BY <1>1, <1>2, <1>5 DEF IInv, Stands, Ending
<1>11. Active'
  BY <1>1, <1>2, <1>5 DEF IInv, Active
<1>12. Begun'
  BY <1>1, <1>2, <1>5, <1>6 DEF IInv, Begun
<1>13. Spanned' /\ Talked'
  BY <1>1 DEF IInv, Spanned, Talked
<1> QED  BY <1>8, <1>9, <1>10, <1>11, <1>12, <1>13 DEF IInv

\* Activate makes the identity active.
LEMMA ActivateStep ==
    ASSUME IInv, Activate
    PROVE  IInv'
<1>1. /\ prep \in Preps /\ engine \in Engines /\ prep.gate = "ready" /\ exec.pc = "gate"
      /\ UNCHANGED <<run, exec, log, interact>>
      /\ prep' = [prep EXCEPT !.gate = "activated"]
      /\ engine' = [engine EXCEPT !.identity = "active"]
  BY DEF IInv, Typed, Placed, Activate, Others
<1>2. prep' \in Preps /\ prep'.execution = prep.execution /\ prep'.gate = "activated"
  BY <1>1 DEF Preps
<1>3. engine' \in Engines /\ (engine'.active <=> engine.active) /\ engine'.identity = "active"
  BY <1>1 DEF Engines
<1>4. Typed'
  BY <1>1, <1>2, <1>3 DEF IInv, Typed
<1>5. Placed'
  BY <1>1, <1>2, <1>3 DEF IInv, Placed
<1>6. Active'
  BY <1>1 DEF IInv, Active
<1>7. Begun'
  BY <1>1 DEF IInv, Begun
<1>8. Stands' /\ Spanned' /\ Talked'
  BY <1>1 DEF IInv, Stands, Spanned, Talked
<1> QED  BY <1>4, <1>5, <1>6, <1>7, <1>8 DEF IInv

\* Abort of a paused run only ends its context.
LEMMA AbortPausedStep ==
    ASSUME IInv, AbortPaused
    PROVE  IInv'
<1>1. /\ prep \in Preps /\ run \in Runs /\ prep.gate = "ready" /\ exec.pc = "gate"
      /\ UNCHANGED <<exec, engine, log, interact>>
      /\ prep' = [prep EXCEPT !.gate = "aborted"]
      /\ run' = [run EXCEPT !.ctxDone = TRUE]
  BY DEF IInv, Typed, Placed, AbortPaused, Others
<1>2. prep' \in Preps /\ prep'.execution = prep.execution /\ prep'.gate = "aborted"
  BY <1>1 DEF Preps
<1>3. /\ run' \in Runs /\ run'.released = run.released /\ run'.status = run.status
      /\ (run'.started <=> run.started) /\ run'.activeInteractions = run.activeInteractions
      /\ run'.localResume = run.localResume /\ (run'.suspendRequested <=> run.suspendRequested)
  BY <1>1 DEF Runs
<1>4. Typed'
  BY <1>1, <1>2, <1>3 DEF IInv, Typed
<1>5. Placed'
  BY <1>1, <1>2, <1>3 DEF IInv, Placed
<1>6. Active'
  BY <1>1, <1>3 DEF IInv, Active
<1>7. Begun'
  BY <1>1, <1>2, <1>3 DEF IInv, Begun
<1>8. Stands'
  BY <1>1, <1>3 DEF IInv, Stands, Ending
<1>9. Spanned' /\ Talked'
  BY <1>1 DEF IInv, Spanned, Talked
<1> QED  BY <1>4, <1>5, <1>6, <1>7, <1>8, <1>9 DEF IInv

\* Close and Shutdown mark the engine.
LEMMA StopStep ==
    ASSUME IInv, Stop
    PROVE  IInv'
<1>1. engine \in Engines /\ engine' = [engine EXCEPT !.closed = TRUE]
      /\ UNCHANGED <<run, exec, prep, log, interact>>
  BY DEF IInv, Typed, Stop, Others
<1>2. engine' \in Engines /\ (engine'.active <=> engine.active) /\ engine'.identity = engine.identity
  BY <1>1 DEF Engines
<1>3. Typed' /\ Placed'
  BY <1>1, <1>2 DEF IInv, Typed, Placed
<1>4. Stands' /\ Active' /\ Begun' /\ Spanned' /\ Talked'
  BY <1>1 DEF IInv, Stands, Active, Begun, Spanned, Talked
<1> QED  BY <1>3, <1>4 DEF IInv

\* Retire frees the identity of a finished run only.
LEMMA RetireStep ==
    ASSUME IInv, Retire
    PROVE  IInv'
<1>1. engine \in Engines /\ engine.identity = "tombstone" /\ engine' = [engine EXCEPT !.identity = "none"]
      /\ UNCHANGED <<run, exec, prep, log, interact>>
  BY DEF IInv, Typed, Retire, Others
<1>2. engine' \in Engines /\ (engine'.active <=> engine.active) /\ engine'.identity = "none"
  BY <1>1 DEF Engines
<1>3. exec.pc = "done"
  BY <1>1 DEF IInv, Placed
<1>4. Typed' /\ Placed'
  BY <1>1, <1>2, <1>3 DEF IInv, Typed, Placed
<1>5. Stands' /\ Active' /\ Begun' /\ Spanned' /\ Talked'
  BY <1>1 DEF IInv, Stands, Active, Begun, Spanned, Talked
<1> QED  BY <1>4, <1>5 DEF IInv

\* awaitDecision starts the run, goes on with a resumed one, or finalizes an inert one.
LEMMA DecidedStep ==
    ASSUME IInv, Decided
    PROVE  IInv'
<1> DEFINE to == IF prep.gate = "aborted" THEN "finalize" ELSE IF exec.emitRunStart THEN "start" ELSE "turn"
<1>1. /\ exec \in Execs /\ exec.pc = "gate" /\ exec.todo = <<>> /\ exec' = [exec EXCEPT !.pc = to]
      /\ UNCHANGED <<run, prep, engine, log, interact>>
  BY DEF IInv, Typed, Decided, Others
<1>2. prep.gate \in {"activated", "aborted"}
  <2>1. prep.gate \in {"none", "ready", "activated", "aborted"}
    BY DEF IInv, Typed, Preps
  <2> QED  BY <1>1, <2>1 DEF IInv, Placed, Decided
<1>3. /\ to \in {"finalize", "start", "turn"} /\ (to = "finalize" <=> prep.gate = "aborted")
      /\ (to = "start" => exec.emitRunStart) /\ (to = "turn" => ~exec.emitRunStart)
  BY <1>2
<1> HIDE DEF to
<1>4. exec' \in Execs /\ exec'.pc = to /\ exec'.todo = <<>> /\ exec'.kind = exec.kind
  BY <1>1, <1>3 DEF Execs, Places, Working
<1>5. Typed'
  BY <1>1, <1>3, <1>4 DEF IInv, Typed
<1>6. Placed'
  BY <1>1, <1>2, <1>3, <1>4 DEF IInv, Placed
<1>7. Stands'
  BY <1>1, <1>3, <1>4 DEF IInv, Stands, Ending
<1>8. Active'
  BY <1>1, <1>3, <1>4 DEF IInv, Active
<1>9. Begun'
  BY <1>1, <1>2, <1>3, <1>4 DEF IInv, Begun
<1>10. Spanned'
  BY <1>1, <1>3, <1>4, TodoFacts DEF IInv, Spanned, Outside, Leaving, Ending
<1>11. Talked'
  BY <1>1 DEF IInv, Talked
<1> QED  BY <1>5, <1>6, <1>7, <1>8, <1>9, <1>10, <1>11 DEF IInv

\* lifecycleStart opens the run.
LEMMA StartRunStep ==
    ASSUME IInv, NEW o \in Outcomes, StartRun(o)
    PROVE  IInv'
<1> DEFINE st == IF Committed(o) THEN "running" ELSE run.status
<1>1. /\ run \in Runs /\ exec \in Execs /\ exec.pc = "start" /\ exec.todo = <<>>
      /\ run' = [run EXCEPT !.started = Committed(o), !.status = st]
      /\ UNCHANGED <<prep, engine, interact>>
  BY DEF IInv, Typed, StartRun, Others, Runs
<1>2. /\ run.status \notin Still /\ run.localResume = None /\ ~run.started /\ ~log.terminal
      /\ run.status # "completed"
  BY <1>1 DEF IInv, Stands, Begun, Still
<1>3. Committed(o) \in BOOLEAN /\ st \in Statuses /\ st \notin Still /\ st # "completed"
  BY <1>1, <1>2 DEF Committed, Runs, Statuses, Still
<1>4. Wrote("run", 1) /\ (~Committed(o) => log'.refused)
  <2>1. log \in Logs /\ "run" \in Spans
    BY SpanFacts DEF IInv, Typed
  <2> QED  BY <2>1, PersistWrites DEF StartRun
<1> DEFINE c == Committed(o)
<1> HIDE DEF st, c
<1>5. /\ run' \in Runs /\ (run'.started <=> c) /\ run'.status = st
      /\ run'.released = run.released /\ run'.activeInteractions = run.activeInteractions
      /\ run'.localResume = run.localResume
  <2>1. c \in BOOLEAN /\ run' = [run EXCEPT !.started = c, !.status = st]
    BY <1>1, <1>3 DEF c
  <2> QED  BY <1>1, <1>3, <2>1 DEF Runs
<1>6. /\ exec' \in Execs /\ exec'.todo = <<>> /\ exec'.pc \in {"turn", "finalize"}
      /\ (exec'.pc = "turn" => o = "ok") /\ (exec'.pc = "finalize" => exec'.kind # "completed")
  <2>1. CASE o = "ok"
    <3>1. exec' = [exec EXCEPT !.pc = "turn"]
      BY <2>1 DEF StartRun
    <3> QED  BY <1>1, <2>1, <3>1 DEF Execs, Places, Working
  <2>2. CASE o # "ok"
    <3>1. exec' = [exec EXCEPT !.pc = "finalize", !.kind = "failed"]
      BY <2>2 DEF StartRun
    <3> QED  BY <1>1, <3>1 DEF Execs, Places, Kinds
  <2> QED  BY <2>1, <2>2
<1>7. Typed'
  BY <1>1, <1>4, <1>5, <1>6 DEF IInv, Typed, Wrote
<1>8. Placed'
  BY <1>1, <1>5, <1>6 DEF IInv, Placed
<1>9. Stands'
  BY <1>2, <1>3, <1>5, <1>6 DEF Stands, Still, Ending
<1>10. Active'
  BY <1>1, <1>5, <1>6 DEF IInv, Active
<1>11. Begun'
  <2>1. ~log'.refused => c /\ ~log.refused /\ log'.open["run"] = log.open["run"] + 1
    BY <1>4 DEF Wrote, c
  <2>2. ~log.refused => log.open["run"] = 0
    BY <1>2 DEF IInv, Begun
  <2>3. ~log'.terminal
    BY <1>2, <1>4 DEF Wrote
  <2>4. ~log'.refused => log'.open["run"] = 1
    BY <2>1, <2>2
  <2> QED  BY <1>3, <1>5, <1>6, <2>1, <2>3, <2>4 DEF Begun
<1>12. Spanned'
  <2>1. {"turn", "model", "tool"} \subseteq Spans \ {"run"}
    BY SpanFacts
  <2>2. ~log.refused => log.open["turn"] = 0 /\ log.open["model"] = 0 /\ log.open["tool"] = 0
    BY <1>1, TodoFacts DEF IInv, Spanned, Outside
  <2>3. ~log'.refused => log'.open["turn"] = 0 /\ log'.open["model"] = 0 /\ log'.open["tool"] = 0
    BY <1>4, <2>1, <2>2 DEF Wrote
  <2> QED  BY <1>6, <2>3, TodoFacts DEF Spanned, Outside, Leaving, Ending
<1>13. Talked'
  <2>1. \A i \in Interactions : i \in Spans \ {"run"}
    BY SpanFacts
  <2>2. ~log'.refused => ~log.refused /\ \A i \in Interactions : log'.open[i] = log.open[i]
    BY <1>4, <2>1 DEF Wrote
  <2> QED  BY <1>1, <2>2 DEF IInv, Talked
<1> QED  BY <1>7, <1>8, <1>9, <1>10, <1>11, <1>12, <1>13 DEF IInv

-----------------------------------------------------------------------------
(* Finalization.                                                           *)

\* beginFinalization ends requests and the context.
LEMMA BeginFinalizationStep ==
    ASSUME IInv, BeginFinalization
    PROVE  IInv'
<1>1. /\ run \in Runs /\ exec \in Execs /\ exec.pc = "finalize" /\ exec.todo = <<>>
      /\ run' = [run EXCEPT !.status = "finishing", !.suspendRequested = FALSE,
                            !.suspendWaiter = None, !.ctxDone = TRUE]
      /\ exec' = [exec EXCEPT !.pc = "drain"]
      /\ UNCHANGED <<prep, engine, log, interact>>
  BY DEF IInv, Typed, BeginFinalization
<1>2. run.localResume = None
  BY <1>1 DEF IInv, Stands, Still
<1>3. /\ run' \in Runs /\ run'.status = "finishing" /\ ~run'.suspendRequested
      /\ (run'.started <=> run.started) /\ run'.released = run.released
      /\ run'.activeInteractions = run.activeInteractions /\ run'.localResume = None
  BY <1>1, <1>2 DEF Runs, Statuses
<1>4. exec' \in Execs /\ exec'.pc = "drain" /\ exec'.todo = <<>> /\ exec'.kind = exec.kind
  BY <1>1 DEF Execs, Places, Ending
<1>5. Typed'
  BY <1>1, <1>3, <1>4 DEF IInv, Typed
<1>6. Placed'
  BY <1>1, <1>3, <1>4 DEF IInv, Placed
<1>7. Stands'
  BY <1>3, <1>4 DEF Stands, Still
<1>8. Active'
  BY <1>1, <1>3, <1>4 DEF IInv, Active
<1>9. Begun'
  BY <1>1, <1>3, <1>4 DEF IInv, Begun
<1>10. Spanned'
  BY <1>1, <1>4, TodoFacts DEF IInv, Spanned, Outside, Leaving, Ending
<1>11. Talked'
  BY <1>1 DEF IInv, Talked
<1> QED  BY <1>5, <1>6, <1>7, <1>8, <1>9, <1>10, <1>11 DEF IInv

\* The plan lease is released once the interactions have drained.
LEMMA ReleaseStep ==
    ASSUME IInv, NEW failed \in BOOLEAN, Release(failed)
    PROVE  IInv'
<1>1. /\ run \in Runs /\ exec \in Execs /\ exec.pc = "drain" /\ exec.todo = <<>>
      /\ run.activeInteractions = {} /\ UNCHANGED <<prep, engine, log, interact>>
  BY DEF IInv, Typed, Release, Drained, Others
<1>2. /\ run.released = 0 /\ prep.execution = "committed"
      /\ prep.gate = "activated" \/ prep.gate = "aborted"
  <2>1. prep.gate \in {"none", "ready", "activated", "aborted"}
    BY DEF IInv, Typed, Preps
  <2> QED  BY <1>1, <2>1 DEF IInv, Placed
<1>3. run' = [run EXCEPT !.released = 1]
  BY <1>1, <1>2 DEF Release, Runs
<1>4. /\ run' \in Runs /\ run'.released = 1 /\ run'.status = run.status /\ (run'.started <=> run.started)
      /\ run'.activeInteractions = {} /\ run'.localResume = run.localResume
      /\ (run'.suspendRequested <=> run.suspendRequested)
  BY <1>1, <1>3 DEF Runs
<1>5. /\ exec' \in Execs /\ exec'.todo = <<>> /\ (exec'.kind = "completed" => exec.kind = "completed")
      /\ (prep.gate = "aborted" => exec'.pc = "complete") /\ (prep.gate = "activated" => exec'.pc = "terminal")
  <2>1. CASE prep.gate = "aborted"
    <3>1. exec' = [exec EXCEPT !.pc = "complete"]
      BY <2>1 DEF Release
    <3> QED  BY <1>1, <2>1, <3>1 DEF Execs, Places, Ending
  <2>2. CASE prep.gate = "activated"
    <3> DEFINE k == IF failed THEN "failed" ELSE exec.kind
    <3>1. exec' = [exec EXCEPT !.pc = "terminal", !.kind = k]
      BY <1>1, <2>2 DEF Release, Execs
    <3>2. k \in Kinds /\ (k = "completed" => exec.kind = "completed")
      BY <1>1 DEF Execs, Kinds
    <3> HIDE DEF k
    <3> QED  BY <1>1, <2>2, <3>1, <3>2 DEF Execs, Places, Ending
  <2> QED  BY <1>2, <2>1, <2>2
<1>6. exec'.pc \in {"complete", "terminal"}
  BY <1>2, <1>5
<1>7. Typed'
  BY <1>1, <1>4, <1>5, <1>6 DEF IInv, Typed
<1>8. Placed'
  BY <1>1, <1>2, <1>4, <1>5, <1>6 DEF IInv, Placed
<1>9. Stands'
  BY <1>1, <1>4, <1>6 DEF IInv, Stands, Ending
<1>10. Active'
  BY <1>1, <1>4 DEF IInv, Active
<1>11. Begun'
  BY <1>1, <1>2, <1>4, <1>5, <1>6 DEF IInv, Begun
<1>12. Spanned'
  BY <1>1, <1>5, <1>6, TodoFacts DEF IInv, Spanned, Outside, Leaving, Ending
<1>13. Talked'
  BY <1>1 DEF IInv, Talked
<1> QED  BY <1>7, <1>8, <1>9, <1>10, <1>11, <1>12, <1>13 DEF IInv

\* The terminal event ends the run and fixes its status.
LEMMA TerminalStep ==
    ASSUME IInv, NEW o \in Outcomes, Terminal(o)
    PROVE  IInv'
<1> DEFINE st == IF Committed(o) THEN exec.kind ELSE run.status
<1>1. /\ run \in Runs /\ exec \in Execs /\ exec.pc = "terminal" /\ exec.todo = <<>>
      /\ run' = [run EXCEPT !.status = st] /\ exec' = [exec EXCEPT !.pc = "complete"]
      /\ UNCHANGED <<prep, engine, interact>>
  BY DEF IInv, Typed, Terminal, Others, Runs
<1>2. /\ run.status \in Kinds \cup {"finishing"} /\ ~run.suspendRequested /\ ~log.terminal
      /\ run.status # "completed" /\ prep.gate = "activated" /\ (~log.refused => run.started)
  <2>1. prep.gate \in {"none", "ready", "activated", "aborted"}
    BY DEF IInv, Typed, Preps
  <2>2. prep.gate = "activated"
    BY <1>1, <2>1 DEF IInv, Placed
  <2> QED  BY <1>1, <2>2 DEF IInv, Stands, Begun, Ending
<1>3. /\ st \in Kinds \cup {"finishing"} /\ st \in Statuses /\ st \notin Still
      /\ (st = "completed" => exec.kind = "completed")
  BY <1>1, <1>2 DEF Execs, Kinds, Statuses, Still
<1>4. run.localResume = None
  BY <1>1 DEF IInv, Stands, Still
<1> HIDE DEF st
<1>5. /\ run' \in Runs /\ run'.status = st /\ run'.released = run.released /\ (run'.started <=> run.started)
      /\ run'.activeInteractions = run.activeInteractions /\ run'.localResume = None
      /\ ~run'.suspendRequested
  BY <1>1, <1>2, <1>3, <1>4 DEF Runs
<1>6. exec' \in Execs /\ exec'.pc = "complete" /\ exec'.todo = <<>> /\ exec'.kind = exec.kind
  BY <1>1 DEF Execs, Places, Ending
<1>7. /\ log' \in Logs /\ (log.refused => log'.refused)
      /\ ~log'.refused => /\ log'.terminal /\ log'.open["run"] = log.open["run"] - 1
                          /\ \A y \in Spans \ {"run"} : log'.open[y] = log.open[y]
  <2>0. log \in Logs /\ "run" \in Spans
    BY SpanFacts DEF IInv, Typed
  <2>1. CASE Committed(o)
    <3> DEFINE opened == [log.open EXCEPT !["run"] = log.open["run"] - 1]
               next == log.sequence + 1
    <3>1. opened \in [Spans -> Int] /\ opened["run"] = log.open["run"] - 1
          /\ \A y \in Spans \ {"run"} : opened[y] = log.open[y]
      BY <2>0 DEF Logs
    <3>2. next \in Nat /\ log' = [log EXCEPT !.sequence = next, !.open = opened, !.terminal = TRUE]
      BY <2>0, <2>1 DEF Terminal, Logs
    <3> HIDE DEF opened, next
    <3>3. log' \in Logs /\ log'.terminal /\ (log.refused <=> log'.refused) /\ log'.open = opened
      BY <2>0, <3>1, <3>2 DEF Logs
    <3> QED  BY <3>1, <3>3
  <2>2. CASE ~Committed(o)
    <3>1. log' = [log EXCEPT !.refused = TRUE]
      BY <2>2 DEF Terminal
    <3> QED  BY <2>0, <3>1 DEF Logs
  <2> QED  BY <2>1, <2>2
<1>8. Typed'
  BY <1>1, <1>5, <1>6, <1>7 DEF IInv, Typed
<1>9. Placed'
  BY <1>1, <1>5, <1>6 DEF IInv, Placed
<1>10. Stands'
  BY <1>3, <1>5, <1>6 DEF Stands, Still
<1>11. Active'
  <2>1. run.activeInteractions = {}
    BY <1>1 DEF IInv, Active
  <2> QED  BY <1>1, <1>5, <2>1 DEF IInv, Active
<1>12. Begun'
  <2>1. ~log.refused => log.open["run"] = 1
    BY <1>2 DEF IInv, Begun
  <2>2. ~log'.refused => log'.open["run"] = 0
    BY <1>7, <2>1
  <2> QED  BY <1>1, <1>2, <1>3, <1>5, <1>6, <1>7, <2>2 DEF Begun
<1>13. Spanned'
  <2>1. {"turn", "model", "tool"} \subseteq Spans \ {"run"}
    BY SpanFacts
  <2>2. ~log'.refused => ~log.refused /\ log'.open["turn"] = log.open["turn"]
           /\ log'.open["model"] = log.open["model"] /\ log'.open["tool"] = log.open["tool"]
    BY <1>7, <2>1
  <2> QED  BY <1>1, <1>6, <2>2, TodoFacts DEF IInv, Spanned, Outside, Leaving, Ending
<1>14. Talked'
  <2>1. \A i \in Interactions : i \in Spans \ {"run"}
    BY SpanFacts
  <2>2. ~log'.refused => ~log.refused /\ \A i \in Interactions : log'.open[i] = log.open[i]
    BY <1>7, <2>1
  <2> QED  BY <1>1, <2>2 DEF IInv, Talked
<1> QED  BY <1>8, <1>9, <1>10, <1>11, <1>12, <1>13, <1>14 DEF IInv

\* complete takes the run from the engine; an inert run leaves no tombstone.
LEMMA CompleteStep ==
    ASSUME IInv, Complete
    PROVE  IInv'
<1> DEFINE d == IF prep.gate = "aborted" THEN "none" ELSE "tombstone"
<1>1. /\ exec \in Execs /\ engine \in Engines /\ exec.pc = "complete" /\ exec.todo = <<>>
      /\ exec' = [exec EXCEPT !.pc = "done"] /\ engine' = [engine EXCEPT !.active = FALSE, !.identity = d]
      /\ UNCHANGED <<run, prep, log, interact>>
  BY DEF IInv, Typed, Complete, Others
<1>2. d = "none" \/ (d = "tombstone" /\ prep.gate = "activated")
  <2>1. prep.gate \in {"none", "ready", "activated", "aborted"}
    BY DEF IInv, Typed, Preps
  <2>2. prep.gate \in {"activated", "aborted"}
    BY <1>1, <2>1 DEF IInv, Placed
  <2> QED  BY <2>2
<1> HIDE DEF d
<1>3. exec' \in Execs /\ exec'.pc = "done" /\ exec'.todo = <<>> /\ exec'.kind = exec.kind
  BY <1>1 DEF Execs, Places, Ending
<1>4. engine' \in Engines /\ ~engine'.active /\ engine'.identity = d
  BY <1>1, <1>2 DEF Engines
<1>5. Typed'
  BY <1>1, <1>3, <1>4 DEF IInv, Typed
<1>6. Placed'
  BY <1>1, <1>2, <1>3, <1>4 DEF IInv, Placed
<1>7. Stands'
  BY <1>1, <1>3 DEF IInv, Stands, Ending
<1>8. Active'
  BY <1>1, <1>3 DEF IInv, Active
<1>9. Begun'
  BY <1>1, <1>3 DEF IInv, Begun
<1>10. Spanned'
  BY <1>1, <1>3, TodoFacts DEF IInv, Spanned, Outside, Leaving, Ending
<1>11. Talked'
  BY <1>1 DEF IInv, Talked
<1> QED  BY <1>5, <1>6, <1>7, <1>8, <1>9, <1>10, <1>11 DEF IInv

-----------------------------------------------------------------------------
(* The invariance of IInv.                                                 *)

\* A prepared start, and a prepared resume whose run is open in its log.
LEMMA Initially ==
    ASSUME Init
    PROVE  IInv
<1>1. /\ exec \in Execs /\ exec.pc = "none" /\ exec.todo = <<>> /\ exec.kind = "failed"
      /\ exec.emitRunStart \in BOOLEAN
  <2>1. PICK e \in BOOLEAN : exec = [pc |-> "none", emitRunStart |-> e, turn |-> 1, calls |-> 0, final |-> FALSE,
                                     todo |-> <<>>, kind |-> "failed"]
    BY DEF Init
  <2>2. 1 \in 1 .. MaxTurns /\ 0 \in 0 .. MaxCalls /\ <<>> \in Todos
    BY TurnsAssumption DEF Todos
  <2> QED  BY <2>1, <2>2 DEF Execs, Places, Kinds
<1> DEFINE st == IF exec.emitRunStart THEN "" ELSE "running"
           open == [x \in Spans |-> IF x = "run" /\ ~exec.emitRunStart THEN 1 ELSE 0]
           begun == ~exec.emitRunStart
<1>2. st \in {"", "running"} /\ begun \in BOOLEAN /\ (begun <=> ~exec.emitRunStart) /\ 0 \in 0 .. MaxTurns
  BY TurnsAssumption
<1>3. /\ open \in [Spans -> Int] /\ open["run"] = IF exec.emitRunStart THEN 0 ELSE 1
      /\ open["turn"] = 0 /\ open["model"] = 0 /\ open["tool"] = 0 /\ \A i \in Interactions : open[i] = 0
  <2>1. open \in [Spans -> Int] /\ \A x \in Spans \ {"run"} : open[x] = 0
    OBVIOUS
  <2>2. open["run"] = IF exec.emitRunStart THEN 0 ELSE 1
    BY SpanFacts
  <2>3. {"turn", "model", "tool"} \subseteq Spans \ {"run"} /\ Interactions \subseteq Spans \ {"run"}
    BY SpanFacts
  <2> HIDE DEF open
  <2> QED  BY <2>1, <2>2, <2>3
<1>4. /\ run = [status |-> st, started |-> begun,
              suspendRequested |-> FALSE, suspendWaiter |-> None, resumeSignal |-> FALSE,
              localResume |-> None, activeInteractions |-> {}, completedTurns |-> 0,
              ctxDone |-> FALSE, released |-> 0]
      /\ log = [sequence |-> 0, terminal |-> FALSE, refused |-> FALSE, open |-> open]
      /\ prep = [execution |-> "ready", gate |-> "none"]
      /\ engine = [closed |-> FALSE, active |-> FALSE, identity |-> "reserved"]
      /\ interact = [i \in Interactions |-> "idle"]
  BY DEF Init
<1> HIDE DEF st, open, begun
<1>5. /\ run \in Runs /\ run.status = st /\ (run.started <=> ~exec.emitRunStart) /\ ~run.suspendRequested
      /\ run.localResume = None /\ run.activeInteractions = {} /\ run.released = 0
  <2>1. run = [status |-> st, started |-> begun,
              suspendRequested |-> FALSE, suspendWaiter |-> None, resumeSignal |-> FALSE,
              localResume |-> None, activeInteractions |-> {}, completedTurns |-> 0,
              ctxDone |-> FALSE, released |-> 0]
    BY <1>4
  <2>2. {"", "running"} \subseteq Statuses
    BY Zenon DEF Statuses
  <2>3. run \in Runs
    <3>1. st \in Statuses
      BY <1>2, <2>2, Zenon
    <3>2. begun \in BOOLEAN /\ 0 \in 0 .. MaxTurns
      BY <1>2
    <3>3. /\ None \in Suspenders \cup {None} /\ None \in Resumers \cup {None}
          /\ {} \in SUBSET Interactions /\ FALSE \in BOOLEAN
      BY Zenon
    <3>4. 0 \in 0 .. 1
      OBVIOUS
    <3> QED  BY <2>1, <3>1, <3>2, <3>3, <3>4, Zenon DEF Runs
  <2>4. run.status = st /\ run.started = begun /\ run.suspendRequested = FALSE /\ run.localResume = None
        /\ run.activeInteractions = {} /\ run.released = 0
    BY <2>1
  <2> QED  BY <1>2, <2>3, <2>4
<1>6. log \in Logs /\ ~log.terminal /\ log.open = open
  BY <1>3, <1>4 DEF Logs
<1>7. /\ prep \in Preps /\ prep.execution = "ready" /\ prep.gate = "none"
      /\ engine \in Engines /\ ~engine.active /\ engine.identity = "reserved"
  BY <1>4 DEF Preps, Engines
<1>8. interact \in [Interactions -> Talks] /\ \A i \in Interactions : interact[i] = "idle"
  BY <1>4 DEF Talks
<1>9. Typed
  BY <1>1, <1>5, <1>6, <1>7, <1>8 DEF Typed
<1>10. Placed
  BY <1>1, <1>5, <1>7 DEF Placed
<1>11. Stands
  BY <1>1, <1>2, <1>5 DEF Stands, Still, Ending
<1>12. Active
  BY <1>5, <1>8 DEF Active
<1>13. Begun
  BY <1>1, <1>2, <1>3, <1>5, <1>6, <1>7 DEF Begun
<1>14. Spanned
  BY <1>1, <1>3, <1>6, TodoFacts DEF Spanned, Outside, Leaving, Ending
<1>15. Talked
  BY <1>3, <1>6, <1>8 DEF Talked
<1> QED  BY <1>9, <1>10, <1>11, <1>12, <1>13, <1>14, <1>15 DEF IInv

\* The goroutine of the run.
LEMMA ExecuteStep ==
    ASSUME IInv, Execute
    PROVE  IInv'
<1>1. CASE Decided \/ RefuseRequest \/ StreamFails \/ RefuseTool
  BY <1>1, DecidedStep, RefuseRequestStep, StreamFailsStep, RefuseToolStep
<1>2. ASSUME NEW o \in Outcomes, StartRun(o) \/ StartTurn(o) \/ StartModel(o) \/ CompleteModel(o)
      PROVE  IInv'
  BY <1>2, StartRunStep, StartTurnStep, StartModelStep, CompleteModelStep
<1>3. ASSUME NEW o \in Outcomes, CompleteTool(o) \/ CompleteTurn(o) \/ Fail(o) \/ Terminal(o)
      PROVE  IInv'
  BY <1>3, CompleteToolStep, CompleteTurnStep, FailStep, TerminalStep
<1>4. ASSUME NEW o \in Outcomes, NEW declared \in BOOLEAN, StartTool(o, declared)
      PROVE  IInv'
  BY <1>4, StartToolStep
<1>5. ASSUME NEW n \in 0 .. MaxCalls, StreamEnds(n)
      PROVE  IInv'
  BY <1>5, StreamEndsStep
<1>6. ASSUME NEW failed \in BOOLEAN, Dispatch(failed) \/ Release(failed)
      PROVE  IInv'
  BY <1>6, DispatchStep, ReleaseStep
<1>7. CASE PassBoundary \/ RefuseSuspend \/ Park \/ Unpark \/ ParkedCancel \/ Unlatch
  BY <1>7, PassBoundaryStep, RefuseSuspendStep, ParkStep, UnparkStep, ParkedCancelStep, UnlatchStep
<1>8. CASE BeginFinalization \/ Complete
  BY <1>8, BeginFinalizationStep, CompleteStep
<1> QED  BY <1>1, <1>2, <1>3, <1>4, <1>5, <1>6, <1>7, <1>8 DEF Execute

\* A goroutine inside Interact.
LEMMA InteractingStep ==
    ASSUME IInv, NEW i \in Interactions, Interacting(i)
    PROVE  IInv'
  BY StartInteractionStep, CompleteInteractionStep, FailInteractionStep, AnswerStep, ReleaseInteractionStep
     DEF Interacting

\* Every step of the run, of its callers and of its interactions preserves IInv.
LEMMA Steps ==
    ASSUME IInv, [Next]_vars
    PROVE  IInv'
<1>1. CASE \E now \in BOOLEAN : Commit(now)
  BY <1>1, CommitStep
<1>2. CASE AbortPreparation \/ Activate \/ AbortPaused \/ Cancel \/ Stop \/ Retire
  BY <1>2, AbortPreparationStep, ActivateStep, AbortPausedStep, CancelStep, StopStep, RetireStep
<1>3. CASE Execute
  BY <1>3, ExecuteStep
<1>4. CASE \E s \in Suspenders : Suspend(s) \/ SuspendReturns(s) \/ SuspendCancelled(s)
  BY <1>4, SuspendStep, SuspendReturnsStep, SuspendCancelledStep
<1>5. CASE \E p \in Resumers : PrepareLocalResume(p) \/ CommitLocalResume(p) \/ AbortLocalResume(p)
  BY <1>5, PrepareLocalResumeStep, CommitLocalResumeStep, AbortLocalResumeStep
<1>6. CASE \E i \in Interactions : Reserve(i) \/ Interacting(i)
  BY <1>6, ReserveStep, InteractingStep
<1>7. CASE UNCHANGED vars
  <2>1. UNCHANGED <<run, exec, prep, engine, log, interact>>
    BY <1>7 DEF vars
  <2>2. Typed' /\ Placed' /\ Stands' /\ Active'
    BY <2>1 DEF IInv, Typed, Placed, Stands, Active
  <2>3. Begun' /\ Spanned' /\ Talked'
    BY <2>1 DEF IInv, Begun, Spanned, Talked
  <2> QED  BY <2>2, <2>3 DEF IInv
<1> QED  BY <1>1, <1>2, <1>3, <1>4, <1>5, <1>6, <1>7 DEF Next

\* IInv holds throughout.
LEMMA Invariance == Spec => []IInv
<1>1. Init => IInv
  BY Initially
<1>2. IInv /\ [Next]_vars => IInv'
  BY Steps
<1> QED  BY <1>1, <1>2, PTL DEF Spec

\* IInv says what RunIsAccounted says.
LEMMA Accounts ==
    ASSUME IInv
    PROVE  RunIsAccounted
<1>1. run \in Runs /\ exec \in Execs /\ log \in Logs
  BY DEF IInv, Typed
<1>2. ASSUME ~log.refused
      PROVE  /\ log.open["run"] \in 0 .. 1 /\ log.open["turn"] \in 0 .. 1 /\ log.open["model"] \in 0 .. 1
             /\ log.open["tool"] \in 0 .. 1 /\ \A i \in Interactions : log.open[i] \in 0 .. 1
  <2>1. log.open["run"] \in 0 .. 1
    BY <1>2 DEF IInv, Begun
  <2>2. log.open["turn"] \in 0 .. 1 /\ log.open["model"] \in 0 .. 1
    BY <1>2, Zenon DEF IInv, Spanned
  <2>3. log.open["tool"] \in 0 .. 1
    BY <1>2 DEF IInv, Spanned
  <2>4. ASSUME NEW i \in Interactions  PROVE  log.open[i] \in 0 .. 1
    <3>1. log.open[i] = IF interact[i] \in {"asking", "answered", "failing"} THEN 1 ELSE 0
      BY <1>2, Zenon DEF IInv, Talked
    <3> QED  BY <3>1
  <2> QED  BY <2>1, <2>2, <2>3, <2>4, Zenon
<1>3. TypeOK
  <2>1. ~log.refused => log.open \in [Spans -> 0 .. 1]
    BY <1>1, <1>2 DEF Logs, Spans
  <2> QED  BY <1>1, <2>1 DEF TypeOK, Runs, Execs, Statuses
<1>4. SuspendedIsParked
  BY DEF IInv, Stands, Still, SuspendedIsParked
<1>5. ResourcesFollowRun
  <2>1. ASSUME exec.pc \in Working \/ run.activeInteractions # {}
        PROVE  run.released = 0 /\ engine.identity = "active" /\ engine.active
    <3>1. prep.gate \in {"none", "ready", "activated", "aborted"}
      BY DEF IInv, Typed, Preps
    <3>2. prep.gate = "activated" /\ exec.pc \notin {"none", "terminal", "complete", "done"}
      BY <2>1, <3>1 DEF IInv, Placed, Active, Working
    <3> QED  BY <3>2 DEF IInv, Placed
  <2>2. ASSUME exec.pc = "done" \/ prep.execution = "aborted"
        PROVE  /\ run.released = 1 /\ ~engine.active
               /\ engine.identity = "none" \/ (engine.identity = "tombstone" /\ Handle)
    <3>1. exec.pc \in {"none", "done"}
      BY <2>2 DEF IInv, Placed
    <3> QED  BY <2>2, <3>1 DEF IInv, Placed, Handle
  <2> QED  BY <2>1, <2>2 DEF ResourcesFollowRun
<1>6. EndedUnlessCutShort
  <2> SUFFICES ASSUME exec.pc = "done", Handle, ~log.refused, NEW x \in Spans, log.open[x] # 0
               PROVE  x \in {"turn", "model"} /\ run.status # "completed"
    BY DEF EndedUnlessCutShort
  <2>1. log.open["run"] = 0
    BY DEF IInv, Begun, Handle
  <2>2. exec.todo = <<>> /\ log.open["tool"] = 0
    BY TodoFacts DEF IInv, Typed, Spanned
  <2>3. \A i \in Interactions : log.open[i] = 0
    <3>1. run.activeInteractions = {}
      BY DEF IInv, Active
    <3>2. \A i \in Interactions : interact[i] \in {"idle", "seen"}
      BY <3>1 DEF IInv, Active
    <3> QED  BY <3>2 DEF IInv, Talked
  <2>4. x \in {"turn", "model"}
    BY <2>1, <2>2, <2>3 DEF Spans
  <2>5. run.status = "completed" => log.open["turn"] = 0 /\ log.open["model"] = 0
    BY DEF IInv, Begun, Spanned, Leaving, Ending
  <2> QED  BY <2>4, <2>5
<1> QED  BY <1>3, <1>4, <1>5, <1>6 DEF RunIsAccounted

\* For any number of turns, tool calls, callers of Suspend and of local resume, and interactions:
\* a suspended run stands at its boundary with no active interaction, what executes holds the plan
\* lease, an active identity and its place in the engine and a finished run gives the three back,
\* the lease once; and every start of a run, a tool or an interaction gets one terminal, and of a
\* completed run every turn and model operation too, unless the log refuses an event (executeState,
\* suspendAtBoundary, finalize and Interact of agent.go, local_resume.go, prepared_execution.go).
THEOREM RunsAreAccounted == Spec => []RunIsAccounted
<1>1. IInv => RunIsAccounted
  BY Accounts
<1> QED  BY <1>1, Invariance, PTL

\* The goroutine is where it appends nothing, and nobody is inside Interact.
LEMMA Settled ==
    ASSUME IInv, log.terminal \/ prep.gate = "aborted" \/ run.status \in Still
    PROVE  /\ exec.pc \in {"gate", "parked", "latched", "finalize", "drain", "complete", "done"}
           /\ \A i \in Interactions : interact[i] \in {"idle", "seen"}
<1>1. run.activeInteractions = {} => \A i \in Interactions : interact[i] \in {"idle", "seen"}
  BY DEF IInv, Active
<1>2. CASE log.terminal
  <2>1. exec.pc \in {"complete", "done"}
    BY <1>2 DEF IInv, Begun
  <2> QED  BY <1>1, <2>1 DEF IInv, Active
<1>3. CASE prep.gate = "aborted"
  BY <1>1, <1>3 DEF IInv, Placed, Active
<1>4. CASE run.status \in Still
  BY <1>1, <1>4 DEF IInv, Stands
<1> QED  BY <1>2, <1>3, <1>4

\* From there no step appends.
LEMMA Quiet ==
    ASSUME Next,
           exec.pc \in {"gate", "parked", "latched", "finalize", "drain", "complete", "done"},
           \A i \in Interactions : interact[i] \in {"idle", "seen"}
    PROVE  UNCHANGED log
<1>1. CASE Execute
  <2>1. CASE Decided \/ RefuseRequest \/ StreamFails \/ RefuseTool
    BY <2>1 DEF Decided, RefuseRequest, StreamFails, RefuseTool
  <2>2. ASSUME NEW o \in Outcomes, NEW declared \in BOOLEAN,
               \/ StartRun(o) \/ StartTurn(o) \/ StartModel(o) \/ CompleteModel(o) \/ CompleteTool(o)
               \/ CompleteTurn(o) \/ Fail(o) \/ Terminal(o) \/ StartTool(o, declared)
        PROVE  FALSE
    BY <2>2 DEF StartRun, StartTurn, StartModel, CompleteModel, CompleteTool, CompleteTurn, Fail, Terminal,
                StartTool
  <2>3. ASSUME NEW n \in 0 .. MaxCalls, StreamEnds(n)
        PROVE  UNCHANGED log
    BY <2>3 DEF StreamEnds
  <2>4. ASSUME NEW failed \in BOOLEAN, Dispatch(failed) \/ Release(failed)
        PROVE  UNCHANGED log
    BY <2>4 DEF Dispatch, Release
  <2>5. CASE PassBoundary \/ RefuseSuspend \/ Park \/ Unpark \/ ParkedCancel \/ Unlatch
    BY <2>5 DEF PassBoundary, RefuseSuspend, Park, Unpark, ParkedCancel, Unlatch
  <2>6. CASE BeginFinalization \/ Complete
    BY <2>6 DEF BeginFinalization, Complete
  <2> QED  BY <1>1, <2>1, <2>2, <2>3, <2>4, <2>5, <2>6 DEF Execute
<1>2. CASE \E i \in Interactions : Reserve(i) \/ Interacting(i)
  <2>1. PICK i \in Interactions : Reserve(i) \/ Interacting(i)
    BY <1>2
  <2>2. ~Interacting(i)
    BY DEF Interacting, StartInteraction, CompleteInteraction, FailInteraction, Answer, ReleaseInteraction
  <2> QED  BY <2>1, <2>2 DEF Reserve
<1>3. CASE \E now \in BOOLEAN : Commit(now)
  BY <1>3 DEF Commit
<1>4. CASE AbortPreparation \/ Activate \/ AbortPaused \/ Cancel \/ Stop \/ Retire
  BY <1>4 DEF AbortPreparation, Activate, AbortPaused, Cancel, Stop, Retire
<1>5. CASE \E s \in Suspenders : Suspend(s) \/ SuspendReturns(s) \/ SuspendCancelled(s)
  BY <1>5 DEF Suspend, SuspendReturns, SuspendCancelled
<1>6. CASE \E p \in Resumers : PrepareLocalResume(p) \/ CommitLocalResume(p) \/ AbortLocalResume(p)
  BY <1>6 DEF PrepareLocalResume, CommitLocalResume, AbortLocalResume
<1> QED  BY <1>1, <1>2, <1>3, <1>4, <1>5, <1>6 DEF Next

\* For any number of callers and interactions: no event is committed after the terminal event,
\* in a run whose paused start was aborted, or while a run stands at a boundary whose snapshot may
\* be exported (persist behind recordTerminal, finalizeAbort and suspendAtBoundary of agent.go).
THEOREM SettledRunsAreQuiet == Spec => QuietWhenSettled
<1> DEFINE A == log.terminal \/ prep.gate = "aborted"
                    \/ {run.status, run'.status} \subseteq {"suspended", "resume-pending"} =>
                log'.sequence = log.sequence
<1>1. IInv /\ [Next]_vars => [A]_vars
  <2> SUFFICES ASSUME IInv, Next, log.terminal \/ prep.gate = "aborted" \/ run.status \in Still
               PROVE  log'.sequence = log.sequence
    BY DEF Still
  <2>1. /\ exec.pc \in {"gate", "parked", "latched", "finalize", "drain", "complete", "done"}
        /\ \A i \in Interactions : interact[i] \in {"idle", "seen"}
    BY Settled
  <2> QED  BY <2>1, Quiet
<1>2. Spec => [][A]_vars
  BY <1>1, Invariance, PTL DEF Spec
<1> QED  BY <1>2 DEF QuietWhenSettled
=============================================================================
