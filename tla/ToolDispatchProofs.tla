------------------------- MODULE ToolDispatchProofs -------------------------
(***************************************************************************)
(* Theorems about ToolDispatch, for any number of guards, of attempts of   *)
(* the decorators, of call IDs, plans, tools and callers of                *)
(* ReleaseContext: a tool executes only inside its guards, the events of a *)
(* call tell what happened to it, and a lease is released once.            *)
(***************************************************************************)
EXTENDS ToolDispatch, TLAPS

\* What the guarded dispatcher may give its caller.
Answers == {Result(TRUE, FALSE), Result(TRUE, TRUE), Plain} \cup {Failed(TRUE, f) : f \in ExecutionErrors}

Places == {"acquire", "round", "start", "dispatch", "terminal", "release", "done"}

Runs == [pc : Places, wanted : Plans \cup {None}, plan : Plans \cup {None}, calls : Rounds \cup {<<>>},
         seen : SUBSET Ids, result : Answers \cup {None}, ctxDone : BOOLEAN]
Guards == [pc : {"off", "guard", "closing", "load", "join", "closed"}, state : {0, 1, 2}, done : BOOLEAN,
           out : Answers \cup {None}, got : Answers \cup {None}]
Bases == [running : BOOLEAN, reporterErr : BOOLEAN]
Events == [started : Nat, terminal : Nat, refused : BOOLEAN]
Effects == [entered : Nat, executed : Nat, returned : ExecutionErrors \cup {NoFacts}]
Leases == [id : Plans \cup {None}, started : BOOLEAN, callback : {"off", "running", "over"}, calls : Nat,
           finished : BOOLEAN, err : {"ok", "failed", "late", None}]
Callers == [pc : {"idle", "select", "wait", "done"}, err : {"ok", "failed", "late", None}]

Typed ==
    /\ run \in Runs /\ guard \in [Levels -> Guards] /\ base \in Bases /\ events \in [Ids -> Events]
    /\ effects \in [Ids -> Effects] /\ lease \in Leases /\ releaser \in [Releasers -> Callers]

Returned == {"closing", "load", "join", "closed"}

\* One activation: its continuation is open until it is closed or invoked, and until an invoked
\* one has stored its state nothing came from it.
Whole(g) ==
    /\ g.pc = "off" => g.state = 2 /\ g.got = None /\ ~g.done
    /\ g.state = 0 => g.pc \in {"guard", "closing"}
    /\ g.pc = "closed" => g.state = 2
    /\ g.pc \in Returned => g.out \in Answers
    /\ g.state # 2 => g.got = None /\ ~g.done /\ (g.pc \in Returned => Facts(g.out) = NoFacts)
    /\ g.done => g.got \in Answers /\ g.got # None

\* Below a guard something runs only while that guard's continuation does.
Stacked ==
    /\ \A l \in Levels : Whole(guard[l])
    /\ \A l, m \in Levels : l < m /\ guard[m].pc # "off" => guard[l].state = 1
    /\ base.running => \A l \in Levels : guard[l].state = 1
    /\ ~Idle => run.pc = "dispatch"

\* A call of the round has no event, the active one that is being dispatched has its start; every
\* other ID is settled, and one never seen has no event.
Busy == run.pc \in {"dispatch", "terminal"}
OnlyStarted(e) == e.started = 1 /\ e.terminal = 0 /\ ~e.refused
Settled(e) == e.started <= 1 /\ e.terminal <= e.started /\ (~e.refused => e.terminal = e.started)

InRound ==
    /\ run.calls # <<>> <=> run.pc \in {"start", "dispatch", "terminal"}
    /\ \A i, j \in DOMAIN run.calls : i # j => run.calls[i].id # run.calls[j].id
    /\ \A k \in DOMAIN run.calls :
           /\ run.calls[k].id \in run.seen
           /\ IF k = 1 /\ Busy THEN OnlyStarted(events[run.calls[k].id]) ELSE events[run.calls[k].id] = NewEvents
    /\ \A i \in Ids : /\ i \notin run.seen => events[i] = NewEvents
                      /\ (\A k \in DOMAIN run.calls : run.calls[k].id # i) => Settled(events[i])

\* The dispatcher executes at most once per entry: an open continuation leaves one to be made.
Counted ==
    /\ \A i \in Ids : ~(Busy /\ i = Active.id) => effects[i] = NewEffects
    /\ Busy => effects[Active.id].executed <= effects[Active.id].entered
    /\ \A l \in Levels : guard[l].state = 0 => effects[Active.id].executed < effects[Active.id].entered
    /\ base.running => effects[Active.id].executed > 0

\* The facts of an answer are those Execute returned for the active call.
Told(r) ==
    Facts(r) # NoFacts =>
        /\ effects[Active.id].executed > 0 /\ effects[Active.id].returned = Facts(r)
        /\ Facts(r).retry = "allowed" => Tools[Active.name].replay # "unsafe"
        /\ Facts(r).outcome = "uncertain" => Tools[Active.name].effect = "mutating"

Answering ==
    /\ \A l \in Levels : /\ guard[l].got # None => Told(guard[l].got)
                         /\ guard[l].pc \in Returned => Told(guard[l].out)
    /\ run.result # None => Busy /\ (Idle => Told(run.result))
    /\ run.pc = "terminal" => run.result \in Answers /\ Told(run.result)

\* A lease serves the run until its release starts.
Serving ==
    /\ run.pc \in {"round", "start", "dispatch", "terminal"} => lease.id = run.plan
    /\ lease.started => run.pc = "release"
    /\ lease.calls = IF lease.started THEN 1 ELSE 0
    /\ lease.callback = "running" \/ lease.finished => lease.started
    /\ \A c \in Releasers : /\ releaser[c].pc # "idle" => lease.started
                            /\ releaser[c].pc = "done" => lease.finished /\ releaser[c].err = lease.err

IInv == Typed /\ Stacked /\ InRound /\ Counted /\ Answering /\ Serving

-----------------------------------------------------------------------------
(* The calls of a round.                                                   *)

\* A round has one call or two; the active one is the first.
LEMMA RoundIs ==
    ASSUME NEW q \in Rounds
    PROVE  /\ q # <<>> /\ Head(q) = q[1] /\ 1 \in DOMAIN q /\ q[1] \in RoundCalls
           /\ \/ Len(q) = 1 /\ DOMAIN q = {1} /\ Tail(q) = <<>>
              \/ /\ Len(q) = 2 /\ DOMAIN q = {1, 2} /\ q[2] \in RoundCalls
                 /\ Tail(q) = <<q[2]>> /\ Tail(q) \in Rounds
<1>1. CASE \E c \in RoundCalls : q = <<c>>
  BY <1>1
<1>2. CASE \E c, d \in RoundCalls : q = <<c, d>>
  <2>1. PICK c \in RoundCalls, d \in RoundCalls : q = <<c, d>>
    BY <1>2
  <2>2. Tail(q) = <<d>>
    BY <2>1
  <2>3. Tail(q) \in Rounds
    BY <2>2 DEF Rounds
  <2> QED  BY <2>1, <2>2, <2>3
<1> QED  BY <1>1, <1>2 DEF Rounds

\* A call that was not dispatched has no effects.
LEMMA NewIsNone == NewEffects.executed = 0 /\ NewEffects.entered = 0
  BY DEF NewEffects

\* Every call of a round has an ID.
LEMMA RoundIds == \A q \in Rounds : \A k \in DOMAIN q : q[k].id \in Ids
  BY RoundIs DEF RoundCalls

\* While a call is dispatched or its terminal is due, it is one of the round.
LEMMA ActiveIs ==
    ASSUME IInv, Busy \/ run.pc = "start"
    PROVE  /\ run.calls \in Rounds /\ Active = run.calls[1] /\ Active \in RoundCalls /\ Active.id \in Ids
           /\ 1 \in DOMAIN run.calls
<1>1. run.calls \in Rounds
  BY DEF IInv, Typed, InRound, Busy, Runs
<1> QED  BY <1>1, RoundIs DEF Active, RoundCalls

\* An answer is a record, and so is told apart from Both; Plain carries no facts.
LEMMA PlainTells == Plain \in Answers /\ Facts(Plain) = NoFacts
BY DEF Plain, Failed, Facts, Answers

-----------------------------------------------------------------------------
(* Steps inside a dispatch.                                                *)

\* What the steps of guards, of the base dispatcher and of decorators leave alone.
Within ==
    /\ run' \in Runs /\ run'.pc = run.pc /\ run'.calls = run.calls /\ run'.seen = run.seen /\ run'.plan = run.plan
    /\ UNCHANGED <<events, lease, releaser>>

\* The round and the lease are as they were.
LEMMA WithinRound ==
    ASSUME IInv, Within
    PROVE  InRound' /\ Serving' /\ events' \in [Ids -> Events] /\ lease' \in Leases /\ releaser' \in [Releasers -> Callers]
           /\ (Busy' <=> Busy) /\ Active' = Active
<1>1. InRound'
  BY DEF IInv, Within, InRound, Busy
<1>2. Serving'
  BY DEF IInv, Within, Serving
<1> QED  BY <1>1, <1>2 DEF IInv, Typed, Within, Busy, Active

\* A run that keeps all of its record does so.
LEMMA SameWithin ==
    ASSUME IInv, UNCHANGED <<run, events, lease, releaser>>
    PROVE  Within
BY DEF IInv, Typed, Within

\* Levels are compared as integers.
LEMMA LevelsAre ==
    ASSUME Depth \in Nat
    PROVE  /\ Levels \subseteq Nat /\ \A l \in Levels : 1 <= l /\ l <= Depth /\ l \in Int
           /\ \A l \in Nat : 1 <= l /\ l <= Depth => l \in Levels
BY DEF Levels

\* Where a guard is active, all of those below a continuation that is not running are off.
LEMMA BelowOff ==
    ASSUME IInv, NEW l \in Levels, guard[l].state # 1
    PROVE  ~base.running /\ \A m \in Levels : l < m => guard[m].pc = "off"
BY DEF IInv, Stacked

\* A guard that is active, in a state of its own code, is so inside a dispatch.
LEMMA InDispatch ==
    ASSUME IInv, NEW l \in Levels, guard[l].pc # "off"
    PROVE  run.pc = "dispatch" /\ Busy /\ ~Idle
BY DEF IInv, Stacked, Idle, Busy

\* A step of one activation that leaves it in progress: it may close its continuation, or store
\* that the continuation it invoked was refused.
LEMMA OneGuard ==
    ASSUME IInv, Depth \in Nat, NEW l \in Levels, NEW g \in Guards, guard' = [guard EXCEPT ![l] = g],
           guard[l].pc # "off", g.pc # "off", Whole(g),
           g.state = guard[l].state \/ (guard[l].state = 0 /\ g.state = 2),
           g.got # None => Told(g.got), g.pc \in Returned => Told(g.out),
           UNCHANGED <<run, base, events, effects, lease, releaser>>
    PROVE  IInv'
<1>1. Within
  BY SameWithin
<1>2. /\ InRound' /\ Serving' /\ events' \in [Ids -> Events] /\ lease' \in Leases
      /\ releaser' \in [Releasers -> Callers] /\ (Busy' <=> Busy) /\ Active' = Active
  BY <1>1, WithinRound
<1>3. guard \in [Levels -> Guards] /\ guard' \in [Levels -> Guards] /\ guard'[l] = g
      /\ \A m \in Levels : m # l => guard'[m] = guard[m]
  BY DEF IInv, Typed
<1>4. Typed'
  BY <1>2, <1>3 DEF IInv, Typed
<1>5. ~Idle' /\ run'.pc = "dispatch"
  BY <1>3, InDispatch DEF Idle
<1>6. Stacked'
  <2>1. \A m \in Levels : Whole(guard'[m])
    BY <1>3 DEF IInv, Stacked
  <2>2. ASSUME NEW a \in Levels, NEW b \in Levels, a < b, guard'[b].pc # "off"
        PROVE  guard'[a].state = 1
    <3>1. guard[b].pc # "off" /\ guard[a].state = 1
      BY <2>2, <1>3 DEF IInv, Stacked
    <3> QED  BY <3>1, <1>3
  <2>3. base'.running => \A m \in Levels : guard'[m].state = 1
    BY <1>3 DEF IInv, Stacked
  <2> QED  BY <2>1, <2>2, <2>3, <1>5 DEF Stacked
<1>7. Counted'
  BY <1>2, <1>3 DEF IInv, Counted
<1>8. \A r : Told(r)' <=> Told(r)
  BY <1>2 DEF Told
<1>9. Answering'
  BY <1>2, <1>3, <1>5, <1>8 DEF IInv, Answering
<1> QED  BY <1>2, <1>4, <1>6, <1>7, <1>9 DEF IInv

\* The deferred close(done) of a continuation that has stored its state.
LEMMA CloseDoneKeeps ==
    ASSUME IInv, Depth \in Nat, NEW l \in Levels, CloseDone(l)
    PROVE  IInv'
<1> DEFINE g == [guard[l] EXCEPT !.done = TRUE]
<1>1. guard[l] \in Guards /\ Whole(guard[l]) /\ guard[l].got # None /\ guard[l].state = 2
  BY DEF IInv, Typed, Stacked, CloseDone
<1>2. guard[l].pc # "off" /\ guard[l].got \in Answers
  BY <1>1 DEF Whole, NoGuard, Guards
<1>3. g \in Guards /\ g.pc = guard[l].pc /\ g.state = 2 /\ g.got = guard[l].got /\ g.out = guard[l].out /\ g.done
  BY Zenon, <1>1 DEF Guards
<1>4. guard' = [guard EXCEPT ![l] = g] /\ UNCHANGED <<run, base, events, effects, lease, releaser>>
  BY DEF CloseDone
<1> HIDE DEF g
<1>5. Whole(g)
  BY <1>1, <1>2, <1>3 DEF Whole
<1>6. /\ g.got # None => Told(g.got)
      /\ g.pc \in Returned => Told(g.out)
  BY <1>3 DEF IInv, Answering
<1> QED  BY Zenon, <1>1, <1>2, <1>3, <1>4, <1>5, <1>6, OneGuard

\* What a guard returns is judged: an answer of its own carries no facts.
LEMMA GuardAnswers ==
    ASSUME NEW r, r \in {Result(TRUE, FALSE), Result(FALSE, FALSE), Both, Plain} \cup Answers
    PROVE  /\ validateGuardOutcome(r) \in Answers
           /\ r \in Answers => validateGuardOutcome(r) = r
           /\ r \notin Answers => Facts(validateGuardOutcome(r)) = NoFacts
<1>1. CASE r \in {Result(TRUE, FALSE), Result(FALSE, FALSE), Both, Plain}
  BY <1>1 DEF validateGuardOutcome, Result, Both, Plain, Failed, Answers, Facts
<1>2. CASE r \in {Result(TRUE, FALSE), Result(TRUE, TRUE), Plain}
  BY <1>2 DEF validateGuardOutcome, Result, Plain, Failed, Answers
<1>3. CASE \E f \in ExecutionErrors : r = Failed(TRUE, f)
  <2>1. PICK f \in ExecutionErrors : r = Failed(TRUE, f)
    BY Zenon, <1>3
  <2>2. r.kind = "error" /\ r \in Answers
    BY Zenon, <2>1 DEF Failed, Answers
  <2> QED  BY <2>2 DEF validateGuardOutcome
<1> QED  BY <1>1, <1>2, <1>3 DEF Answers

\* The answers of a guard itself have no facts, and nor does the result of another call.
LEMMA OwnAnswers ==
    ASSUME NEW r \in {Result(TRUE, FALSE), Result(FALSE, FALSE), Both, Plain}
    PROVE  Facts(validateGuardOutcome(r)) = NoFacts
BY DEF validateGuardOutcome, Result, Both, Plain, Failed, Facts

\* The guard returns or panics.
LEMMA GuardReturnsKeeps ==
    ASSUME IInv, Depth \in Nat, NEW l \in Levels, NEW r, GuardReturns(l, r)
    PROVE  IInv'
<1> DEFINE v == validateGuardOutcome(r)
           g == [guard[l] EXCEPT !.pc = "closing", !.out = v]
<1>1. guard[l] \in Guards /\ Whole(guard[l]) /\ guard[l].pc = "guard"
  BY DEF IInv, Typed, Stacked, GuardReturns
<1>2. \/ r \in {Result(TRUE, FALSE), Result(FALSE, FALSE), Both, Plain}
      \/ guard[l].done /\ r = guard[l].got /\ r \in Answers
  BY Zenon, <1>1 DEF GuardReturns, Whole
<1>3. v \in Answers
  BY Zenon, <1>2, GuardAnswers
<1>4. Facts(v) = NoFacts \/ (guard[l].done /\ v = guard[l].got)
  BY Zenon, <1>2, GuardAnswers, OwnAnswers
<1>5. guard' = [guard EXCEPT ![l] = g] /\ UNCHANGED <<run, base, events, effects, lease, releaser>>
  BY Zenon DEF GuardReturns
<1> HIDE DEF v
<1>6. g \in Guards /\ g.pc = "closing" /\ g.state = guard[l].state /\ g.got = guard[l].got /\ g.out = v
      /\ g.done = guard[l].done
  BY Zenon, <1>1, <1>3 DEF Guards
<1> HIDE DEF g
<1>7. Whole(g)
  BY <1>1, <1>3, <1>4, <1>6 DEF Whole
<1>8. /\ g.got # None => Told(g.got)
      /\ Told(g.out)
  <2>1. guard[l].got # None => Told(guard[l].got)
    BY DEF IInv, Answering
  <2>2. CASE Facts(v) = NoFacts
    BY <2>1, <2>2, <1>6 DEF Told
  <2>3. CASE guard[l].done /\ v = guard[l].got
    <3>1. g.got = g.out
      BY <2>3, <1>6
    <3>2. guard[l].got # None
      BY <2>3, <1>1 DEF Whole
    <3> QED  BY <2>1, <1>6, <3>1, <3>2
  <2> QED  BY <2>2, <2>3, <1>4
<1> QED  BY Zenon, <1>1, <1>5, <1>6, <1>7, <1>8, OneGuard

\* closeContinuation: the CompareAndSwap, and the Load after it.
LEMMA CloseContinuationKeeps ==
    ASSUME IInv, Depth \in Nat, NEW l \in Levels, CloseContinuation(l) \/ LoadState(l)
    PROVE  IInv'
<1>1. guard[l] \in Guards /\ Whole(guard[l]) /\ guard[l].pc \in Returned
  BY DEF IInv, Typed, Stacked, CloseContinuation, LoadState, Returned
<1>2. PICK g \in Guards :
          /\ guard' = [guard EXCEPT ![l] = g]
          /\ g.out = guard[l].out /\ g.got = guard[l].got /\ g.done = guard[l].done
          /\ \/ guard[l].state = 0 /\ g.state = 2 /\ g.pc = "closed"
             \/ guard[l].state # 0 /\ g.state = guard[l].state /\ g.pc \in {"load", "join"}
             \/ guard[l].state = 2 /\ g.state = 2 /\ g.pc = "closed"
  <2>1. CASE CloseContinuation(l) /\ guard[l].state = 0
    <3> DEFINE g == [guard[l] EXCEPT !.state = 2, !.pc = "closed"]
    <3>1. g \in Guards /\ g.out = guard[l].out /\ g.got = guard[l].got /\ g.done = guard[l].done
          /\ g.state = 2 /\ g.pc = "closed"
      BY Zenon, <1>1 DEF Guards
    <3>2. guard' = [guard EXCEPT ![l] = g]
      BY Zenon, <2>1 DEF CloseContinuation
    <3> HIDE DEF g
    <3> QED  BY Zenon, <2>1, <3>1, <3>2
  <2>2. CASE CloseContinuation(l) /\ guard[l].state # 0
    <3> [guard[l] EXCEPT !.pc = "load"] \in Guards
      BY <1>1 DEF Guards
    <3> WITNESS [guard[l] EXCEPT !.pc = "load"] \in Guards
    <3> QED  BY <2>2, <1>1 DEF CloseContinuation, Guards
  <2>3. CASE LoadState(l) /\ guard[l].state = 1
    <3> [guard[l] EXCEPT !.pc = "join"] \in Guards
      BY <1>1 DEF Guards
    <3> WITNESS [guard[l] EXCEPT !.pc = "join"] \in Guards
    <3> QED  BY <2>3, <1>1 DEF LoadState, Guards
  <2>4. CASE LoadState(l) /\ guard[l].state # 1
    <3>1. guard[l].state = 2
      BY <2>4, <1>1 DEF LoadState, Whole, Guards
    <3> [guard[l] EXCEPT !.pc = "closed"] \in Guards
      BY <1>1 DEF Guards
    <3> WITNESS [guard[l] EXCEPT !.pc = "closed"] \in Guards
    <3> QED  BY <2>4, <3>1, <1>1 DEF LoadState, Guards
  <2> QED  BY <2>1, <2>2, <2>3, <2>4
<1>3. Whole(g)
  BY <1>1, <1>2 DEF Whole, Returned
<1>4. /\ g.got # None => Told(g.got)
      /\ g.pc \in Returned => Told(g.out)
  BY <1>1, <1>2 DEF IInv, Answering
<1>5. UNCHANGED <<run, base, events, effects, lease, releaser>>
  BY DEF CloseContinuation, LoadState
<1>6. guard[l].pc # "off" /\ g.pc # "off"
  BY <1>1, <1>2 DEF Returned
<1>7. g.state = guard[l].state \/ (guard[l].state = 0 /\ g.state = 2)
  BY <1>2
<1> QED  BY Zenon, <1>2, <1>3, <1>4, <1>5, <1>6, <1>7, OneGuard

\* The activation ends: its continuation is over, so nothing below it runs, and its answer is
\* the dispatcher's or that of the continuation above it.
LEMMA JoinKeeps ==
    ASSUME IInv, Depth \in Nat, NEW l \in Levels, Join(l)
    PROVE  IInv'
<1> DEFINE o == guard[l].out
           n == [NoGuard EXCEPT !.state = guard[l].state]
<1>1. guard \in [Levels -> Guards] /\ guard[l] \in Guards /\ Whole(guard[l]) /\ guard[l].pc \in {"closed", "join"}
      /\ (guard[l].pc = "join" => guard[l].done) /\ Finished(l)
  BY DEF IInv, Typed, Stacked, Join
<1>2. guard[l].state = 2 /\ o \in Answers /\ Told(o)
  BY <1>1 DEF Whole, IInv, Answering, Returned
<1>3. ~base.running /\ \A m \in Levels : l < m => guard[m].pc = "off"
  BY <1>2, BelowOff
<1>4. run.pc = "dispatch" /\ Busy
  BY <1>1, InDispatch
<1>5. n \in Guards /\ n.pc = "off" /\ n.state = 2 /\ n.got = None /\ ~n.done
  BY Zenon, <1>1, <1>2 DEF NoGuard, Guards
<1>6. /\ guard' = Answered([guard EXCEPT ![l] = n], l, o)
      /\ Dispatched(l, o) /\ UNCHANGED <<base, events, effects, lease, releaser>>
  BY <1>1, <1>5 DEF Finished
<1> HIDE DEF o, n
<1>7. Whole(n)
  BY <1>5 DEF Whole, Returned
<1>8. Within /\ (run'.result = IF l = 1 THEN o ELSE run.result)
  BY <1>2, <1>6 DEF Within, Dispatched, IInv, Typed, Runs
<1>9. /\ InRound' /\ Serving' /\ events' \in [Ids -> Events] /\ lease' \in Leases
      /\ releaser' \in [Releasers -> Callers] /\ (Busy' <=> Busy) /\ Active' = Active
  BY <1>8, WithinRound
<1>10. \A r : Told(r)' <=> Told(r)
  BY <1>6, <1>9 DEF Told
<1>11. ASSUME guard' \in [Levels -> Guards], \A m \in Levels : Whole(guard'[m]),
              \A a, b \in Levels : a < b /\ guard'[b].pc # "off" => guard'[a].state = 1,
              \A m \in Levels : guard'[m].state = 0 => guard[m].state = 0,
              \A m \in Levels : /\ guard'[m].got # None => Told(guard'[m].got)
                                /\ guard'[m].pc \in Returned => Told(guard'[m].out),
              l # 1 => ~Idle'
       PROVE  IInv'
  <2>1. Typed'
    BY Zenon, <1>6, <1>8, <1>9, <1>11 DEF IInv, Typed, Within
  <2>2. Stacked'
    BY Zenon, <1>3, <1>4, <1>6, <1>8, <1>11 DEF Stacked, Within
  <2>3. Counted'
    BY Zenon, <1>3, <1>6, <1>9, <1>11 DEF IInv, Counted
  <2>4. Answering'
    BY <1>2, <1>4, <1>8, <1>9, <1>10, <1>11 DEF IInv, Answering, Within
  <2> QED  BY <2>1, <2>2, <2>3, <2>4, <1>9 DEF IInv
<1>12. CASE l = 1
  <2>1. guard' = [guard EXCEPT ![l] = n]
    BY <1>12, <1>6 DEF Answered
  <2>2. guard' \in [Levels -> Guards] /\ \A m \in Levels : m # l => guard'[m].pc = "off" /\ guard'[m] = guard[m]
    BY <2>1, <1>1, <1>3, <1>5, <1>7, <1>12, LevelsAre
  <2>3. guard'[l] = n
    BY <2>1, <1>1, <1>5
  <2>4. \A m \in Levels : Whole(guard'[m])
    BY <2>2, <2>3, <1>5, <1>7 DEF IInv, Stacked
  <2>5. \A m \in Levels : guard'[m].pc = "off" /\ guard'[m].got = None /\ guard'[m].state = 2
    BY <2>2, <2>3, <2>4, <1>5 DEF Whole
  <2>6. \A m \in Levels : guard'[m].pc \notin Returned
    BY <2>5 DEF Returned
  <2>7. /\ \A a, b \in Levels : a < b /\ guard'[b].pc # "off" => guard'[a].state = 1
        /\ \A m \in Levels : guard'[m].state = 0 => guard[m].state = 0
    BY <2>5
  <2>8. \A m \in Levels : /\ guard'[m].got # None => Told(guard'[m].got)
                          /\ guard'[m].pc \in Returned => Told(guard'[m].out)
    BY Zenon, <2>5, <2>6
  <2> QED  BY <2>2, <2>4, <2>7, <2>8, <1>11, <1>12
<1>13. CASE l # 1
  <2> DEFINE k == l - 1
             g == [guard[k] EXCEPT !.got = o, !.state = 2]
  <2>1. k \in Levels /\ k < l /\ k # l
    BY <1>13, LevelsAre
  <2>2. guard[k].state = 1 /\ guard[k] \in Guards /\ Whole(guard[k])
    BY <2>1, <1>1 DEF IInv, Stacked
  <2>4. guard' = [guard EXCEPT ![l] = n, ![k] = g]
    BY Zenon, <2>1, <1>1, <1>6, <1>13 DEF Answered
  <2> HIDE DEF k
  <2>3. g \in Guards /\ g.pc = guard[k].pc /\ g.out = guard[k].out /\ g.got = o /\ g.state = 2 /\ g.done = guard[k].done
    BY Zenon, <2>2, <1>2 DEF Guards
  <2> HIDE DEF g
  <2>5. guard' \in [Levels -> Guards] /\ guard'[l] = n /\ guard'[k] = g
        /\ \A m \in Levels : m # l /\ m # k => guard'[m] = guard[m]
    BY <2>1, <2>3, <2>4, <1>1, <1>5, <1>7
  <2>6. guard[k].pc # "off" /\ g.pc # "off" /\ guard[k].pc # "closed" /\ ~guard[k].done
    BY <2>2, <2>3 DEF Whole
  <2>7. Whole(g)
    BY <2>2, <2>3, <2>6, <1>2 DEF Whole
  <2>8. \A m \in Levels : Whole(guard'[m])
    BY <2>5, <2>7, <1>5, <1>7 DEF IInv, Stacked
  <2>9. ASSUME NEW a \in Levels, NEW b \in Levels, a < b, guard'[b].pc # "off"
        PROVE  guard'[a].state = 1
    <3>1. b # l /\ guard[b].pc # "off"
      BY <2>5, <2>6, <2>9, <1>5
    <3>2. ~(l < b)
      BY <3>1, <1>3
    <3>3. a # k /\ a # l
      BY <3>1, <3>2, <2>9, <2>1, LevelsAre DEF k
    <3> QED  BY <3>1, <3>3, <2>9, <2>5 DEF IInv, Stacked
  <2>10. ~Idle'
    BY <2>1, <2>5, <2>6 DEF Idle
  <2>11. \A m \in Levels : guard'[m].state = 0 => guard[m].state = 0
    BY <2>5, <2>3, <1>5
  <2>12. \A m \in Levels : /\ guard'[m].got # None => Told(guard'[m].got)
                           /\ guard'[m].pc \in Returned => Told(guard'[m].out)
    BY <2>1, <2>3, <2>5, <1>2, <1>5 DEF IInv, Answering, Returned
  <2> QED  BY <2>5, <2>8, <2>9, <2>10, <2>11, <2>12, <1>11
<1> QED  BY <1>12, <1>13

-----------------------------------------------------------------------------
(* Entering the dispatcher, a continuation, the tool.                      *)

\* What an invocation assigns to the effects of call i, and what they are afterwards.
Invokes(i, p, q) == effects' = [effects EXCEPT ![i].entered = IF p THEN @ + 1 ELSE @,
                                               ![i].executed = IF q THEN @ + 1 ELSE @]

Counts(i, p, q) ==
    /\ effects' \in [Ids -> Effects] /\ \A j \in Ids : j # i => effects'[j] = effects[j]
    /\ effects'[i].entered = IF p THEN effects[i].entered + 1 ELSE effects[i].entered
    /\ effects'[i].executed = IF q THEN effects[i].executed + 1 ELSE effects[i].executed
    /\ effects'[i].returned = effects[i].returned

\* What Invoke does to the counters of the active call.
LEMMA InvokeCounts ==
    ASSUME effects \in [Ids -> Effects], NEW i \in Ids, NEW p \in BOOLEAN, NEW q \in BOOLEAN, Invokes(i, p, q)
    PROVE  Counts(i, p, q)
<1> DEFINE a == IF p THEN effects[i].entered + 1 ELSE effects[i].entered
           b == IF q THEN effects[i].executed + 1 ELSE effects[i].executed
           e == [effects[i] EXCEPT !.entered = a, !.executed = b]
<1>1. effects[i] \in Effects /\ a \in Nat /\ b \in Nat
  BY DEF Effects
<1>2. effects' = [effects EXCEPT ![i] = e]
  BY Zenon DEF Invokes
<1> HIDE DEF a, b
<1>3. e \in Effects /\ e.entered = a /\ e.executed = b /\ e.returned = effects[i].returned
  BY Zenon, <1>1 DEF Effects
<1> HIDE DEF e
<1>4. effects' \in [Ids -> Effects] /\ effects'[i] = e /\ \A j \in Ids : j # i => effects'[j] = effects[j]
  <2>1. effects \in [Ids -> Effects] /\ e \in Effects
    BY Zenon, <1>3
  <2>2. effects' \in [Ids -> Effects]
    BY Zenon, <1>2, <2>1
  <2>3. effects'[i] = e
    BY Zenon, <1>2, <2>1
  <2>4. \A j \in Ids : j # i => effects'[j] = effects[j]
    BY Zenon, <1>2, <2>1
  <2> QED  BY Zenon, <2>2, <2>3, <2>4
<1> QED  BY Zenon, <1>3, <1>4 DEF a, b, Counts

\* More executions do not make an answer untold.
LEMMA StaysTold ==
    ASSUME NEW r, Told(r), Active' = Active, effects \in [Ids -> Effects], Active.id \in Ids,
           effects'[Active.id].executed \in {effects[Active.id].executed, effects[Active.id].executed + 1},
           effects'[Active.id].returned = effects[Active.id].returned
    PROVE  Told(r)'
<1>1. effects[Active.id].executed \in Nat
  BY DEF Effects
<1>2. effects[Active.id].executed > 0 => effects'[Active.id].executed > 0
  BY <1>1
<1> QED  BY <1>2 DEF Told

\* A dispatch that goes one level deeper: into guard m, above which every continuation runs.
LEMMA DeeperKeeps ==
    ASSUME IInv, Depth \in Nat, NEW m \in Levels, run.pc = "dispatch", UNCHANGED <<run, base, events, lease, releaser>>,
           ~base.running, \A a \in Levels : m <= a => guard[a].pc = "off",
           guard' \in [Levels -> Guards], guard'[m] = [NoGuard EXCEPT !.pc = "guard", !.state = 0],
           \A a \in Levels : m < a => guard'[a] = guard[a],
           \A a \in Levels : a < m => /\ guard'[a].state = 1 /\ Whole(guard'[a])
                                      /\ guard'[a].out = guard[a].out /\ guard'[a].got = guard[a].got
                                      /\ guard'[a].pc = guard[a].pc,
           effects' \in [Ids -> Effects], \A j \in Ids : j # Active.id => effects'[j] = effects[j],
           effects'[Active.id].executed = effects[Active.id].executed,
           effects'[Active.id].returned = effects[Active.id].returned,
           effects'[Active.id].executed < effects'[Active.id].entered
    PROVE  IInv'
<1> DEFINE g == [NoGuard EXCEPT !.pc = "guard", !.state = 0]
<1>1. g.pc = "guard" /\ g.state = 0 /\ ~g.done /\ g.got = None
  BY DEF NoGuard
<1>2. guard'[m] = g
  OBVIOUS
<1> HIDE DEF g
<1>3. Whole(g)
  BY <1>1 DEF Whole, Returned
<1>4. Within
  BY SameWithin
<1>5. /\ InRound' /\ Serving' /\ events' \in [Ids -> Events] /\ lease' \in Leases
      /\ releaser' \in [Releasers -> Callers] /\ (Busy' <=> Busy) /\ Active' = Active
  BY <1>4, WithinRound
<1>6. Busy /\ Active.id \in Ids
  BY ActiveIs DEF Busy
<1>7. Typed'
  BY <1>5 DEF IInv, Typed
<1>8. \A a \in Levels : a < m \/ a = m \/ m < a
  BY LevelsAre
<1>9. \A a \in Levels : m < a => guard'[a].pc = "off" /\ guard'[a].state = 2 /\ guard'[a].got = None
  BY LevelsAre DEF IInv, Stacked, Whole
<1>10. ~Idle'
  BY <1>1, <1>2 DEF Idle
<1>11. Stacked'
  <2>1. \A a \in Levels : Whole(guard'[a])
    BY <1>2, <1>3, <1>8 DEF IInv, Stacked
  <2>2. ASSUME NEW a \in Levels, NEW b \in Levels, a < b, guard'[b].pc # "off"
        PROVE  guard'[a].state = 1
    <3>1. ~(m < b)
      BY <2>2, <1>9
    <3>2. a < m
      BY <3>1, <2>2, LevelsAre
    <3> QED  BY <3>2
  <2>3. ~base'.running /\ run'.pc = "dispatch"
    OBVIOUS
  <2> QED  BY <2>1, <2>2, <2>3 DEF Stacked
<1>12. Counted'
  <2>1. \A j \in Ids : ~(Busy' /\ j = Active'.id) => effects'[j] = NewEffects
    BY <1>5, <1>6 DEF IInv, Counted
  <2>2. effects'[Active'.id].executed < effects'[Active'.id].entered
    BY <1>5
  <2>3. effects'[Active'.id].executed <= effects'[Active'.id].entered
    BY <2>2, <1>5, <1>6 DEF Effects
  <2> QED  BY <2>1, <2>2, <2>3 DEF Counted
<1>13. \A r : Told(r) => Told(r)'
  BY <1>5 DEF Told
<1>14. Answering'
  <2>1. ASSUME NEW a \in Levels
        PROVE  /\ (guard[a].got # None => Told(guard[a].got))'
               /\ (guard[a].pc \in Returned => Told(guard[a].out))'
    <3>1. CASE a < m
      BY <3>1, <1>13 DEF IInv, Answering
    <3>2. CASE a = m
      BY Zenon, <3>2, <1>1, <1>2 DEF Returned
    <3>3. CASE m < a
      BY <3>3, <1>9 DEF Returned
    <3> QED  BY <3>1, <3>2, <3>3, <1>8
  <2>2. run'.result # None => Busy' /\ (Idle' => Told(run.result)')
    BY <1>10, <1>6, <1>5
  <2> QED  BY <2>1, <2>2 DEF Answering
<1> QED  BY <1>5, <1>7, <1>11, <1>12, <1>14 DEF IInv

\* A dispatch that reaches the tool: every continuation runs, and one execution was left.
LEMMA ExecutesKeeps ==
    ASSUME IInv, Depth \in Nat, run.pc = "dispatch", UNCHANGED <<run, events, lease, releaser>>,
           base' = [base EXCEPT !.running = TRUE], guard' \in [Levels -> Guards],
           \A a \in Levels : /\ guard'[a].state = 1 /\ Whole(guard'[a])
                             /\ guard'[a].out = guard[a].out /\ guard'[a].got = guard[a].got
                             /\ guard'[a].pc = guard[a].pc,
           effects' \in [Ids -> Effects], \A j \in Ids : j # Active.id => effects'[j] = effects[j],
           effects'[Active.id].executed = effects[Active.id].executed + 1,
           effects'[Active.id].returned = effects[Active.id].returned,
           effects'[Active.id].executed <= effects'[Active.id].entered
    PROVE  IInv'
<1>1. Within
  BY SameWithin
<1>2. /\ InRound' /\ Serving' /\ events' \in [Ids -> Events] /\ lease' \in Leases
      /\ releaser' \in [Releasers -> Callers] /\ (Busy' <=> Busy) /\ Active' = Active
  BY <1>1, WithinRound
<1>3. Busy /\ Active.id \in Ids
  BY ActiveIs DEF Busy
<1>4. base' \in Bases /\ base'.running
  BY Zenon DEF IInv, Typed, Bases
<1>5. Typed'
  BY <1>2, <1>4 DEF IInv, Typed
<1>6. ~Idle'
  BY <1>4 DEF Idle
<1>7. Stacked'
  BY <1>4 DEF Stacked
<1>8. effects \in [Ids -> Effects] /\ effects[Active.id].executed \in Nat
  BY <1>3 DEF IInv, Typed, Effects
<1>9. Counted'
  <2>1. \A j \in Ids : ~(Busy' /\ j = Active'.id) => effects'[j] = NewEffects
    BY <1>2, <1>3 DEF IInv, Counted
  <2>2. effects'[Active'.id].executed > 0
    BY <1>2, <1>8
  <2> QED  BY <2>1, <2>2, <1>2 DEF Counted
<1>10. \A r : Told(r) => Told(r)'
  BY <1>2, <1>3, <1>8, StaysTold
<1>11. Answering'
  <2>1. ASSUME NEW a \in Levels
        PROVE  /\ (guard[a].got # None => Told(guard[a].got))'
               /\ (guard[a].pc \in Returned => Told(guard[a].out))'
    BY <1>10 DEF IInv, Answering
  <2>2. run'.result # None => Busy' /\ (Idle' => Told(run.result)')
    BY <1>2, <1>3, <1>6
  <2> QED  BY <2>1, <2>2 DEF Answering
<1> QED  BY <1>2, <1>5, <1>7, <1>9, <1>11 DEF IInv

\* A goroutine calls the continuation of guard l: it is refused, or enters the next guard, or
\* the tool executes.
LEMMA ContinueKeeps ==
    ASSUME IInv, Depth \in Nat, NEW l \in Levels, Continue(l)
    PROVE  IInv'
<1> DEFINE refused == run.ctxDone \/ (l + 1 > Depth /\ lease.id # run.plan)
           executes == ~refused /\ l + 1 > Depth
           g == [guard EXCEPT ![l].state = 1]
<1>1. guard \in [Levels -> Guards] /\ guard[l] \in Guards /\ Whole(guard[l]) /\ guard[l].state = 0
  BY DEF IInv, Typed, Stacked, Continue
<1>2. guard[l].pc # "off" /\ run.pc = "dispatch" /\ Busy /\ ~base.running
  BY <1>1, InDispatch, BelowOff DEF Whole
<1>3. Active.id \in Ids /\ effects \in [Ids -> Effects] /\ effects[Active.id] \in Effects
  BY <1>2, ActiveIs DEF IInv, Typed
<1>4. l + 1 # 1 /\ l \in Nat
  BY LevelsAre
<1>5. /\ guard' = IF refused THEN Answered(g, l + 1, Plain) ELSE Begun(g, l + 1)
      /\ UNCHANGED <<run, events, lease, releaser>>
      /\ base' = IF executes THEN [base EXCEPT !.running = TRUE] ELSE base
      /\ effects' = [effects EXCEPT ![Active.id].entered = IF l + 1 = 1 THEN @ + 1 ELSE @,
                                    ![Active.id].executed = IF executes THEN @ + 1 ELSE @]
  BY <1>4 DEF Continue, Invoke, Dispatched
<1>6. refused \in BOOLEAN /\ executes \in BOOLEAN
  OBVIOUS
<1> HIDE DEF refused, executes
<1>7. /\ effects' \in [Ids -> Effects] /\ \A j \in Ids : j # Active.id => effects'[j] = effects[j]
      /\ effects'[Active.id].entered = effects[Active.id].entered
      /\ effects'[Active.id].executed = IF executes THEN effects[Active.id].executed + 1 ELSE effects[Active.id].executed
      /\ effects'[Active.id].returned = effects[Active.id].returned
  <2> DEFINE p == l + 1 = 1
  <2>1. p = FALSE
    BY <1>4
  <2>2. effects' = [effects EXCEPT ![Active.id].entered = IF p THEN @ + 1 ELSE @,
                                   ![Active.id].executed = IF executes THEN @ + 1 ELSE @]
    BY <1>5
  <2> HIDE DEF p
  <2>3. Invokes(Active.id, p, executes) /\ p \in BOOLEAN
    BY Zenon, <2>1, <2>2 DEF Invokes
  <2>4. Counts(Active.id, p, executes)
    BY Zenon, <2>3, <1>3, <1>6, InvokeCounts
  <2> QED  BY Zenon, <2>1, <2>4 DEF Counts
<1>8. g \in [Levels -> Guards] /\ (\A a \in Levels : a # l => g[a] = guard[a]) /\ g[l].state = 1
      /\ g[l].pc = guard[l].pc /\ g[l].out = guard[l].out /\ g[l].got = guard[l].got /\ g[l].done = guard[l].done
  BY <1>1 DEF Guards
<1>9. Whole(g[l])
  BY <1>1, <1>8 DEF Whole
<1>10. effects[Active.id].executed < effects[Active.id].entered
  BY <1>1 DEF IInv, Counted
<1>11. CASE refused
  <2> DEFINE h == [guard[l] EXCEPT !.got = Plain, !.state = 2]
  <2>1. guard' = [guard EXCEPT ![l] = h]
    <3>1. (l + 1) - 1 = l
      BY <1>4
    <3> QED  BY Zenon, <3>1, <1>1, <1>4, <1>5, <1>11 DEF Answered
  <2>2. h \in Guards /\ h.pc = guard[l].pc /\ h.out = guard[l].out /\ h.got = Plain /\ h.state = 2 /\ h.done = guard[l].done
    BY Zenon, <1>1, PlainTells DEF Guards
  <2> HIDE DEF h
  <2>3. Whole(h)
    BY <2>2, <1>1, PlainTells DEF Whole, Returned
  <2>4. Told(Plain) /\ (h.pc \in Returned => Told(h.out))
    BY <2>2, PlainTells DEF Told, IInv, Answering
  <2>5. base' = base /\ effects' = effects
    <3>1. ~executes
      BY <1>11 DEF executes
    <3>2. effects'[Active.id] = effects[Active.id]
      BY <3>1, <1>3, <1>7 DEF Effects
    <3> QED  BY Zenon, <3>1, <3>2, <1>3, <1>5, <1>7
  <2> QED  BY Zenon, <2>1, <2>2, <2>3, <2>4, <2>5, <1>1, <1>2, <1>5, OneGuard
<1>12. CASE ~refused /\ l + 1 <= Depth
  <2> DEFINE m == l + 1
             n == [NoGuard EXCEPT !.pc = "guard", !.state = 0]
  <2>1. m \in Levels /\ l < m /\ l # m /\ \A a \in Levels : (a < m /\ a # l => a < l) /\ (m <= a => l < a)
    BY <1>4, <1>12, LevelsAre
  <2>2. guard' = [g EXCEPT ![m] = n]
    BY <1>5, <1>12 DEF Begun
  <2>3. n \in Guards
    BY Zenon DEF NoGuard, Guards
  <2> HIDE DEF g, n, m
  <2>4. guard' \in [Levels -> Guards] /\ guard'[m] = n /\ \A a \in Levels : a # m => guard'[a] = g[a]
    BY <2>1, <2>2, <2>3, <1>8
  <2>5. \A a \in Levels : a < l => guard[a].state = 1
    BY <1>2 DEF IInv, Stacked
  <2>6. \A a \in Levels : l < a => guard[a].pc = "off"
    BY <1>1, BelowOff
  <2>7. ASSUME NEW a \in Levels, a < m
        PROVE  /\ guard'[a].state = 1 /\ Whole(guard'[a])
               /\ guard'[a].out = guard[a].out /\ guard'[a].got = guard[a].got /\ guard'[a].pc = guard[a].pc
    <3>1. guard'[a] = g[a]
      BY <2>4, <2>7, LevelsAre
    <3>2. CASE a = l
      BY <3>1, <3>2, <1>8, <1>9
    <3>3. CASE a # l
      BY <3>1, <3>3, <1>8, <2>1, <2>5, <2>7 DEF IInv, Stacked
    <3> QED  BY <3>2, <3>3
  <2>8. \A a \in Levels : m < a => guard'[a] = guard[a]
    BY <2>1, <2>4, <1>8, LevelsAre
  <2>9. ~executes
    BY <1>4, <1>12 DEF executes
  <2>10. \A a \in Levels : m <= a => guard[a].pc = "off"
    BY <2>1, <2>6
  <2>11. UNCHANGED base
    BY <2>9, <1>5
  <2>12. guard'[m] = [NoGuard EXCEPT !.pc = "guard", !.state = 0]
    BY <2>4 DEF n
  <2>13. /\ effects' \in [Ids -> Effects] /\ \A j \in Ids : j # Active.id => effects'[j] = effects[j]
         /\ effects'[Active.id].executed = effects[Active.id].executed
         /\ effects'[Active.id].returned = effects[Active.id].returned
         /\ effects'[Active.id].executed < effects'[Active.id].entered
    BY <2>9, <1>7, <1>10
  <2>14. guard' \in [Levels -> Guards] /\ UNCHANGED <<run, base, events, lease, releaser>>
    BY <2>4, <2>11, <1>5
  <2> QED  BY <2>1, <2>7, <2>8, <2>10, <2>12, <2>13, <2>14, <1>2, DeeperKeeps
<1>13. CASE ~refused /\ ~(l + 1 <= Depth)
  <2>1. l = Depth /\ l + 1 > Depth /\ \A a \in Levels : a # l => a < l
    BY <1>4, <1>13, LevelsAre
  <2>2. executes /\ guard' = g
    BY <2>1, <1>5, <1>13 DEF executes, Begun
  <2> HIDE DEF g
  <2>3. ASSUME NEW a \in Levels
        PROVE  /\ guard'[a].state = 1 /\ Whole(guard'[a])
               /\ guard'[a].out = guard[a].out /\ guard'[a].got = guard[a].got /\ guard'[a].pc = guard[a].pc
    <3>1. CASE a = l
      BY <3>1, <2>2, <1>8, <1>9
    <3>2. CASE a # l
      BY <3>2, <2>1, <2>2, <1>2, <1>8 DEF IInv, Stacked
    <3> QED  BY <3>1, <3>2
  <2>4. effects'[Active.id].executed <= effects'[Active.id].entered
    BY <2>2, <1>3, <1>7, <1>10 DEF Effects
  <2> QED  BY <2>2, <2>3, <2>4, <1>2, <1>5, <1>7, <1>8, ExecutesKeeps
<1> QED  BY <1>11, <1>12, <1>13

\* A decorator calls the guarded dispatcher: the first guard begins, or the tool executes when
\* there is none, or the call is refused.
LEMMA EnterKeeps ==
    ASSUME IInv, Depth \in Nat, Enter
    PROVE  IInv'
<1> DEFINE refused == run.ctxDone \/ (1 > Depth /\ lease.id # run.plan)
           executes == ~refused /\ 1 > Depth
<1>1. run.pc = "dispatch" /\ Idle /\ Busy /\ run \in Runs /\ guard \in [Levels -> Guards]
  BY DEF Enter, Busy, IInv, Typed
<1>2. Active.id \in Ids /\ effects \in [Ids -> Effects] /\ effects[Active.id] \in Effects
  BY <1>1, ActiveIs DEF IInv, Typed
<1>3. /\ guard' = IF refused THEN guard ELSE Begun(guard, 1)
      /\ run' = IF refused THEN [run EXCEPT !.result = Plain] ELSE run
      /\ UNCHANGED <<events, lease, releaser>>
      /\ base' = IF executes THEN [base EXCEPT !.running = TRUE] ELSE base
      /\ effects' = [effects EXCEPT ![Active.id].entered = IF 1 = 1 THEN @ + 1 ELSE @,
                                    ![Active.id].executed = IF executes THEN @ + 1 ELSE @]
  BY DEF Enter, Invoke, Dispatched, Answered
<1>4. refused \in BOOLEAN /\ executes \in BOOLEAN
  OBVIOUS
<1> HIDE DEF refused, executes
<1>5. /\ effects' \in [Ids -> Effects] /\ \A j \in Ids : j # Active.id => effects'[j] = effects[j]
      /\ effects'[Active.id].entered = effects[Active.id].entered + 1
      /\ effects'[Active.id].executed = IF executes THEN effects[Active.id].executed + 1 ELSE effects[Active.id].executed
      /\ effects'[Active.id].returned = effects[Active.id].returned
  <2> DEFINE p == 1 = 1
  <2>1. p = TRUE
    OBVIOUS
  <2>2. effects' = [effects EXCEPT ![Active.id].entered = IF p THEN @ + 1 ELSE @,
                                   ![Active.id].executed = IF executes THEN @ + 1 ELSE @]
    BY <1>3
  <2> HIDE DEF p
  <2>3. Invokes(Active.id, p, executes) /\ p \in BOOLEAN
    BY Zenon, <2>1, <2>2 DEF Invokes
  <2>4. Counts(Active.id, p, executes)
    BY Zenon, <2>3, <1>2, <1>4, InvokeCounts
  <2> QED  BY Zenon, <2>1, <2>4 DEF Counts
<1>6. effects[Active.id].executed <= effects[Active.id].entered
      /\ effects[Active.id].executed \in Nat /\ effects[Active.id].entered \in Nat
  BY <1>1, <1>2 DEF IInv, Counted, Effects
<1>7. \A a \in Levels : guard[a].pc = "off" /\ Whole(guard[a]) /\ guard[a].state = 2 /\ guard[a].got = None
  BY <1>1 DEF Idle, IInv, Stacked, Whole
<1>8. ~base.running
  BY <1>1 DEF Idle
<1>9. CASE refused
  <2>1. ~executes
    BY <1>9 DEF executes
  <2>2. UNCHANGED <<guard, base, events, lease, releaser>> /\ run' = [run EXCEPT !.result = Plain]
    BY <1>3, <1>9, <2>1
  <2>3. Within /\ run'.result = Plain
    BY <2>2, <1>1, PlainTells DEF Within, Runs
  <2>4. /\ InRound' /\ Serving' /\ events' \in [Ids -> Events] /\ lease' \in Leases
        /\ releaser' \in [Releasers -> Callers] /\ (Busy' <=> Busy) /\ Active' = Active
    BY <2>3, WithinRound
  <2>5. Typed'
    BY <2>2, <2>3, <2>4, <1>5 DEF IInv, Typed, Within
  <2>6. Stacked'
    BY <2>2, <2>3, <1>1 DEF IInv, Stacked, Idle, Within
  <2>7. Counted'
    <3>1. \A j \in Ids : ~(Busy' /\ j = Active'.id) => effects'[j] = NewEffects
      BY <2>4, <1>1, <1>5 DEF IInv, Counted
    <3>2. effects'[Active'.id].executed <= effects'[Active'.id].entered
      <4>1. effects'[Active'.id].entered = effects[Active.id].entered + 1
        BY Zenon, <2>4, <1>5
      <4>2. effects'[Active'.id].executed = effects[Active.id].executed
        BY Zenon, <2>1, <2>4, <1>5
      <4> QED  BY <4>1, <4>2, <1>6
    <3> QED  BY <3>1, <3>2, <2>2, <1>7, <1>8 DEF Counted
  <2>8. Told(Plain)'
    BY PlainTells DEF Told
  <2>9. Answering'
    BY <2>2, <2>3, <2>4, <2>8, <1>1, <1>7 DEF Answering, Returned, Within
  <2> QED  BY <2>4, <2>5, <2>6, <2>7, <2>9 DEF IInv
<1>10. CASE ~refused /\ 1 <= Depth
  <2> DEFINE n == [NoGuard EXCEPT !.pc = "guard", !.state = 0]
  <2>1. 1 \in Levels /\ \A a \in Levels : ~(a < 1) /\ (1 < a => a # 1)
    BY <1>10, LevelsAre
  <2>2. guard' = [guard EXCEPT ![1] = n]
    BY <1>3, <1>10 DEF Begun
  <2>3. n \in Guards
    BY Zenon DEF NoGuard, Guards
  <2>4. ~executes
    BY <1>10 DEF executes
  <2>5. guard' \in [Levels -> Guards] /\ guard'[1] = n /\ \A a \in Levels : 1 < a => guard'[a] = guard[a]
    BY <2>1, <2>2, <2>3, <1>1
  <2>6. /\ effects' \in [Ids -> Effects] /\ \A j \in Ids : j # Active.id => effects'[j] = effects[j]
        /\ effects'[Active.id].executed = effects[Active.id].executed
        /\ effects'[Active.id].returned = effects[Active.id].returned
        /\ effects'[Active.id].executed < effects'[Active.id].entered
    BY <2>4, <1>5, <1>6
  <2>7. UNCHANGED <<run, base, events, lease, releaser>>
    BY <2>4, <1>3, <1>10
  <2>8. \A a \in Levels : 1 <= a => guard[a].pc = "off"
    BY <1>7
  <2> QED  BY <2>1, <2>5, <2>6, <2>7, <2>8, <1>1, <1>8, DeeperKeeps
<1>11. CASE ~refused /\ ~(1 <= Depth)
  <2>1. executes /\ guard' = guard /\ \A a \in Levels : FALSE
    BY <1>3, <1>11, LevelsAre DEF executes, Begun
  <2>2. effects'[Active.id].executed <= effects'[Active.id].entered
    BY <2>1, <1>5, <1>6
  <2> QED  BY <2>1, <2>2, <1>1, <1>3, <1>5, <1>11, ExecutesKeeps
<1> QED  BY <1>9, <1>10, <1>11

\* scopedReporter keeps an error.
LEMMA ReportFailsKeeps ==
    ASSUME IInv, Depth \in Nat, ReportFails
    PROVE  IInv'
<1>1. UNCHANGED <<run, guard, events, effects, lease, releaser>> /\ base' \in Bases /\ base'.running = base.running
  BY Zenon DEF ReportFails, IInv, Typed, Bases
<1>2. /\ InRound' /\ Serving' /\ events' \in [Ids -> Events] /\ lease' \in Leases
      /\ releaser' \in [Releasers -> Callers] /\ (Busy' <=> Busy) /\ Active' = Active
  BY <1>1, SameWithin, WithinRound
<1>3. Typed'
  BY <1>1, <1>2 DEF IInv, Typed
<1>4. (Idle' <=> Idle) /\ \A r : Told(r)' <=> Told(r)
  BY <1>1, <1>2 DEF Idle, Told
<1>5. Stacked' /\ Counted' /\ Answering'
  BY <1>1, <1>2, <1>4 DEF IInv, Stacked, Counted, Answering
<1> QED  BY <1>2, <1>3, <1>5 DEF IInv

\* What the base dispatcher makes of Execute's return: an answer, whose facts are those the
\* tool returned and fit its definition.
LEMMA JudgedIs ==
    ASSUME NEW d, NEW r \in ToolReturns, NEW e \in BOOLEAN
    PROVE  /\ Judged(d, r, e) \in Answers
           /\ Facts(r) \in ExecutionErrors \cup {NoFacts}
           /\ Facts(Judged(d, r, e)) # NoFacts =>
                  /\ Facts(Judged(d, r, e)) = Facts(r)
                  /\ Facts(r).retry = "allowed" => d.replay # "unsafe"
                  /\ Facts(r).outcome = "uncertain" => d.effect = "mutating"
<1>1. CASE r \in {Result(TRUE, FALSE), Result(TRUE, TRUE), Result(FALSE, FALSE)}
  BY <1>1 DEF Judged, Result, Plain, Failed, Answers, Facts
<1>2. CASE r = Both
  BY <1>2 DEF Judged, Both, Plain, Failed, Answers, Facts
<1>3. CASE r = Plain
  BY <1>3 DEF Judged, validateExecutionError, Plain, Failed, Answers, Facts
<1>4. CASE \E own \in BOOLEAN, f \in ExecutionErrors : r = Failed(own, f)
  <2>1. PICK own \in BOOLEAN, f \in ExecutionErrors : r = Failed(own, f)
    BY <1>4
  <2>2. r.kind = "error" /\ r.own = own /\ r.facts = f
    BY <2>1 DEF Failed
  <2>3. Judged(d, r, e) = validateExecutionError(d, r)
    BY <2>2 DEF Judged
  <2>4. own => r \in Answers
    BY Zenon, <2>1 DEF Answers
  <2>5. Facts(r) = IF own THEN f ELSE NoFacts
    BY <2>2 DEF Facts
  <2>6. CASE validateExecutionError(d, r) = r /\ own
    BY <2>2, <2>3, <2>4, <2>5, <2>6, PlainTells DEF validateExecutionError
  <2>7. CASE validateExecutionError(d, r) = Plain
    BY <2>3, <2>5, <2>7, PlainTells
  <2>8. (validateExecutionError(d, r) = r /\ own) \/ validateExecutionError(d, r) = Plain
    BY <2>2 DEF validateExecutionError
  <2> QED  BY <2>6, <2>7, <2>8
<1> DEFINE F == {Failed(own, f) : own \in BOOLEAN, f \in ExecutionErrors}
<1>5. r \in F => \E own \in BOOLEAN, f \in ExecutionErrors : r = Failed(own, f)
  OBVIOUS
<1>6. ToolReturns = {Result(TRUE, FALSE), Result(TRUE, TRUE), Result(FALSE, FALSE), Both, Plain} \cup F
  BY DEF ToolReturns
<1> HIDE DEF F
<1>7. CASE r \in {Result(TRUE, FALSE), Result(TRUE, TRUE), Result(FALSE, FALSE), Both, Plain}
  BY Zenon, <1>7, <1>1, <1>2, <1>3
<1>8. CASE r \in F
  BY <1>8, <1>4, <1>5
<1> QED  BY Zenon, <1>6, <1>7, <1>8

\* Execute returns: its answer goes to the last guard's continuation, or to the caller.
LEMMA ToolReturnKeeps ==
    ASSUME IInv, Depth \in Nat, NEW r \in ToolReturns, ToolReturn(r)
    PROVE  IInv'
<1>0. PICK o : o = Judged(Tools[Active.name], r, base.reporterErr)
  OBVIOUS
<1>1. base.running /\ base.reporterErr \in BOOLEAN /\ run \in Runs /\ guard \in [Levels -> Guards]
  BY DEF ToolReturn, IInv, Typed, Bases
<1>2. run.pc = "dispatch" /\ Busy
  BY <1>1 DEF IInv, Stacked, Idle, Busy
<1>3. Active.id \in Ids /\ effects \in [Ids -> Effects] /\ effects[Active.id] \in Effects
  BY <1>2, ActiveIs DEF IInv, Typed
<1>4. /\ guard' = Answered(guard, Depth + 1, o) /\ Dispatched(Depth + 1, o) /\ base' = NoBase
      /\ effects' = [effects EXCEPT ![Active.id].returned = Facts(r)]
      /\ UNCHANGED <<events, lease, releaser>>
  BY <1>0 DEF ToolReturn
<1>5. /\ o \in Answers /\ Facts(r) \in ExecutionErrors \cup {NoFacts}
      /\ Facts(o) # NoFacts => /\ Facts(o) = Facts(r)
                               /\ Facts(r).retry = "allowed" => Tools[Active.name].replay # "unsafe"
                               /\ Facts(r).outcome = "uncertain" => Tools[Active.name].effect = "mutating"
  BY <1>0, <1>1, JudgedIs
<1>6. Within /\ (run'.result = IF Depth = 0 THEN o ELSE run.result)
  <2>1. Depth + 1 = 1 <=> Depth = 0
    OBVIOUS
  <2> QED  BY <2>1, <1>1, <1>4, <1>5 DEF Within, Dispatched, Runs
<1>7. /\ InRound' /\ Serving' /\ events' \in [Ids -> Events] /\ lease' \in Leases
      /\ releaser' \in [Releasers -> Callers] /\ (Busy' <=> Busy) /\ Active' = Active
  BY <1>6, WithinRound
<1>8. /\ effects' \in [Ids -> Effects] /\ \A j \in Ids : j # Active.id => effects'[j] = effects[j]
      /\ effects'[Active.id].entered = effects[Active.id].entered
      /\ effects'[Active.id].executed = effects[Active.id].executed
      /\ effects'[Active.id].returned = Facts(r)
  <2> DEFINE e == [effects[Active.id] EXCEPT !.returned = Facts(r)]
  <2>1. e \in Effects /\ e.entered = effects[Active.id].entered /\ e.executed = effects[Active.id].executed
        /\ e.returned = Facts(r)
    BY <1>3, <1>5 DEF Effects
  <2>2. effects' = [effects EXCEPT ![Active.id] = e]
    BY <1>4
  <2> HIDE DEF e
  <2> QED  BY <2>1, <2>2, <1>3
<1>9. base' \in Bases /\ ~base'.running
  BY <1>4 DEF NoBase, Bases
<1>10. effects[Active.id].executed > 0 /\ effects[Active.id].executed <= effects[Active.id].entered
  BY <1>1, <1>2 DEF IInv, Counted
<1>11. Told(o)'
  BY <1>5, <1>7, <1>8, <1>10 DEF Told
<1>12. \A a \in Levels : /\ guard[a].state = 1 /\ Whole(guard[a]) /\ guard[a].got = None /\ guard[a].pc # "off"
                         /\ ~guard[a].done /\ (guard[a].pc \in Returned => Facts(guard[a].out) = NoFacts)
  <2> SUFFICES ASSUME NEW a \in Levels
               PROVE  /\ guard[a].state = 1 /\ Whole(guard[a]) /\ guard[a].got = None /\ guard[a].pc # "off"
                      /\ ~guard[a].done /\ (guard[a].pc \in Returned => Facts(guard[a].out) = NoFacts)
    BY Zenon
  <2>1. guard[a].state = 1 /\ Whole(guard[a])
    BY Zenon, <1>1 DEF IInv, Stacked
  <2>2. guard[a].state # 2
    BY <2>1
  <2> QED  BY Zenon, <2>1, <2>2 DEF Whole
<1>13. ASSUME guard' \in [Levels -> Guards], \A a \in Levels : Whole(guard'[a]),
              \A a, b \in Levels : a < b => guard'[a].state = 1, \A a \in Levels : guard'[a].state # 0,
              \A a \in Levels : /\ guard'[a].got \in {None, o}
                                /\ guard'[a].pc = guard[a].pc /\ guard'[a].out = guard[a].out,
              Depth # 0 => ~Idle'
       PROVE  IInv'
  <2>1. Typed'
    BY <1>6, <1>7, <1>8, <1>9, <1>13 DEF Typed, Within
  <2>2. Stacked'
    BY <1>2, <1>6, <1>9, <1>13 DEF Stacked, Within
  <2>3. Counted'
    <3>1. \A j \in Ids : ~(Busy' /\ j = Active'.id) => effects'[j] = NewEffects
      BY <1>2, <1>7, <1>8 DEF IInv, Counted
    <3> QED  BY <3>1, <1>7, <1>8, <1>9, <1>10, <1>13 DEF Counted
  <2>4. Answering'
    <3>1. ASSUME NEW a \in Levels
          PROVE  /\ (guard[a].got # None => Told(guard[a].got))'
                 /\ (guard[a].pc \in Returned => Told(guard[a].out))'
      <4>1. guard'[a].got # None => guard'[a].got = o
        BY <1>13
      <4>2. guard'[a].pc \in Returned => Facts(guard'[a].out) = NoFacts
        BY <1>12, <1>13
      <4> QED  BY <4>1, <4>2, <1>11 DEF Told
    <3>2. Idle' => Told(run.result)'
      BY <1>6, <1>11, <1>13
    <3> QED  BY <3>1, <3>2, <1>2, <1>6, <1>7 DEF Answering, Within
  <2> QED  BY <2>1, <2>2, <2>3, <2>4, <1>7 DEF IInv
<1>14. CASE Depth = 0
  <2>1. guard' = guard /\ \A a \in Levels : FALSE
    BY <1>4, <1>14, LevelsAre DEF Answered
  <2> QED  BY <2>1, <1>1, <1>13, <1>14
<1>15. CASE Depth # 0
  <2> DEFINE g == [guard[Depth] EXCEPT !.got = o, !.state = 2]
  <2>1. Depth \in Levels /\ guard[Depth] \in Guards /\ \A a, b \in Levels : a < b => a # Depth
    BY <1>1, <1>15, LevelsAre
  <2>2. guard' = [guard EXCEPT ![Depth] = g]
    <3>1. Depth + 1 # 1 /\ (Depth + 1) - 1 = Depth
      BY <1>15
    <3> QED  BY Zenon, <3>1, <2>1, <1>1, <1>4 DEF Answered
  <2>3. g \in Guards /\ g.pc = guard[Depth].pc /\ g.out = guard[Depth].out /\ g.done = guard[Depth].done
        /\ g.got = o /\ g.state = 2
    BY Zenon, <2>1, <1>5 DEF Guards
  <2> HIDE DEF g
  <2>4. guard' \in [Levels -> Guards] /\ guard'[Depth] = g /\ \A a \in Levels : a # Depth => guard'[a] = guard[a]
    BY <2>1, <2>2, <2>3, <1>1
  <2>5. Whole(g)
    <3>1. Whole(guard[Depth]) /\ guard[Depth].pc # "off" /\ ~guard[Depth].done
      BY Zenon, <2>1, <1>12
    <3> QED  BY <2>3, <3>1 DEF Whole
  <2>6. \A a \in Levels : Whole(guard'[a])
    BY <2>4, <2>5, <1>12
  <2>7. ~Idle'
    BY <2>1, <2>3, <2>4, <1>12 DEF Idle
  <2>8. \A a, b \in Levels : a < b => guard'[a].state = 1
    BY <2>1, <2>4, <1>12
  <2>9. \A a \in Levels : guard'[a].state # 0
    BY <2>3, <2>4, <1>12
  <2>10. \A a \in Levels : /\ guard'[a].got \in {None, o}
                           /\ guard'[a].pc = guard[a].pc /\ guard'[a].out = guard[a].out
    BY <2>3, <2>4, <1>12
  <2> QED  BY <2>4, <2>6, <2>7, <2>8, <2>9, <2>10, <1>13
<1> QED  BY <1>14, <1>15

-----------------------------------------------------------------------------
(* The round.                                                              *)

\* Outside a dispatch, and between its attempts, no guard is active.
LEMMA Standing ==
    ASSUME IInv, Idle, UNCHANGED <<guard, base>>
    PROVE  /\ Stacked' /\ Idle' /\ guard' \in [Levels -> Guards] /\ base' \in Bases /\ ~base'.running
           /\ \A l \in Levels : guard'[l].pc = "off" /\ guard'[l].got = None /\ guard'[l].state = 2
<1>1. \A l \in Levels : guard[l].pc = "off" /\ guard[l].got = None /\ guard[l].state = 2
  BY DEF IInv, Stacked, Whole, Idle
<1>2. Idle'
  BY DEF Idle
<1>3. ~base.running
  BY DEF Idle
<1> QED  BY <1>1, <1>2, <1>3 DEF IInv, Typed, Stacked

\* The run moves to a place where no call is dispatched and no result is held.
LEMMA MovesOn ==
    ASSUME IInv, Idle, UNCHANGED <<guard, base, releaser>>, run' \in Runs, run'.pc \notin {"dispatch", "terminal"},
           run'.result = None, events' \in [Ids -> Events], lease' \in Leases, effects' \in [Ids -> Effects],
           \A i \in Ids : effects'[i] = NewEffects, InRound', Serving'
    PROVE  IInv'
<1>1. /\ Stacked' /\ Idle' /\ guard' \in [Levels -> Guards] /\ base' \in Bases /\ ~base'.running
      /\ \A l \in Levels : guard'[l].pc = "off" /\ guard'[l].got = None /\ guard'[l].state = 2
  BY Standing
<1>2. Typed'
  BY <1>1 DEF IInv, Typed
<1>3. ~Busy'
  BY DEF Busy
<1>4. Counted'
  BY <1>1, <1>3 DEF Counted
<1>5. Answering'
  BY <1>1, <1>3 DEF Answering, Returned
<1> QED  BY <1>1, <1>2, <1>4, <1>5 DEF IInv

\* A run that is not at a call holds no result, and the counters of every ID are at rest.
LEMMA AtRest ==
    ASSUME IInv, ~Busy
    PROVE  Idle /\ run.result = None /\ \A i \in Ids : effects[i] = NewEffects
BY DEF IInv, Stacked, Counted, Answering, Busy

\* Without calls, the round says only that every ID is settled.
LEMMA NoCalls ==
    ASSUME IInv, run'.calls = <<>>, run'.pc \notin {"start", "dispatch", "terminal"}, run.seen \subseteq run'.seen,
           \A i \in Ids : Settled(events'[i]), \A i \in Ids : i \notin run'.seen => events'[i] = NewEvents
    PROVE  InRound'
<1>1. DOMAIN run'.calls = {}
  OBVIOUS
<1> QED  BY <1>1 DEF InRound

\* An ID without events is settled, and so are all when the round has no calls.
LEMMA NewIsSettled == Settled(NewEvents)
BY DEF Settled, NewEvents

\* The source answers, or does not.
LEMMA AcquireKeeps ==
    ASSUME IInv, (\E id \in Plans, valid \in BOOLEAN : Acquire(id, valid)) \/ AcquireFails
    PROVE  IInv'
<1>1. run.pc = "acquire" /\ ~Busy /\ run \in Runs /\ UNCHANGED <<guard, base, events, effects, releaser>>
  BY Zenon DEF Acquire, AcquireFails, Busy, IInv, Typed
<1>2. Idle /\ run.result = None /\ \A i \in Ids : effects[i] = NewEffects
  BY <1>1, AtRest
<1>3. run.calls = <<>> /\ \A i \in Ids : Settled(events[i])
  <2>1. InRound
    BY Zenon DEF IInv
  <2>2. run.calls = <<>>
    BY <1>1, <2>1 DEF InRound
  <2>3. DOMAIN run.calls = {}
    BY <2>2
  <2> QED  BY Zenon, <2>1, <2>2, <2>3 DEF InRound
<1>4. ~lease.started /\ ~lease.finished /\ lease.callback # "running" /\ lease.calls = 0
      /\ \A c \in Releasers : releaser[c].pc = "idle"
  BY <1>1 DEF IInv, Serving
<1> DEFINE Moved ==
        /\ run' \in Runs /\ run'.pc \in {"round", "release", "done"} /\ run'.result = None /\ run'.calls = <<>>
        /\ run'.seen = run.seen /\ lease' \in Leases /\ ~lease'.started /\ ~lease'.finished
        /\ lease'.callback # "running" /\ lease'.calls = 0 /\ (run'.pc = "round" => lease'.id = run'.plan)
<1>5. Moved
  <2>1. CASE AcquireFails
    <3>1. run' = [run EXCEPT !.pc = "done", !.wanted = None] /\ UNCHANGED lease
      BY <2>1 DEF AcquireFails
    <3> QED  BY Zenon, <3>1, <1>1, <1>2, <1>3, <1>4 DEF Runs, Places, IInv, Typed
  <2>2. ASSUME NEW id \in Plans, NEW valid \in BOOLEAN, Acquire(id, valid)
        PROVE  Moved
    <3>1. lease' = Leased(id) /\ run' \in {[run EXCEPT !.pc = "round", !.plan = id, !.wanted = None],
                                           [run EXCEPT !.pc = "release", !.wanted = None]}
      BY Zenon, <2>2 DEF Acquire
    <3>2. lease' \in Leases /\ ~lease'.started /\ ~lease'.finished /\ lease'.callback = "off" /\ lease'.calls = 0
          /\ lease'.id = id
      BY Zenon, <3>1 DEF Leased, NoLease, Leases
    <3> QED  BY Zenon, <3>1, <3>2, <1>1, <1>2, <1>3 DEF Runs, Places
  <2> QED  BY <2>1, <2>2
<1>6. InRound'
  BY <1>1, <1>3, <1>5, NoCalls DEF IInv, InRound
<1>7. Serving'
  BY <1>1, <1>4, <1>5 DEF Serving
<1> QED  BY <1>1, <1>2, <1>5, <1>6, <1>7, MovesOn DEF IInv, Typed

\* The record of a run that fails.
LEMMA FailsIs ==
    ASSUME run \in Runs
    PROVE  /\ Fails \in Runs /\ Fails.pc = "release" /\ Fails.calls = <<>> /\ Fails.seen = run.seen
           /\ Fails.result = run.result /\ [Fails EXCEPT !.result = None] \in Runs
           /\ [Fails EXCEPT !.result = None].pc = "release" /\ [Fails EXCEPT !.result = None].calls = <<>>
           /\ [Fails EXCEPT !.result = None].seen = run.seen /\ [Fails EXCEPT !.result = None].result = None
BY Zenon DEF Fails, Runs, Places

\* A run that fails outside a dispatch leaves every ID settled.
LEMMA FailKeeps ==
    ASSUME IInv, run.pc \in {"round", "start"}, run' = Fails, UNCHANGED <<guard, base, events, effects, lease, releaser>>
    PROVE  IInv'
<1>1. run \in Runs /\ ~Busy
  BY DEF IInv, Typed, Busy
<1>2. Idle /\ run.result = None /\ \A i \in Ids : effects[i] = NewEffects
  BY <1>1, AtRest
<1>3. run' \in Runs /\ run'.pc = "release" /\ run'.calls = <<>> /\ run'.seen = run.seen /\ run'.result = None
  BY <1>1, <1>2, FailsIs
<1>4. \A i \in Ids : Settled(events[i])
  <2> SUFFICES ASSUME NEW i \in Ids
               PROVE  Settled(events[i])
    OBVIOUS
  <2>1. CASE \E k \in DOMAIN run.calls : run.calls[k].id = i
    BY <2>1, <1>1, NewIsSettled DEF IInv, InRound
  <2>2. CASE ~ \E k \in DOMAIN run.calls : run.calls[k].id = i
    BY <2>2 DEF IInv, InRound
  <2> QED  BY <2>1, <2>2
<1>5. InRound'
  BY <1>3, <1>4, NoCalls DEF IInv, InRound
<1>6. Serving'
  BY <1>3 DEF IInv, Serving
<1> QED  BY <1>2, <1>3, <1>5, <1>6, MovesOn DEF IInv, Typed

\* Another round, of calls whose IDs are new.
LEMMA BeginRoundKeeps ==
    ASSUME IInv, NEW calls \in Rounds, BeginRound(calls)
    PROVE  IInv'
<1>1. run \in Runs /\ run.pc = "round" /\ run.calls = <<>> /\ ~Busy
      /\ UNCHANGED <<guard, base, events, effects, lease, releaser>>
  BY DEF BeginRound, IInv, Typed, Busy
<1>2. CASE ~validateNewToolCalls(calls)
  BY <1>1, <1>2, FailKeeps DEF BeginRound
<1>3. CASE validateNewToolCalls(calls)
  <2>1. run' = [run EXCEPT !.pc = "start", !.calls = calls, !.seen = @ \cup {calls[i].id : i \in DOMAIN calls}]
    BY <1>3 DEF BeginRound
  <2>2. Idle /\ run.result = None /\ \A i \in Ids : effects[i] = NewEffects
    BY <1>1, AtRest
  <2>3. \A i \in DOMAIN calls : calls[i].id \in Ids
    BY RoundIs DEF RoundCalls
  <2> DEFINE fresh == {calls[i].id : i \in DOMAIN calls}
  <2>4. fresh \subseteq Ids /\ \A i \in DOMAIN calls : calls[i].id \in fresh
    BY <2>3
  <2>5. run' = [run EXCEPT !.pc = "start", !.calls = calls, !.seen = run.seen \cup fresh]
    BY <2>1
  <2> HIDE DEF fresh
  <2>6. run' \in Runs /\ run'.pc = "start" /\ run'.calls = calls /\ run'.seen = run.seen \cup fresh
        /\ run'.result = None /\ run'.plan = run.plan
    BY Zenon, <2>4, <2>5, <2>2, <1>1 DEF Runs, Places
  <2>7. \A i \in Ids : Settled(events[i]) /\ (i \notin run.seen => events[i] = NewEvents)
    BY <1>1 DEF IInv, InRound
  <2>8. \A k \in DOMAIN calls : events[calls[k].id] = NewEvents
    BY <2>3, <2>7, <1>3 DEF validateNewToolCalls
  <2>9. InRound'
    <3>1. ~Busy' /\ run'.calls # <<>>
      BY <2>6, RoundIs DEF Busy
    <3>2. \A i, j \in DOMAIN calls : i # j => calls[i].id # calls[j].id
      BY <1>3 DEF validateNewToolCalls
    <3> QED  BY <3>1, <3>2, <2>4, <2>6, <2>7, <2>8, <1>1 DEF InRound
  <2>10. Serving'
    BY <2>6, <1>1 DEF IInv, Serving
  <2> QED  BY <2>2, <2>6, <2>9, <2>10, <1>1, MovesOn DEF IInv, Typed
<1> QED  BY <1>2, <1>3

\* The call is started: it is refused, or recorded and dispatched, or recorded and failed.
LEMMA StartToolKeeps ==
    ASSUME IInv, NEW o \in Outcomes, StartTool(o)
    PROVE  IInv'
<1>1. run \in Runs /\ run.pc = "start" /\ ~Busy /\ UNCHANGED <<guard, base, effects, lease, releaser>>
  BY DEF StartTool, IInv, Typed, Busy
<1>2. /\ run.calls \in Rounds /\ Active = run.calls[1] /\ Active \in RoundCalls /\ Active.id \in Ids
      /\ 1 \in DOMAIN run.calls
  BY <1>1, ActiveIs
<1>3. CASE run' = Fails /\ UNCHANGED events
  BY <1>1, <1>3, FailKeeps
<1>4. CASE /\ events' = [events EXCEPT ![Active.id].started = @ + 1]
           /\ run' \in {[run EXCEPT !.pc = "dispatch"], [run EXCEPT !.pc = "terminal", !.result = Plain]}
  <2>1. Idle /\ run.result = None /\ \A i \in Ids : effects[i] = NewEffects
    BY <1>1, AtRest
  <2>2. run' \in Runs /\ run'.pc \in {"dispatch", "terminal"} /\ run'.calls = run.calls /\ run'.seen = run.seen
        /\ run'.plan = run.plan
        /\ \/ run'.pc = "dispatch" /\ run'.result = None
           \/ run'.pc = "terminal" /\ run'.result = Plain
    BY Zenon, <1>1, <1>4, <2>1, PlainTells DEF Runs, Places
  <2>3. Active' = Active /\ Busy'
    BY <2>2 DEF Active, Busy
  <2>4. events \in [Ids -> Events] /\ events[Active.id] = NewEvents
    BY <1>1, <1>2 DEF IInv, Typed, InRound
  <2> DEFINE e == [events[Active.id] EXCEPT !.started = @ + 1]
  <2>5. e \in Events /\ OnlyStarted(e)
    <3> DEFINE x == events[Active.id]
    <3>1. x \in Events /\ x.started = 0 /\ x.terminal = 0 /\ ~x.refused
      BY <2>4, <1>2 DEF NewEvents
    <3> HIDE DEF x
    <3>2. [x EXCEPT !.started = x.started + 1] \in Events /\ OnlyStarted([x EXCEPT !.started = x.started + 1])
      BY <3>1 DEF OnlyStarted, Events
    <3> QED  BY <3>2 DEF x
  <2>6. events' = [events EXCEPT ![Active.id] = e]
    BY <1>4
  <2> HIDE DEF e
  <2>7. events' \in [Ids -> Events] /\ OnlyStarted(events'[Active.id])
        /\ \A i \in Ids : i # Active.id => events'[i] = events[i]
    BY <2>4, <2>5, <2>6, <1>2
  <2>8. InRound'
    <3>1. \A i, j \in DOMAIN run.calls : i # j => run.calls[i].id # run.calls[j].id
      BY DEF IInv, InRound
    <3>2. ASSUME NEW k \in DOMAIN run.calls
          PROVE  /\ run.calls[k].id \in run.seen
                 /\ IF k = 1 THEN OnlyStarted(events'[run.calls[k].id]) ELSE events'[run.calls[k].id] = NewEvents
      <4>1. run.calls[k].id \in run.seen /\ run.calls[k].id \in Ids /\ events[run.calls[k].id] = NewEvents
        <5>1. run.calls[k].id \in run.seen /\ events[run.calls[k].id] = NewEvents
          BY Zenon, <1>1 DEF IInv, InRound
        <5> QED  BY Zenon, <1>2, <5>1, RoundIds
      <4>2. k # 1 => run.calls[k].id # Active.id
        BY <3>1, <1>2
      <4> QED  BY <4>1, <4>2, <2>7, <1>2
    <3>3. ASSUME NEW i \in Ids
          PROVE  /\ i \notin run.seen => events'[i] = NewEvents
                 /\ (\A k \in DOMAIN run.calls : run.calls[k].id # i) => Settled(events'[i])
      <4>1. Active.id \in run.seen
        BY <1>2 DEF IInv, InRound
      <4> QED  BY <4>1, <2>7, <1>2 DEF IInv, InRound
    <3>4. run.calls # <<>>
      BY <1>1 DEF IInv, InRound
    <3> QED  BY <3>1, <3>2, <3>3, <3>4, <2>2, <2>3 DEF InRound
  <2>9. Serving'
    BY <1>1, <2>2 DEF IInv, Serving
  <2>10. /\ Stacked' /\ Idle' /\ guard' \in [Levels -> Guards] /\ base' \in Bases /\ ~base'.running
         /\ \A l \in Levels : guard'[l].pc = "off" /\ guard'[l].got = None /\ guard'[l].state = 2
    BY <2>1, <1>1, Standing
  <2>11. Typed'
    BY <2>2, <2>7, <2>10, <1>1 DEF IInv, Typed
  <2>12. Counted'
    <3>1. \A i \in Ids : effects'[i] = NewEffects
      BY <1>1, <2>1
    <3>2. effects'[Active'.id].executed <= effects'[Active'.id].entered
      <4>1. effects'[Active'.id] = NewEffects
        BY <1>2, <2>3, <3>1
      <4> QED  BY <4>1 DEF NewEffects
    <3>3. ~base'.running /\ \A l \in Levels : guard'[l].state # 0
      BY <2>10
    <3> QED  BY Zenon, <3>1, <3>2, <3>3 DEF Counted
  <2>13. Told(Plain)'
    BY PlainTells DEF Told
  <2>14. Answering'
    BY <2>2, <2>3, <2>10, <2>13, PlainTells DEF Answering, Returned
  <2> QED  BY <2>8, <2>9, <2>10, <2>11, <2>12, <2>14 DEF IInv
<1> QED  BY <1>3, <1>4 DEF StartTool

\* The terminal event is recorded or refused, and the round goes on or fails.
LEMMA TerminateToolKeeps ==
    ASSUME IInv, NEW o \in Outcomes, TerminateTool(o)
    PROVE  IInv'
<1>1. run \in Runs /\ run.pc = "terminal" /\ Busy /\ Idle /\ UNCHANGED <<guard, base, lease, releaser>>
  BY DEF TerminateTool, IInv, Typed, Busy, Stacked
<1>2. /\ run.calls \in Rounds /\ Active = run.calls[1] /\ Active \in RoundCalls /\ Active.id \in Ids
      /\ 1 \in DOMAIN run.calls
  BY <1>1, ActiveIs
<1>3. events \in [Ids -> Events] /\ effects \in [Ids -> Effects] /\ OnlyStarted(events[Active.id])
  BY <1>1, <1>2 DEF IInv, Typed, InRound
<1>4. PICK e \in Events : events' = [events EXCEPT ![Active.id] = e] /\ Settled(e)
  <2> DEFINE a == [events[Active.id] EXCEPT !.refused = TRUE]
             b == [events[Active.id] EXCEPT !.terminal = @ + 1]
  <2>1. a \in Events /\ Settled(a) /\ b \in Events /\ Settled(b)
    <3> DEFINE x == events[Active.id]
    <3>1. x \in Events /\ x.started = 1 /\ x.terminal = 0 /\ ~x.refused
      BY <1>2, <1>3 DEF OnlyStarted
    <3> HIDE DEF x
    <3>2. [x EXCEPT !.refused = TRUE] \in Events /\ Settled([x EXCEPT !.refused = TRUE])
      <4> DEFINE y == [x EXCEPT !.refused = TRUE]
      <4>1. y \in Events /\ y.started = x.started /\ y.terminal = x.terminal /\ y.refused = TRUE
        BY Zenon, <3>1 DEF Events
      <4> HIDE DEF y
      <4>2. Settled(y)
        BY <4>1, <3>1 DEF Settled
      <4> QED  BY <4>1, <4>2 DEF y
    <3>3. [x EXCEPT !.terminal = x.terminal + 1] \in Events /\ Settled([x EXCEPT !.terminal = x.terminal + 1])
      BY <3>1 DEF Events, Settled
    <3> QED  BY <3>2, <3>3 DEF x
  <2>2. events' = [events EXCEPT ![Active.id] = a] \/ events' = [events EXCEPT ![Active.id] = b]
    BY DEF TerminateTool
  <2> HIDE DEF a, b
  <2> QED  BY <2>1, <2>2
<1>5. events' \in [Ids -> Events] /\ Settled(events'[Active.id]) /\ \A i \in Ids : i # Active.id => events'[i] = events[i]
  BY <1>2, <1>3, <1>4
<1>6. effects' \in [Ids -> Effects] /\ \A i \in Ids : effects'[i] = NewEffects
  <2>1. NewEffects \in Effects
    BY DEF NewEffects, Effects
  <2>2. \A i \in Ids : i # Active.id => effects[i] = NewEffects
    BY DEF IInv, Counted
  <2>3. effects' = [effects EXCEPT ![Active.id] = NewEffects]
    BY DEF TerminateTool
  <2> QED  BY <2>1, <2>2, <2>3, <1>2, <1>3
<1>7. \A i, j \in DOMAIN run.calls : i # j => run.calls[i].id # run.calls[j].id
  BY DEF IInv, InRound
<1>8. \A k \in DOMAIN run.calls : /\ run.calls[k].id \in run.seen /\ run.calls[k].id \in Ids
                                  /\ k # 1 => events'[run.calls[k].id] = NewEvents
  <2> SUFFICES ASSUME NEW k \in DOMAIN run.calls
               PROVE  /\ run.calls[k].id \in run.seen /\ run.calls[k].id \in Ids
                      /\ k # 1 => events'[run.calls[k].id] = NewEvents
    OBVIOUS
  <2>1. run.calls[k].id \in run.seen /\ run.calls[k].id \in Ids
    <3>1. run.calls[k].id \in run.seen
      BY Zenon DEF IInv, InRound
    <3> QED  BY Zenon, <1>2, <3>1, RoundIds
  <2>2. k # 1 => events[run.calls[k].id] = NewEvents /\ run.calls[k].id # Active.id
    BY <1>2, <1>7 DEF IInv, InRound
  <2> QED  BY <2>1, <2>2, <1>5
<1>9. \A i \in Ids : /\ i \notin run.seen => events'[i] = NewEvents
                     /\ (\A k \in DOMAIN run.calls : k # 1 => run.calls[k].id # i) => Settled(events'[i])
  <2> SUFFICES ASSUME NEW i \in Ids
               PROVE  /\ i \notin run.seen => events'[i] = NewEvents
                      /\ (\A k \in DOMAIN run.calls : k # 1 => run.calls[k].id # i) => Settled(events'[i])
    OBVIOUS
  <2>1. CASE i = Active.id
    BY <2>1, <1>2, <1>5, <1>8
  <2>2. CASE i # Active.id
    BY <2>2, <1>2, <1>5 DEF IInv, InRound
  <2> QED  BY <2>1, <2>2
<1>10. lease.id = run.plan /\ ~lease.started /\ lease.calls = 0 /\ lease.callback # "running" /\ ~lease.finished
       /\ \A c \in Releasers : releaser[c].pc = "idle"
  BY <1>1 DEF IInv, Serving
<1>11. CASE run' = [Fails EXCEPT !.result = None]
  <2>1. run' \in Runs /\ run'.pc = "release" /\ run'.calls = <<>> /\ run'.seen = run.seen /\ run'.result = None
    BY <1>1, <1>11, FailsIs
  <2>2. \A i \in Ids : Settled(events'[i])
    <3> SUFFICES ASSUME NEW i \in Ids
                 PROVE  Settled(events'[i])
      OBVIOUS
    <3>1. CASE \E k \in DOMAIN run.calls : k # 1 /\ run.calls[k].id = i
      BY <3>1, <1>8, NewIsSettled
    <3> QED  BY <3>1, <1>9
  <2>3. InRound'
    BY <2>1, <2>2, <1>9, NoCalls
  <2>4. Serving'
    BY <2>1, <1>1, <1>10 DEF Serving
  <2> QED  BY <2>1, <2>3, <2>4, <1>1, <1>5, <1>6, MovesOn DEF IInv, Typed
<1>12. CASE run' = [run EXCEPT !.pc = IF Len(run.calls) > 1 THEN "start" ELSE "round", !.calls = Tail(@), !.result = None]
  <2>1. /\ \/ Len(run.calls) = 1 /\ DOMAIN run.calls = {1} /\ Tail(run.calls) = <<>>
           \/ /\ Len(run.calls) = 2 /\ DOMAIN run.calls = {1, 2} /\ run.calls[2] \in RoundCalls
              /\ Tail(run.calls) = <<run.calls[2]>> /\ Tail(run.calls) \in Rounds
    BY <1>2, RoundIs
  <2> DEFINE pc == IF Len(run.calls) > 1 THEN "start" ELSE "round"
             t == Tail(run.calls)
  <2>2. /\ pc = "start" \/ (pc = "round" /\ t = <<>>)
        /\ t \in Rounds \cup {<<>>}
    <3>1. CASE Len(run.calls) = 1
      BY <3>1, <2>1
    <3>2. CASE Len(run.calls) = 2
      <4>1. pc = "start"
        BY <3>2
      <4>2. t \in Rounds
        BY <3>2, <2>1
      <4>3. t \in Rounds \cup {<<>>}
        BY Zenon, <4>2
      <4> QED  BY Zenon, <4>1, <4>3
    <3> QED  BY <3>1, <3>2, <2>1
  <2>3. run' = [run EXCEPT !.pc = pc, !.calls = t, !.result = None]
    BY <1>12
  <2> HIDE DEF pc, t
  <2>4. run' \in Runs /\ run'.pc = pc /\ run'.calls = t /\ run'.seen = run.seen /\ run'.result = None /\ run'.plan = run.plan
    BY Zenon, <2>2, <2>3, <1>1 DEF Runs, Places
  <2>5. InRound'
    <3>1. CASE Len(run.calls) = 1
      <4>1. t = <<>> /\ pc = "round" /\ DOMAIN run.calls = {1}
        BY <3>1, <2>1 DEF t, pc
      <4>2. \A i \in Ids : Settled(events'[i])
        BY <4>1, <1>9
      <4> QED  BY <4>1, <4>2, <2>4, <1>9, NoCalls
    <3>2. CASE Len(run.calls) = 2
      <4>1. t = <<run.calls[2]>> /\ pc = "start" /\ DOMAIN run.calls = {1, 2}
        BY <3>2, <2>1 DEF t, pc
      <4>2. DOMAIN run'.calls = {1} /\ run'.calls[1] = run.calls[2] /\ run'.calls # <<>>
        BY <4>1, <2>4
      <4>3. /\ run.calls[2].id \in run.seen /\ events'[run.calls[2].id] = NewEvents
        BY <4>1, <1>8
      <4>4. \A i \in Ids : run.calls[2].id # i => Settled(events'[i])
        BY <4>1, <1>9
      <4>5. ~Busy'
        BY <4>1, <2>4 DEF Busy
      <4>6. run'.calls # <<>> <=> run'.pc \in {"start", "dispatch", "terminal"}
        BY Zenon, <4>1, <4>2, <2>4
      <4>7. \A i, j \in DOMAIN run'.calls : i = j
        BY <4>2
      <4>8. \A k \in DOMAIN run'.calls : /\ run'.calls[k].id \in run'.seen
                                         /\ events'[run'.calls[k].id] = NewEvents
        BY <4>2, <4>3, <2>4
      <4>9. \A i \in Ids : /\ i \notin run'.seen => events'[i] = NewEvents
                           /\ (\A k \in DOMAIN run'.calls : run'.calls[k].id # i) => Settled(events'[i])
        BY <4>2, <4>4, <2>4, <1>9
      <4> QED  BY <4>5, <4>6, <4>7, <4>8, <4>9, Zenon DEF InRound
    <3> QED  BY <3>1, <3>2, <2>1
  <2>6. Serving'
    BY <2>2, <2>4, <1>1, <1>10 DEF Serving
  <2>7. run'.pc \notin {"dispatch", "terminal"}
    BY <2>2, <2>4
  <2> QED  BY <2>4, <2>5, <2>6, <2>7, <1>1, <1>5, <1>6, MovesOn DEF IInv, Typed
<1> QED  BY <1>11, <1>12 DEF TerminateTool

\* The dispatcher's last answer becomes the result of the call.
LEMMA LeaveKeeps ==
    ASSUME IInv, Leave
    PROVE  IInv'
<1>1. run \in Runs /\ run.pc = "dispatch" /\ Idle /\ Busy /\ run.result # None
      /\ run' = [run EXCEPT !.pc = "terminal"] /\ UNCHANGED <<guard, base, events, effects, lease, releaser>>
  BY DEF Leave, IInv, Typed, Busy
<1>2. run' \in Runs /\ run'.pc = "terminal" /\ run'.calls = run.calls /\ run'.seen = run.seen /\ run'.plan = run.plan
      /\ run'.result = run.result /\ run.result \in Answers
  BY <1>1 DEF Runs, Places
<1>3. Busy' /\ Active' = Active
  BY <1>2 DEF Busy, Active
<1>4. /\ Stacked' /\ Idle' /\ guard' \in [Levels -> Guards] /\ base' \in Bases /\ ~base'.running
      /\ \A l \in Levels : guard'[l].pc = "off" /\ guard'[l].got = None /\ guard'[l].state = 2
  BY <1>1, Standing
<1>5. Typed'
  BY <1>1, <1>2, <1>4 DEF IInv, Typed
<1>6. InRound'
  BY <1>1, <1>2, <1>3 DEF IInv, InRound
<1>7. Counted'
  BY <1>1, <1>3, <1>4 DEF IInv, Counted
<1>8. Told(run.result) /\ \A r : Told(r) => Told(r)'
  BY <1>1, <1>3 DEF Told, IInv, Answering
<1>9. Answering'
  BY <1>2, <1>3, <1>4, <1>8 DEF Answering, Returned
<1>10. Serving'
  BY <1>1, <1>2 DEF IInv, Serving
<1> QED  BY <1>4, <1>5, <1>6, <1>7, <1>9, <1>10 DEF IInv

\* The run's context ends.
LEMMA CancelKeeps ==
    ASSUME IInv, Cancel
    PROVE  IInv'
<1>1. UNCHANGED <<guard, base, events, effects, lease, releaser>> /\ Within /\ run'.result = run.result
  BY Zenon DEF Cancel, IInv, Typed, Within, Runs
<1>2. /\ InRound' /\ Serving' /\ events' \in [Ids -> Events] /\ lease' \in Leases
      /\ releaser' \in [Releasers -> Callers] /\ (Busy' <=> Busy) /\ Active' = Active
  BY <1>1, WithinRound
<1>3. Typed'
  BY <1>1, <1>2 DEF IInv, Typed, Within
<1>4. (Idle' <=> Idle) /\ \A r : Told(r)' <=> Told(r)
  BY <1>1, <1>2 DEF Idle, Told
<1>5. Stacked' /\ Counted'
  BY <1>1, <1>2, <1>4 DEF IInv, Stacked, Counted, Within
<1>6. Answering'
  BY <1>1, <1>2, <1>4 DEF IInv, Answering, Within
<1> QED  BY <1>2, <1>3, <1>5, <1>6 DEF IInv

-----------------------------------------------------------------------------
(* The release of the lease, and the theorems.                             *)

\* ReleaseContext, its expiry and its return, and the end of the callback.
LEMMA ReleaseKeeps ==
    ASSUME IInv, (\E c \in Releasers : ReleaseStep(c)) \/ (\E err \in {"ok", "failed"} : CallbackReturns(err))
    PROVE  IInv'
<1>1. lease \in Leases /\ releaser \in [Releasers -> Callers]
  BY DEF IInv, Typed
<1> DEFINE Kept == lease' \in Leases /\ releaser' \in [Releasers -> Callers] /\ Serving'
                   /\ UNCHANGED <<run, guard, base, events, effects>>
<1>2. ASSUME NEW c \in Releasers, ReleaseContext(c)
      PROVE  Kept
  <2>1. /\ run.pc = "release" /\ lease' \in Leases /\ lease'.started /\ lease'.calls = 1 /\ lease'.finished = lease.finished
        /\ lease'.err = lease.err /\ lease'.id = lease.id
    <3>1. run.pc = "release" /\ lease.calls = IF lease.started THEN 1 ELSE 0
      BY <1>2 DEF ReleaseContext, IInv, Serving
    <3>2. CASE lease.started
      BY <3>1, <3>2, <1>1, <1>2 DEF ReleaseContext
    <3>3. CASE ~lease.started
      <4> DEFINE n == lease.calls + 1
      <4>1. lease' = [lease EXCEPT !.started = TRUE, !.calls = n, !.callback = "running"] /\ n = 1
        BY <3>1, <3>3, <1>2 DEF ReleaseContext
      <4> HIDE DEF n
      <4> QED  BY Zenon, <4>1, <3>1, <1>1 DEF Leases
    <3> QED  BY <3>2, <3>3
  <2>2. releaser' \in [Releasers -> Callers] /\ releaser'[c].pc = "select"
        /\ \A d \in Releasers : d # c => releaser'[d] = releaser[d]
    BY <1>1, <1>2 DEF ReleaseContext, Callers
  <2>3. UNCHANGED <<run, guard, base, events, effects>>
    BY <1>2 DEF ReleaseContext
  <2> QED  BY <2>1, <2>2, <2>3 DEF IInv, Serving
<1>3. ASSUME NEW c \in Releasers, ReleaseExpires(c)
      PROVE  Kept
  <2>1. lease.started /\ run.pc = "release"
    BY <1>3 DEF ReleaseExpires, IInv, Serving
  <2>2. /\ lease' \in Leases /\ lease'.started = lease.started /\ lease'.calls = lease.calls /\ lease'.finished
        /\ lease'.id = lease.id /\ (lease.finished => lease'.err = lease.err)
    BY Zenon, <1>1, <1>3 DEF ReleaseExpires, finishRelease, Leases
  <2>3. releaser' \in [Releasers -> Callers] /\ releaser'[c].pc = "wait"
        /\ \A d \in Releasers : d # c => releaser'[d] = releaser[d]
    BY <1>1, <1>3 DEF ReleaseExpires, Callers
  <2>4. UNCHANGED <<run, guard, base, events, effects>>
    BY <1>3 DEF ReleaseExpires
  <2> QED  BY <2>1, <2>2, <2>3, <2>4 DEF IInv, Serving
<1>4. ASSUME NEW c \in Releasers, Released(c)
      PROVE  Kept
  <2>1. lease.started /\ lease.finished
    BY <1>4 DEF Released, IInv, Serving
  <2>2. releaser' \in [Releasers -> Callers] /\ releaser'[c].err = lease.err
        /\ \A d \in Releasers : d # c => releaser'[d] = releaser[d]
    BY <1>1, <1>4 DEF Released, Callers, Leases
  <2>3. UNCHANGED <<run, guard, base, events, effects, lease>>
    BY <1>4 DEF Released
  <2> QED  BY <2>1, <2>2, <2>3, <1>1 DEF IInv, Serving
<1>5. ASSUME NEW err \in {"ok", "failed"}, CallbackReturns(err)
      PROVE  Kept
  <2>1. lease.started
    BY <1>5 DEF CallbackReturns, IInv, Serving
  <2>2. /\ lease' \in Leases /\ lease'.started = lease.started /\ lease'.calls = lease.calls /\ lease'.finished
        /\ lease'.id = lease.id /\ (lease.finished => lease'.err = lease.err)
    BY Zenon, <1>1, <1>5 DEF CallbackReturns, finishRelease, Leases
  <2>3. UNCHANGED <<run, guard, base, events, effects, releaser>>
    BY <1>5 DEF CallbackReturns
  <2> QED  BY <2>1, <2>2, <2>3, <1>1 DEF IInv, Serving
<1>6. Kept
  BY <1>2, <1>3, <1>4, <1>5 DEF ReleaseStep
<1>7. Typed'
  BY <1>6 DEF IInv, Typed
<1>8. (Busy' <=> Busy) /\ Active' = Active /\ (Idle' <=> Idle)
  BY <1>6 DEF Busy, Active, Idle
<1>9. \A r : Told(r)' <=> Told(r)
  BY <1>6, <1>8 DEF Told
<1>10. Stacked' /\ Counted'
  BY <1>6, <1>8 DEF IInv, Stacked, Counted
<1>11. InRound'
  BY <1>6, <1>8 DEF IInv, InRound
<1>12. Answering'
  BY <1>6, <1>8, <1>9 DEF IInv, Answering
<1> QED  BY <1>6, <1>7, <1>10, <1>11, <1>12 DEF IInv

\* The initial states satisfy the invariant.
LEMMA InitIInv == Init => IInv
<1> SUFFICES ASSUME Init
             PROVE  IInv
  OBVIOUS
<1>1. run \in Runs /\ run.pc = "acquire" /\ run.calls = <<>> /\ run.result = None
  <2>1. PICK w \in Plans \cup {None} :
            run = [pc |-> "acquire", wanted |-> w, plan |-> None, calls |-> <<>>,
                   seen |-> {}, result |-> None, ctxDone |-> FALSE]
    BY Zenon DEF Init
  <2>2. run.pc = "acquire" /\ run.calls = <<>> /\ run.result = None
    BY <2>1
  <2>3. run \in Runs
    BY <2>1 DEF Runs, Places
  <2> QED  BY <2>2, <2>3
<1>2. guard \in [Levels -> Guards] /\ \A l \in Levels : guard[l].pc = "off" /\ guard[l].state = 2 /\ guard[l].got = None /\ ~guard[l].done
  BY DEF Init, NoGuard, Guards
<1>3. base \in Bases /\ ~base.running
  BY DEF Init, NoBase, Bases
<1>4. events \in [Ids -> Events] /\ \A i \in Ids : events[i] = NewEvents
  BY DEF Init, NewEvents, Events
<1>5. effects \in [Ids -> Effects] /\ \A i \in Ids : effects[i] = NewEffects
  BY DEF Init, NewEffects, Effects
<1>6. lease \in Leases /\ ~lease.started /\ ~lease.finished /\ lease.callback = "off" /\ lease.calls = 0
  BY DEF Init, NoLease, Leases
<1>7. releaser \in [Releasers -> Callers] /\ \A c \in Releasers : releaser[c].pc = "idle"
  BY DEF Init, Callers
<1>8. Typed
  BY <1>1, <1>2, <1>3, <1>4, <1>5, <1>6, <1>7 DEF Typed
<1>9. Stacked
  <2>1. ASSUME NEW l \in Levels  PROVE  Whole(guard[l])
    BY <1>2 DEF Whole, Returned
  <2>2. Idle
    BY Zenon, <1>2, <1>3 DEF Idle
  <2> QED  BY Zenon, <1>2, <1>3, <2>1, <2>2 DEF Stacked
<1>10. ~Busy /\ DOMAIN run.calls = {}
  BY <1>1 DEF Busy
<1>11. InRound
  BY <1>1, <1>4, <1>10, NewIsSettled DEF InRound
<1>12. Counted /\ Answering
  <2>1. Counted
    BY <1>2, <1>3, <1>5, <1>10 DEF Counted
  <2>2. Answering
    BY <1>1, <1>2, <1>3, <1>10 DEF Answering, Returned
  <2> QED  BY <2>1, <2>2
<1>13. Serving
  BY <1>1, <1>6, <1>7 DEF Serving
<1> QED  BY <1>8, <1>9, <1>11, <1>12, <1>13 DEF IInv

\* Every step preserves it.
LEMMA NextIInv ==
    ASSUME IInv, Depth \in Nat, [Next]_vars
    PROVE  IInv'
<1>1. CASE RunStep
  <2>1. ASSUME NEW calls \in Rounds, BeginRound(calls)
        PROVE  IInv'
    BY <2>1, BeginRoundKeeps
  <2>2. CASE EndRun
    BY <2>2, FailKeeps DEF EndRun
  <2>3. ASSUME NEW o \in Outcomes, StartTool(o) \/ TerminateTool(o)
        PROVE  IInv'
    BY <2>3, StartToolKeeps, TerminateToolKeeps
  <2> QED  BY <1>1, <2>1, <2>2, <2>3, AcquireKeeps, EnterKeeps, LeaveKeeps DEF RunStep
<1>2. CASE Cancel \/ ReportFails
  BY <1>2, CancelKeeps, ReportFailsKeeps
<1>3. ASSUME NEW l \in Levels, GuardStep(l)
      PROVE  IInv'
  BY <1>3, ContinueKeeps, CloseDoneKeeps, CloseContinuationKeeps, JoinKeeps, GuardReturnsKeeps DEF GuardStep
<1>4. ASSUME NEW r \in ToolReturns, ToolReturn(r)
      PROVE  IInv'
  BY <1>4, ToolReturnKeeps
<1>5. CASE (\E c \in Releasers : ReleaseStep(c)) \/ (\E err \in {"ok", "failed"} : CallbackReturns(err))
  BY <1>5, ReleaseKeeps
<1>6. CASE UNCHANGED vars
  <2>1. UNCHANGED <<run, guard, base, events, effects, lease, releaser>>
    BY <1>6 DEF vars
  <2>2. (Busy' <=> Busy) /\ Active' = Active /\ (Idle' <=> Idle)
    BY <2>1 DEF Busy, Active, Idle
  <2>3. \A r : Told(r)' <=> Told(r)
    BY <2>1, <2>2 DEF Told
  <2>4. Typed' /\ Serving'
    BY <2>1 DEF IInv, Typed, Serving
  <2>5. Stacked' /\ Counted'
    BY <2>1, <2>2 DEF IInv, Stacked, Counted
  <2>6. InRound'
    BY <2>1, <2>2 DEF IInv, InRound
  <2>7. Answering'
    BY <2>1, <2>2, <2>3 DEF IInv, Answering
  <2> QED  BY <2>4, <2>5, <2>6, <2>7 DEF IInv
<1> QED  BY <1>1, <1>2, <1>3, <1>4, <1>5, <1>6 DEF Next

\* The inductive invariant holds in every state.
LEMMA Invariance == ASSUME Depth \in Nat PROVE Spec => []IInv
BY InitIInv, NextIInv, PTL DEF Spec

\* For any number of guards, attempts, IDs, plans and tools: while a tool executes its dispatch
\* has not returned, every guard above it waits in its continuation, and the lease of its plan
\* is not being released; a call of the guarded dispatcher executes a tool at most once, for an
\* ID recorded as started once (guardedToolDispatcher.Dispatch, newGuardContinuation).
THEOREM ToolsRunUnderGuards == ASSUME Depth \in Nat PROVE Spec => []ToolRunsUnderGuards
<1>1. IInv => ToolRunsUnderGuards
  <2> SUFFICES ASSUME IInv
               PROVE  ToolRunsUnderGuards
    OBVIOUS
  <2>1. ASSUME NEW i \in Ids
        PROVE  /\ effects[i].executed <= effects[i].entered
               /\ effects[i].executed > 0 => events[i].started = 1
    <3>1. CASE Busy /\ i = Active.id
      <4>1. effects[i].executed <= effects[i].entered
        BY <3>1 DEF IInv, Counted
      <4>2. OnlyStarted(events[i])
        BY <3>1, ActiveIs DEF IInv, InRound
      <4> QED  BY <4>1, <4>2 DEF OnlyStarted
    <3>2. CASE ~(Busy /\ i = Active.id)
      <4>1. effects[i] = NewEffects
        BY <3>2 DEF IInv, Counted
      <4>2. effects[i].executed = 0 /\ effects[i].entered = 0
        BY <4>1, NewIsNone
      <4> QED  BY <4>2
    <3> QED  BY <3>1, <3>2
  <2>2. base.running => /\ run.pc = "dispatch" /\ ~lease.started /\ lease.id = run.plan
                        /\ \A l \in Levels : guard[l].pc # "off" /\ guard[l].state = 1
    <3> SUFFICES ASSUME base.running
                 PROVE  /\ run.pc = "dispatch" /\ ~lease.started /\ lease.id = run.plan
                        /\ \A l \in Levels : guard[l].pc # "off" /\ guard[l].state = 1
      BY Zenon
    <3>1. run.pc = "dispatch"
      BY Zenon DEF IInv, Stacked, Idle
    <3>2. ~lease.started /\ lease.id = run.plan
      BY <3>1 DEF IInv, Serving
    <3>3. ASSUME NEW l \in Levels  PROVE  guard[l].pc # "off" /\ guard[l].state = 1
      <4>1. guard[l].state = 1 /\ Whole(guard[l])
        BY Zenon DEF IInv, Stacked
      <4>2. guard[l].state # 2
        BY <4>1
      <4> QED  BY Zenon, <4>1, <4>2 DEF Whole
    <3> QED  BY Zenon, <3>1, <3>2, <3>3
  <2> QED  BY <2>1, <2>2 DEF ToolRunsUnderGuards
<1> QED  BY <1>1, Invariance, PTL

\* For any number of calls, guards and attempts: a call has one start and one terminal event when
\* its round moves on, unless the log refused the terminal; the facts of a terminal are those the
\* tool returned and fit its definition (toolFailure, validateExecutionError, appendToolRound).
THEOREM RecordsStayTrue == ASSUME Depth \in Nat PROVE Spec => []RecordsAreTrue
<1>1. IInv => RecordsAreTrue
  <2> SUFFICES ASSUME IInv
               PROVE  RecordsAreTrue
    OBVIOUS
  <2>1. ASSUME NEW i \in Ids
        PROVE  /\ events[i].started <= 1 /\ events[i].terminal <= events[i].started
               /\ run.pc \in {"round", "release", "done"} /\ ~events[i].refused =>
                      events[i].terminal = events[i].started
    <3>1. CASE \E k \in DOMAIN run.calls : run.calls[k].id = i
      <4>1. OnlyStarted(events[i]) \/ events[i] = NewEvents
        BY <3>1 DEF IInv, InRound
      <4>2. run.pc \notin {"round", "release", "done"}
        <5>1. run.calls # <<>>
          BY <3>1
        <5> QED  BY <5>1 DEF IInv, InRound
      <4> QED  BY <4>1, <4>2 DEF OnlyStarted, NewEvents
    <3>2. CASE ~ \E k \in DOMAIN run.calls : run.calls[k].id = i
      BY <3>2 DEF IInv, InRound, Settled
    <3> QED  BY <3>1, <3>2
  <2>2. run.pc = "terminal" => Told(run.result)
    BY DEF IInv, Answering
  <2> QED  BY <2>1, <2>2 DEF RecordsAreTrue, Told
<1> QED  BY <1>1, Invariance, PTL

\* For any number of callers of ReleaseContext: the release callback is started at most once, and
\* all of them are told the same, which the late end of the callback does not change
\* (ToolPlanLease.ReleaseContext, finishRelease).
THEOREM ReleaseStaysOne == ASSUME Depth \in Nat PROVE Spec => []ReleaseIsOne
<1>1. IInv => ReleaseIsOne
  <2> SUFFICES ASSUME IInv  PROVE  ReleaseIsOne
    BY Zenon
  <2>1. lease.calls = IF lease.started THEN 1 ELSE 0
    BY Zenon DEF IInv, Serving
  <2>2. lease.calls <= 1
    BY <2>1
  <2>3. \A c \in Releasers : releaser[c].pc = "done" => lease.finished /\ releaser[c].err = lease.err
    BY Zenon DEF IInv, Serving
  <2> QED  BY Zenon, <2>2, <2>3 DEF ReleaseIsOne
<1> QED  BY <1>1, Invariance, PTL
=============================================================================
