-------------------------- MODULE PluginHostProofs --------------------------
(***************************************************************************)
(* The generations of the plugin host have owners, for any number of       *)
(* activators, lease holders and generations.  Each part of the inductive  *)
(* invariant is an operator on the variables it reads, so that a step that *)
(* leaves those alone keeps it.                                            *)
(***************************************************************************)
EXTENDS PluginHost, FiniteSetTheorems, TLAPS

GenType ==
    [state : {"none", "staged", "owned", "gone"}, rev : 0 .. MaxRevision,
     refs : 0 .. Cardinality(Holders), unhealthy : BOOLEAN, dead : BOOLEAN,
     watched : BOOLEAN, cleaning : BOOLEAN, failed : BOOLEAN, try : 0 .. MaxTry]

ActorType ==
    [pc : {"idle", "enter", "staging", "publish", "discard", "finish", "failed",
           "select", "loop", "backoff", "done"},
     gen : Gens, rev : 0 .. MaxRevision, ctxDone : BOOLEAN, attempt : 0 .. MaxAttempts, ok : BOOLEAN]

LeaseType == [pc : {"idle", "confirm", "held", "denied"}, gen : Gens]

HostType ==
    [current : Gens, available : SUBSET Gens, desired : 0 .. MaxRevision, revision : 0 .. MaxRevision,
     sequence : Gens, recovery : Episodes \cup {None}, wake : BOOLEAN, mine : BOOLEAN, closing : BOOLEAN,
     stopped : BOOLEAN]

CloserType == [pc : {"idle", "run", "asleep"}, try : 0 .. MaxTry]

Typed ==
    /\ gen \in [Gens -> GenType] /\ act \in [Actors -> ActorType] /\ lease \in [Holders -> LeaseType]
    /\ token \in Actors \cup {None} /\ host \in HostType /\ closer \in CloserType

\* The leases of each generation, which is not cleaned up under them.
Users(ls, g) == {l \in Holders : ls[l].pc # "idle" /\ ls[l].gen = g}

Leased(gn, ls) ==
    \A g \in Gens : /\ gn[g].refs = Cardinality(Users(ls, g))
                    /\ Users(ls, g) # {} => gn[g].state = "owned" /\ ~gn[g].cleaning
                    /\ gn[g].cleaning => gn[g].state = "owned"

\* A staged generation belongs to one actor, which has its revision; the token is that of the
\* actor that starts candidates; later generations are untouched.
Stages(ac, a) == ac[a].pc \in {"staging", "publish", "discard"}

Staged(gn, ac, tk, sq) ==
    /\ \A a \in Actors : Stages(ac, a) =>
        /\ ac[a].gen \in 1 .. sq /\ gn[ac[a].gen].state = "staged" /\ gn[ac[a].gen].rev = ac[a].rev
    /\ \A a, b \in Actors : Stages(ac, a) /\ Stages(ac, b) /\ ac[a].gen = ac[b].gen => a = b
    /\ \A a \in Actors : ac[a].pc = "staging" <=> tk = a
    /\ \A g \in Gens : gn[g].state = "staged" => \E a \in Actors : Stages(ac, a) /\ ac[a].gen = g
    /\ \A g \in Gens : g > sq => gn[g].state = "none"
    /\ \A a \in Activators : ac[a].pc \in {"idle", "enter", "staging", "publish", "discard", "finish"}

\* Until Close the current generation is owned and runs the desired set.
Current(gn, h) ==
    /\ h.desired <= h.revision
    /\ ~h.closing => /\ gn[h.current].state = "owned" /\ ~gn[h.current].cleaning
                     /\ h.current \in h.available /\ gn[h.current].rev = h.desired

ExplicitOf(ac) == Cardinality({a \in Activators : ac[a].pc # "idle"})

\* An episode stands until it is cancelled, and somebody serves it.
Episode(gn, h, ac) ==
    /\ h.recovery # None =>
        /\ Matches(h, h.recovery, ExplicitOf(ac)) /\ gn[h.current].unhealthy
        /\ h.recovery.exhausted \/ (h.recovery.attempts < MaxAttempts /\ (h.wake \/ h.mine \/ ac[Ctl].pc = "loop"))
    /\ h.mine => /\ h.recovery # None /\ ~h.recovery.exhausted /\ ac[Ctl].rev = h.recovery.rev
                 /\ ac[Ctl].pc \in {"backoff", "enter", "staging", "publish", "discard", "failed"}
                 /\ ac[Ctl].pc = "backoff" => ~ac[Ctl].ctxDone

JoinedOf(tk, ac) == tk = None /\ ExplicitOf(ac) = 0 /\ ac[Ctl].pc = "done"

\* A stopped host is closing and has nothing left.
Stopped(gn, h, ac, ls, tk, cl) ==
    /\ cl.pc # "idle" => h.closing
    /\ h.stopped => /\ h.closing /\ JoinedOf(tk, ac)
                    /\ \A g \in Gens : gn[g].state \in {"none", "gone"}
                    /\ \A l \in Holders : ls[l].pc = "idle"

IInv ==
    /\ Typed
    /\ Leased(gen, lease)
    /\ Staged(gen, act, token, host.sequence)
    /\ Current(gen, host)
    /\ Episode(gen, host, act)
    /\ Stopped(gen, host, act, lease, token, closer)

-----------------------------------------------------------------------------
(* Frames: what a step has to leave alone.                                 *)

\* The generations keep their owners and counts; a mark of ill health stays.
SameGens(gn, gn2) ==
    \A g \in Gens : /\ gn2[g].state = gn[g].state /\ gn2[g].rev = gn[g].rev /\ gn2[g].refs = gn[g].refs
                    /\ gn2[g].cleaning = gn[g].cleaning
                    /\ gn[g].unhealthy => gn2[g].unhealthy

\* The actors other than a go on as they are.
OnlyActor(ac, ac2, a) ==
    \A b \in Actors : b # a => ac2[b].pc = ac[b].pc /\ ac2[b].gen = ac[b].gen /\ ac2[b].rev = ac[b].rev

\* Revisions are counted.
LEMMA Revisions == \A h \in HostType : h.desired \in Nat /\ h.revision \in Nat
    BY HostAssumption DEF HostType

\* None is nobody.
LEMMA Somebody == \A b \in Actors : b # None
    BY HostAssumption

\* The generations up to one that exists (host.sequence) exist.
LEMMA UpTo ==
    ASSUME NEW sq \in Gens
    PROVE  1 .. sq \subseteq Gens
<1>1. MaxSequence \in Nat /\ sq \in 0 .. MaxSequence
    BY HostAssumption DEF Gens
<1>2. \A g \in 1 .. sq : g \in 0 .. MaxSequence
    BY <1>1
<1> QED
    BY <1>2 DEF Gens

\* Marking a generation unhealthy or stopped keeps the leases.
LEMMA LeasedFrame ==
    ASSUME NEW gn, NEW gn2, NEW ls, SameGens(gn, gn2), Leased(gn, ls)
    PROVE  Leased(gn2, ls)
    BY DEF SameGens, Leased

\* The same for the staged generations.
LEMMA StagedFrame ==
    ASSUME NEW gn, NEW gn2, NEW ac, NEW tk, NEW sq \in Gens, SameGens(gn, gn2), Staged(gn, ac, tk, sq)
    PROVE  Staged(gn2, ac, tk, sq)
<1>1. 1 .. sq \subseteq Gens
    BY UpTo
<1> QED
    BY <1>1 DEF SameGens, Staged

\* The same for the current one.
LEMMA CurrentFrame ==
    ASSUME NEW gn, NEW gn2, NEW h, h.current \in Gens, SameGens(gn, gn2), Current(gn, h)
    PROVE  Current(gn2, h)
    BY DEF SameGens, Current

\* The same for a stopped host.
LEMMA StoppedFrame ==
    ASSUME NEW gn, NEW gn2, NEW h, NEW ac, NEW ls, NEW tk, NEW cl,
           SameGens(gn, gn2), Stopped(gn, h, ac, ls, tk, cl)
    PROVE  Stopped(gn2, h, ac, ls, tk, cl)
    BY DEF SameGens, Stopped

\* host.explicitActivations counts who is inside Activate.
LEMMA ExplicitSame ==
    ASSUME NEW ac, NEW ac2, \A a \in Activators : ac2[a].pc = "idle" <=> ac[a].pc = "idle"
    PROVE  ExplicitOf(ac2) = ExplicitOf(ac)
<1>1. {a \in Activators : ac2[a].pc # "idle"} = {a \in Activators : ac[a].pc # "idle"}
    OBVIOUS
<1> QED
    BY <1>1 DEF ExplicitOf

\* It is a number, and zero when nobody is.
LEMMA ExplicitZero ==
    ASSUME NEW ac
    PROVE  /\ ExplicitOf(ac) \in Nat
           /\ ExplicitOf(ac) = 0 <=> \A a \in Activators : ac[a].pc = "idle"
<1> DEFINE S == {a \in Activators : ac[a].pc # "idle"}
<1>1. IsFiniteSet(S)
    BY HostAssumption, FS_Subset
<1>2. Cardinality(S) \in Nat
    BY <1>1, FS_CardinalityType
<1>3. Cardinality(S) = 0 <=> S = {}
    BY <1>1, FS_EmptySet
<1>4. S = {} <=> \A a \in Activators : ac[a].pc = "idle"
    OBVIOUS
<1> HIDE DEF S
<1>5. ExplicitOf(ac) = Cardinality(S)
    BY DEF ExplicitOf, S
<1> QED
    BY <1>2, <1>3, <1>4, <1>5

\* The deferred finishExplicitActivation takes one off.
LEMMA ExplicitLess ==
    ASSUME NEW ac, NEW ac2, NEW a \in Activators, ac[a].pc # "idle", ac2[a].pc = "idle",
           \A b \in Activators : b # a => ac2[b].pc = ac[b].pc
    PROVE  ExplicitOf(ac2) = ExplicitOf(ac) - 1
<1> DEFINE S == {b \in Activators : ac[b].pc # "idle"}
           S2 == {b \in Activators : ac2[b].pc # "idle"}
<1>1. IsFiniteSet(S)
    BY HostAssumption, FS_Subset
<1>2. S2 = S \ {a} /\ a \in S
    OBVIOUS
<1>3. ExplicitOf(ac) = Cardinality(S) /\ ExplicitOf(ac2) = Cardinality(S2)
    BY DEF ExplicitOf
<1> HIDE DEF S, S2
<1>4. Cardinality(S \ {a}) = Cardinality(S) - 1
    BY <1>1, <1>2, FS_RemoveElement
<1> QED
    BY <1>2, <1>3, <1>4

\* Explicit is that count, Joined that of closeProgress.
LEMMA ExplicitIs ==
    /\ Explicit = ExplicitOf(act) /\ (Joined <=> JoinedOf(token, act))
    BY DEF Explicit, ExplicitOf, Joined, JoinedOf

-----------------------------------------------------------------------------
(* Which actions change what, and the initial state.                       *)

\* Only the two publication points change host.current.
LEMMA OnlyPublished ==
    ASSUME IInv, [Next]_vars, host'.current # host.current
    PROVE  (\E a \in Activators : PublishExplicit(a)) \/ CtlPublishes
<1>1. host \in HostType
    BY DEF IInv, Typed
<1>2. ASSUME NEW g, NEW n
      PROVE  Schedule(host, g, n).current = host.current
    BY <1>1 DEF Schedule, HostType
<1>3. ASSUME NEW a, StageSteps(a)
      PROVE  FALSE
    <2>1. host' = host \/ host' = [host EXCEPT !.sequence = host.sequence + 1]
        BY <1>3 DEF StageSteps, EnterRefused, EnterStage, StageDone, StageFails, Discard
    <2> QED
        BY <1>1, <2>1 DEF HostType
<1>4. ASSUME NEW a \in Activators, BeginExplicit(a)
      PROVE  FALSE
    BY <1>1, <1>4 DEF BeginExplicit, Cancelled, HostType
<1>5. ASSUME NEW a \in Activators, PublishRefused(a) \/ FinishExplicit(a)
      PROVE  FALSE
    BY <1>2, <1>5 DEF PublishRefused, FinishExplicit
<1>6. CASE CtlWake \/ CtlExit \/ CtlIdles \/ CtlBegins \/ CtlStages \/ CtlRefused
    BY <1>1, <1>6 DEF CtlWake, CtlExit, CtlIdles, CtlBegins, CtlStages, CtlRefused, HostType
<1>7. CASE CtlInterrupted \/ CtlFailed
    BY <1>1, <1>7 DEF CtlInterrupted, CtlFailed, CtlReturns, HostType
<1>8. ASSUME NEW l \in Holders, Holding(l) \/ \E g \in Gens : LeaseTaken(l, g) \/ LeaseRefused(l, g)
      PROVE  FALSE
    <2>1. \/ host' = host
          \/ \E g : host' = Schedule(host, g, Explicit)
          \/ \E v : host' = [host EXCEPT !.available = v]
        BY <1>8 DEF Holding, LeaseConfirmed, Release, LeaseTaken, LeaseRefused, MarkSick
    <2> QED
        BY <1>1, <1>2, <2>1 DEF HostType
<1>9. ASSUME NEW g \in Gens, Generation(g) \/ CandidateStops(g)
      PROVE  FALSE
    BY <1>2, <1>9 DEF Generation, Observe, ObserveEnds, Cleanup, CandidateStops
<1>10. CASE CloseBegins \/ Closing \/ CloseTimesOut
    BY <1>1, <1>10 DEF CloseBegins, Closing, CloseWaits, CloseReturns, CloseTimesOut, Cancelled, HostType
<1>11. ASSUME NEW a \in Actors, CancelContext(a)
      PROVE  FALSE
    BY <1>11 DEF CancelContext
<1>12. CASE UNCHANGED vars
    BY <1>12 DEF vars
<1> QED
    BY <1>3, <1>4, <1>5, <1>6, <1>7, <1>8, <1>9, <1>10, <1>11, <1>12 DEF Next, Activation, Controller

\* Only finishExplicitActivation ends an activation that failed.
LEMMA OnlyFinished ==
    ASSUME IInv, [Next]_vars, NEW a \in Activators, act[a].pc = "finish", act'[a].pc = "idle"
    PROVE  FinishExplicit(a)
<1>1. act \in [Actors -> ActorType] /\ a \in Actors /\ a # Ctl /\ Ctl \in Actors
    BY HostAssumption DEF IInv, Typed, Actors
<1>2. ASSUME NEW b \in Actors, StageSteps(b)
      PROVE  FALSE
    <2>1. act[b].pc \in {"enter", "staging", "discard"}
        BY <1>2 DEF StageSteps, EnterRefused, EnterStage, StageDone, StageFails, Discard
    <2>2. b # a
        BY <2>1
    <2>3. act'[a] = act[a]
        BY <1>1, <1>2, <2>2 DEF StageSteps, EnterRefused, EnterStage, StageDone, StageFails, Discard, StageError
    <2> QED
        BY <2>3
<1>3. ASSUME NEW b \in Activators, BeginExplicit(b)
      PROVE  FALSE
    <2>1. b # a /\ b \in Actors
        BY <1>3 DEF BeginExplicit, Actors
    <2>2. act'[a] = act[a]
        BY <1>1, <1>3, <2>1 DEF BeginExplicit, CancelAttempt
    <2> QED
        BY <2>2
<1>4. ASSUME NEW b \in Activators, PublishExplicit(b) \/ PublishRefused(b)
      PROVE  FALSE
    <2>1. b # a /\ b \in Actors
        BY <1>4 DEF PublishExplicit, PublishRefused, Actors
    <2>2. act'[a] = act[a]
        BY <1>1, <1>4, <2>1 DEF PublishExplicit, PublishRefused
    <2> QED
        BY <2>2
<1>5. ASSUME NEW b \in Activators, FinishExplicit(b), b # a
      PROVE  FALSE
    <2>1. act'[a] = act[a]
        BY <1>1, <1>5 DEF FinishExplicit, Actors
    <2> QED
        BY <2>1
<1>6. CASE CtlWake \/ CtlExit \/ CtlIdles \/ CtlBegins \/ CtlStages \/ CtlRefused \/ CtlInterrupted \/ CtlFailed
           \/ CtlPublishes
    <2>1. \E r : act' = [act EXCEPT ![Ctl] = r]
        BY <1>6 DEF CtlWake, CtlExit, CtlIdles, CtlBegins, CtlStages, CtlRefused, CtlInterrupted, CtlFailed,
                    CtlReturns, CtlPublishes
    <2>2. act'[a] = act[a]
        BY <1>1, <2>1
    <2> QED
        BY <2>2
<1>7. ASSUME NEW b \in Actors, CancelContext(b)
      PROVE  FALSE
    BY <1>1, <1>7 DEF CancelContext, ActorType
<1>8. ASSUME NEW l \in Holders, Holding(l) \/ \E g \in Gens : LeaseTaken(l, g) \/ LeaseRefused(l, g)
      PROVE  FALSE
    <2>1. act' = act
        BY <1>8 DEF Holding, LeaseConfirmed, Release, LeaseTaken, LeaseRefused
    <2> QED
        BY <2>1
<1>9. ASSUME NEW g \in Gens, Generation(g) \/ CandidateStops(g)
      PROVE  FALSE
    <2>1. act' = act
        BY <1>9 DEF Generation, Observe, ObserveEnds, Cleanup, CandidateStops
    <2> QED
        BY <2>1
<1>10. CASE CloseBegins \/ Closing \/ CloseTimesOut
    <2>1. act' = act \/ act' = [act EXCEPT ![Ctl].ctxDone = TRUE]
        BY <1>10 DEF CloseBegins, Closing, CloseWaits, CloseReturns, CloseTimesOut
    <2>2. act'[a] = act[a]
        BY <1>1, <2>1
    <2> QED
        BY <2>2
<1>11. CASE UNCHANGED vars
    BY <1>11 DEF vars
<1>12. Ctl \in Actors /\ Activators \subseteq Actors
    BY DEF Actors
<1> QED
    BY <1>2, <1>3, <1>4, <1>5, <1>6, <1>7, <1>8, <1>9, <1>10, <1>11, <1>12 DEF Next, Activation, Controller

\* The last explicit activation to fail leaves an unhealthy current generation with an episode.
LEMMA RearmSteps ==
    ASSUME IInv, [Next]_vars
    PROVE  RearmStep
<1> SUFFICES ASSUME NEW a \in Activators, act[a].pc = "finish", ~act[a].ok, act'[a].pc = "idle", Explicit' = 0,
                    Sick(host.current), ~host.closing, host.desired # 0, MaxAttempts # 0
             PROVE  host'.recovery # None
    BY DEF RearmStep
<1> DEFINE c == host.current
           e == [gen |-> c, rev |-> host.desired, revision |-> host.revision, attempts |-> 0, exhausted |-> FALSE]
<1>1. FinishExplicit(a) /\ host \in HostType /\ act \in [Actors -> ActorType] /\ a \in Actors
    BY OnlyFinished DEF IInv, Typed, Actors
<1>2. act' = [act EXCEPT ![a] = IdleActor] /\ host' = Schedule(host, c, Explicit - 1)
    BY <1>1 DEF FinishExplicit
<1>3. Explicit - 1 = 0
    <2>1. \A b \in Activators : b # a => act'[b].pc = act[b].pc
        BY <1>1, <1>2 DEF Actors
    <2>2. ExplicitOf(act') = ExplicitOf(act) - 1
        BY <2>1, ExplicitLess
    <2>3. Explicit' = ExplicitOf(act')
        BY DEF Explicit, ExplicitOf
    <2> QED
        BY <2>2, <2>3, ExplicitIs
<1>4. e \in Episodes /\ e # None
    <2>1. host.desired \in 0 .. MaxRevision /\ host.revision \in 0 .. MaxRevision /\ 0 \in 0 .. MaxAttempts /\ c \in Gens
        BY <1>1, HostAssumption DEF HostType
    <2>2. e \in Episodes
        BY <2>1 DEF Episodes
    <2> HIDE DEF e
    <2> QED
        BY <2>2, HostAssumption
<1>5. (Schedule(host, c, 0) = host /\ host.recovery # None) \/ Schedule(host, c, 0) = [host EXCEPT !.recovery = e, !.wake = TRUE, !.mine = FALSE]
    BY DEF Schedule
<1> HIDE DEF e, c
<1> QED
    BY <1>1, <1>2, <1>3, <1>4, <1>5 DEF HostType

\* A new host has the compiled generation and nothing else.
LEMMA Initially ==
    ASSUME Init
    PROVE  IInv
<1>1. 0 \in Gens /\ 0 \in 0 .. MaxRevision /\ 0 \in 0 .. MaxAttempts /\ 0 \in 0 .. MaxTry
    BY HostAssumption DEF Gens
<1>2. 0 \in 0 .. Cardinality(Holders)
    BY HostAssumption, FS_CardinalityType
<1> DEFINE N == [NoGen EXCEPT !.state = "owned"]
           pc == IF MaxAttempts = 0 THEN "done" ELSE "select"
           C == [IdleActor EXCEPT !.pc = pc]
<1>3. /\ NoGen \in GenType /\ NoGen.state = "none" /\ NoGen.refs = 0 /\ ~NoGen.cleaning
      /\ N \in GenType /\ N.state = "owned" /\ N.refs = 0 /\ ~N.cleaning /\ N.rev = 0
    BY <1>1, <1>2 DEF NoGen, GenType
<1>4. /\ IdleActor \in ActorType /\ IdleActor.pc = "idle"
      /\ C \in ActorType /\ C.pc \in {"done", "select"}
    <2>1. pc \in {"done", "select"}
        OBVIOUS
    <2> HIDE DEF pc
    <2> QED
        BY <1>1, <2>1 DEF IdleActor, ActorType
<1>5. gen = [g \in Gens |-> IF g = 0 THEN N ELSE NoGen] /\ act = [a \in Actors |-> IF a # Ctl THEN IdleActor ELSE C]
    BY DEF Init
<1> HIDE DEF N, C
<1>6. /\ gen \in [Gens -> GenType] /\ gen[0] = N /\ \A g \in Gens : g # 0 => gen[g] = NoGen
      /\ act \in [Actors -> ActorType]
      /\ \A a \in Activators : act[a] = IdleActor
      /\ act[Ctl] = C
    BY <1>1, <1>3, <1>4, <1>5, HostAssumption DEF Actors
<1>7. /\ host = [current |-> 0, available |-> {0}, desired |-> 0, revision |-> 0, sequence |-> 0,
                 recovery |-> None, wake |-> FALSE, mine |-> FALSE, closing |-> FALSE, stopped |-> FALSE]
      /\ token = None /\ lease = [l \in Holders |-> [pc |-> "idle", gen |-> 0]]
      /\ closer = [pc |-> "idle", try |-> 0]
    BY DEF Init
<1>8. /\ host \in HostType /\ host.current = 0 /\ 0 \in host.available /\ host.desired = 0 /\ host.revision = 0
      /\ host.sequence = 0 /\ host.recovery = None /\ ~host.mine /\ ~host.closing /\ ~host.stopped
    BY <1>1, <1>7 DEF HostType
<1>9. /\ closer \in CloserType /\ closer.pc = "idle" /\ lease \in [Holders -> LeaseType]
      /\ \A l \in Holders : lease[l].pc = "idle"
    BY <1>1, <1>7 DEF CloserType, LeaseType
<1>10. Typed
    BY <1>6, <1>7, <1>8, <1>9 DEF Typed
<1>11. Leased(gen, lease)
    <2>1. \A g \in Gens : Users(lease, g) = {}
        BY <1>9 DEF Users
    <2>2. Cardinality({}) = 0
        BY FS_EmptySet
    <2>3. \A g \in Gens : gen[g].refs = 0 /\ ~gen[g].cleaning
        BY <1>3, <1>6
    <2> QED
        BY <2>1, <2>2, <2>3 DEF Leased
<1>12. Staged(gen, act, token, host.sequence)
    <2>1. \A a \in Actors : act[a].pc \in {"idle", "done", "select"}
        BY <1>4, <1>6 DEF Actors
    <2>2. \A a \in Actors : ~Stages(act, a)
        BY <2>1 DEF Stages
    <2>3. \A a \in Actors : act[a].pc = "staging" <=> token = a
        BY <1>7, <2>1, HostAssumption
    <2>4. \A g \in Gens : gen[g].state # "staged" /\ (g > 0 => gen[g].state = "none")
        <3>1. \A g \in Gens : g > 0 => g # 0
            BY DEF Gens
        <3> QED
            BY <3>1, <1>3, <1>6
    <2>5. \A a \in Activators : act[a].pc = "idle"
        BY <1>4, <1>6
    <2> QED
        BY <1>8, <2>2, <2>3, <2>4, <2>5 DEF Staged
<1>13. Current(gen, host)
    BY <1>3, <1>6, <1>8 DEF Current
<1>14. Episode(gen, host, act)
    BY <1>8 DEF Episode
<1>15. Stopped(gen, host, act, lease, token, closer)
    BY <1>8, <1>9 DEF Stopped
<1> QED
    BY <1>10, <1>11, <1>12, <1>13, <1>14, <1>15 DEF IInv

-----------------------------------------------------------------------------
(* Who has the staged generations.                                         *)

\* What an actor stages, and nothing else of it, decides who has the staged generations.
LEMMA StagedAlike ==
    ASSUME NEW gn, NEW ac, NEW ac2, NEW tk, NEW tk2, NEW sq, Staged(gn, ac, tk, sq),
           \A b \in Actors : Stages(ac2, b) <=> Stages(ac, b),
           \A b \in Actors : Stages(ac2, b) => ac2[b].gen = ac[b].gen /\ ac2[b].rev = ac[b].rev,
           \A b \in Actors : ac2[b].pc = "staging" <=> tk2 = b,
           \A b \in Activators : ac2[b].pc \in {"idle", "enter", "staging", "publish", "discard", "finish"}
    PROVE  Staged(gn, ac2, tk2, sq)
<1>1. ASSUME NEW b \in Actors, Stages(ac2, b)
      PROVE  ac2[b].gen \in 1 .. sq /\ gn[ac2[b].gen].state = "staged" /\ gn[ac2[b].gen].rev = ac2[b].rev
    <2>1. ac[b].gen \in 1 .. sq /\ gn[ac[b].gen].state = "staged" /\ gn[ac[b].gen].rev = ac[b].rev
        BY Zenon, <1>1 DEF Staged
    <2>2. ac2[b].gen = ac[b].gen /\ ac2[b].rev = ac[b].rev
        BY Zenon, <1>1
    <2> QED
        BY <2>1, <2>2
<1>2. ASSUME NEW b \in Actors, NEW c \in Actors, Stages(ac2, b), Stages(ac2, c), ac2[b].gen = ac2[c].gen
      PROVE  b = c
    <2>1. Stages(ac, b) /\ Stages(ac, c) /\ ac2[b].gen = ac[b].gen /\ ac2[c].gen = ac[c].gen
        BY Zenon, <1>2
    <2>2. ac[b].gen = ac[c].gen
        BY <1>2, <2>1
    <2> QED
        BY Zenon, <2>1, <2>2 DEF Staged
<1>3. ASSUME NEW g \in Gens, gn[g].state = "staged"
      PROVE  \E b \in Actors : Stages(ac2, b) /\ ac2[b].gen = g
    <2>1. PICK b \in Actors : Stages(ac, b) /\ ac[b].gen = g
        BY Zenon, <1>3 DEF Staged
    <2>2. Stages(ac2, b) /\ ac2[b].gen = ac[b].gen
        BY Zenon, <2>1
    <2> QED
        BY <2>1, <2>2
<1>4. \A g \in Gens : g > sq => gn[g].state = "none"
    BY Zenon DEF Staged
<1> QED
    BY Zenon, <1>1, <1>2, <1>3, <1>4 DEF Staged

\* An actor that stages nothing before and after the step disturbs nobody.
LEMMA StagedElsewhere ==
    ASSUME NEW gn, NEW ac, NEW ac2, NEW tk, NEW sq, NEW a \in Actors, Staged(gn, ac, tk, sq),
           OnlyActor(ac, ac2, a), ~Stages(ac, a), ~Stages(ac2, a),
           a \in Activators => ac2[a].pc \in {"idle", "enter", "staging", "publish", "discard", "finish"}
    PROVE  Staged(gn, ac2, tk, sq)
<1>1. \A b \in Actors : /\ Stages(ac2, b) <=> Stages(ac, b)
                        /\ ac2[b].pc = "staging" <=> ac[b].pc = "staging"
    BY DEF OnlyActor, Stages
<1>2. \A b \in Actors : Stages(ac2, b) => ac2[b].gen = ac[b].gen /\ ac2[b].rev = ac[b].rev
    BY DEF OnlyActor
<1>3. \A b \in Activators : ac2[b].pc \in {"idle", "enter", "staging", "publish", "discard", "finish"}
    BY DEF OnlyActor, Staged, Actors
<1>4. \A b \in Actors : ac2[b].pc = "staging" <=> tk = b
    BY Zenon, <1>1 DEF Staged
<1> QED
    BY Zenon, <1>1, <1>2, <1>3, <1>4, StagedAlike

\* An actor that keeps its staged generation; the token changes with it.
LEMMA StagedKept ==
    ASSUME NEW gn, NEW ac, NEW ac2, NEW tk, NEW tk2, NEW sq, NEW a \in Actors, Staged(gn, ac, tk, sq),
           OnlyActor(ac, ac2, a), Stages(ac, a), Stages(ac2, a),
           ac2[a].gen = ac[a].gen, ac2[a].rev = ac[a].rev,
           ac2[a].pc = "staging" <=> tk2 = a,
           \A b \in Actors : b # a => (tk2 = b <=> tk = b)
    PROVE  Staged(gn, ac2, tk2, sq)
<1>1. \A b \in Actors : Stages(ac2, b) <=> Stages(ac, b)
    BY DEF OnlyActor, Stages
<1>2. \A b \in Actors : ac2[b].gen = ac[b].gen /\ ac2[b].rev = ac[b].rev
    BY DEF OnlyActor
<1>3. \A b \in Activators : ac2[b].pc \in {"idle", "enter", "staging", "publish", "discard", "finish"}
    <2>1. ac2[a].pc \in {"idle", "enter", "staging", "publish", "discard", "finish"}
        BY DEF Stages
    <2> QED
        BY <2>1 DEF OnlyActor, Staged, Actors
<1>4. \A b \in Actors : ac2[b].pc = "staging" <=> tk2 = b
    BY DEF OnlyActor, Staged
<1>5. \A b \in Actors : Stages(ac2, b) => ac2[b].gen = ac[b].gen /\ ac2[b].rev = ac[b].rev
    BY Zenon, <1>2
<1> QED
    BY <1>1, <1>3, <1>4, <1>5, StagedAlike

\* An actor gives its staged generation up, to the owned ones or to nobody.
Leaves(gn, gn2, ac, ac2, tk, tk2, a) ==
    /\ OnlyActor(ac, ac2, a) /\ Stages(ac, a) /\ ~Stages(ac2, a)
    /\ gn2[ac[a].gen].state # "staged"
    /\ \A g \in Gens : g # ac[a].gen => gn2[g].state = gn[g].state /\ gn2[g].rev = gn[g].rev
    /\ tk2 # a /\ \A b \in Actors : b # a => (tk2 = b <=> tk = b)
    /\ a \in Activators => ac2[a].pc \in {"idle", "enter", "staging", "publish", "discard", "finish"}

\* Then the others have theirs.
LEMMA StagedLeft ==
    ASSUME NEW gn, NEW gn2, NEW ac, NEW ac2, NEW tk, NEW tk2, NEW sq \in Gens, NEW a \in Actors,
           Staged(gn, ac, tk, sq), Leaves(gn, gn2, ac, ac2, tk, tk2, a)
    PROVE  Staged(gn2, ac2, tk2, sq)
<1>0. /\ OnlyActor(ac, ac2, a) /\ Stages(ac, a) /\ ~Stages(ac2, a) /\ gn2[ac[a].gen].state # "staged"
      /\ \A g \in Gens : g # ac[a].gen => gn2[g].state = gn[g].state /\ gn2[g].rev = gn[g].rev
      /\ tk2 # a /\ \A b \in Actors : b # a => (tk2 = b <=> tk = b)
      /\ a \in Activators => ac2[a].pc \in {"idle", "enter", "staging", "publish", "discard", "finish"}
    BY DEF Leaves
<1>1. 1 .. sq \subseteq Gens
    BY UpTo
<1>2. \A b \in Actors : Stages(ac2, b) => b # a /\ Stages(ac, b)
    BY <1>0 DEF OnlyActor, Stages
<1>3. \A b \in Actors : Stages(ac2, b) => ac2[b].gen = ac[b].gen /\ ac2[b].rev = ac[b].rev
    BY <1>0, <1>2 DEF OnlyActor
<1>4. \A b \in Actors : Stages(ac2, b) =>
        /\ ac2[b].gen \in 1 .. sq /\ gn2[ac2[b].gen].state = "staged" /\ gn2[ac2[b].gen].rev = ac2[b].rev
    <2> SUFFICES ASSUME NEW b \in Actors, Stages(ac2, b)
                 PROVE  /\ ac2[b].gen \in 1 .. sq /\ gn2[ac2[b].gen].state = "staged"
                        /\ gn2[ac2[b].gen].rev = ac2[b].rev
        BY Zenon
    <2>1. b # a /\ Stages(ac, b) /\ ac2[b].gen = ac[b].gen /\ ac2[b].rev = ac[b].rev
        BY Zenon, <1>2, <1>3
    <2>2. ac[b].gen \in 1 .. sq /\ gn[ac[b].gen].state = "staged" /\ gn[ac[b].gen].rev = ac[b].rev
        BY Zenon, <2>1 DEF Staged
    <2>3. ac[b].gen \in Gens /\ ac[b].gen # ac[a].gen
        BY Zenon, <1>0, <1>1, <2>1, <2>2 DEF Staged
    <2> QED
        BY Zenon, <1>0, <2>1, <2>2, <2>3
<1>5. \A b, c \in Actors : Stages(ac2, b) /\ Stages(ac2, c) /\ ac2[b].gen = ac2[c].gen => b = c
    BY <1>2, <1>3 DEF Staged
<1>6. \A b \in Actors : ac2[b].pc = "staging" <=> tk2 = b
    <2> SUFFICES ASSUME NEW b \in Actors
                 PROVE  ac2[b].pc = "staging" <=> tk2 = b
        BY Zenon
    <2>1. CASE b = a
        BY Zenon, <1>0, <2>1 DEF Stages
    <2>2. CASE b # a
        <3>1. ac2[b].pc = ac[b].pc
            BY Zenon, <1>0, <2>2 DEF OnlyActor
        <3>2. ac[b].pc = "staging" <=> tk = b
            BY Zenon DEF Staged
        <3>3. tk2 = b <=> tk = b
            BY Zenon, <1>0, <2>2
        <3> QED
            BY Zenon, <3>1, <3>2, <3>3
    <2> QED
        BY Zenon, <2>1, <2>2
<1>7. ASSUME NEW g \in Gens, gn2[g].state = "staged"
      PROVE  \E b \in Actors : Stages(ac2, b) /\ ac2[b].gen = g
    <2>1. g # ac[a].gen /\ gn[g].state = "staged"
        BY <1>0, <1>7
    <2>2. PICK b \in Actors : Stages(ac, b) /\ ac[b].gen = g
        BY <2>1 DEF Staged
    <2>3. b # a
        BY <1>0, <2>1, <2>2
    <2> QED
        BY <1>0, <2>2, <2>3 DEF OnlyActor, Stages
<1>8. \A g \in Gens : g > sq => gn2[g].state = "none"
    <2>1. ac[a].gen \in 1 .. sq
        BY <1>0 DEF Staged
    <2>2. \A g \in Gens : g > sq => g # ac[a].gen
        BY <2>1, HostAssumption DEF Gens
    <2> QED
        BY <1>0, <2>2 DEF Staged
<1>9. \A b \in Activators : ac2[b].pc \in {"idle", "enter", "staging", "publish", "discard", "finish"}
    BY <1>0 DEF OnlyActor, Staged, Actors
<1> QED
    BY <1>4, <1>5, <1>6, <1>7, <1>8, <1>9 DEF Staged

-----------------------------------------------------------------------------
(* Steps of an actor that leave the generations alone.                     *)

\* The program points of an attempt of the controller.
AttemptPcs == {"backoff", "enter", "staging", "publish", "discard", "failed"}

\* One actor's record changes.
LEMMA OneActor ==
    ASSUME act \in [Actors -> ActorType], NEW a \in Actors, NEW r \in ActorType, act' = [act EXCEPT ![a] = r]
    PROVE  /\ act' \in [Actors -> ActorType] /\ act'[a] = r
           /\ \A b \in Actors : b # a => act'[b] = act[b]
           /\ OnlyActor(act, act', a)
<1>1. act' \in [Actors -> ActorType] /\ act'[a] = r /\ \A b \in Actors : b # a => act'[b] = act[b]
    BY Zenon
<1> QED
    BY <1>1 DEF OnlyActor

\* signalLocked wakes a Close that sleeps and starts none.
LEMMA Signalled ==
    ASSUME closer \in CloserType, Signal \/ UNCHANGED closer
    PROVE  closer' \in CloserType /\ (closer'.pc # "idle" => closer.pc # "idle")
    BY DEF CloserType, Signal

\* A goroutine that is still inside the host keeps it from having stopped.
LEMMA StillRunning ==
    ASSUME NEW a \in Actors, Stopped(gen, host, act, lease, token, closer),
           act[a].pc \notin {"idle", "done"}
    PROVE  ~host.stopped
    BY ExplicitZero DEF Stopped, JoinedOf, Actors

\* An episode is served on while the controller goes from point to point of its attempt.
LEMMA EpisodeFrame ==
    ASSUME NEW gn, NEW gn2, NEW h, NEW ac, NEW ac2, Episode(gn, h, ac),
           gn[h.current].unhealthy => gn2[h.current].unhealthy,
           ExplicitOf(ac2) = ExplicitOf(ac),
           ac[Ctl].pc = "loop" => ac2[Ctl].pc = "loop",
           ac[Ctl].pc \in AttemptPcs =>
              /\ ac2[Ctl].pc \in AttemptPcs /\ ac2[Ctl].rev = ac[Ctl].rev
              /\ ac2[Ctl].pc = "backoff" => ac[Ctl].pc = "backoff" /\ ac2[Ctl].ctxDone = ac[Ctl].ctxDone
    PROVE  Episode(gn2, h, ac2)
    BY DEF Episode, AttemptPcs

\* The same, within an attempt.
LEMMA AttemptFrame ==
    ASSUME NEW gn, NEW h, NEW ac, NEW ac2, Episode(gn, h, ac), ExplicitOf(ac2) = ExplicitOf(ac),
           ac[Ctl].pc \in AttemptPcs, ac2[Ctl].pc \in AttemptPcs, ac2[Ctl].pc # "backoff",
           ac2[Ctl].rev = ac[Ctl].rev
    PROVE  Episode(gn, h, ac2)
    BY DEF Episode, AttemptPcs

\* What is left to show of a step that changes one actor.
LEMMA ActorMoves ==
    ASSUME IInv, act' \in [Actors -> ActorType], UNCHANGED <<gen, lease>>,
           host' \in HostType, token' \in Actors \cup {None}, Signal \/ UNCHANGED closer,
           Staged(gen, act', token', host'.sequence), Current(gen, host'), Episode(gen, host', act'),
           host'.closing = host.closing, ~host'.stopped
    PROVE  IInv'
<1>1. Typed'
    BY Signalled DEF IInv, Typed
<1>2. Leased(gen, lease)'
    BY DEF IInv
<1>3. Stopped(gen, host, act, lease, token, closer)'
    BY Signalled DEF IInv, Typed, Stopped
<1> QED
    BY <1>1, <1>2, <1>3 DEF IInv

\* A step of an actor a that is not at rest, that changes only its record and stages nothing.
LEMMA ActorAlone ==
    ASSUME IInv, NEW a \in Actors, NEW r \in ActorType, act' = [act EXCEPT ![a] = r],
           UNCHANGED <<gen, host, token, lease>>, Signal \/ UNCHANGED closer,
           act[a].pc \notin {"idle", "done"}, Staged(gen, act', token, host.sequence),
           a = Ctl => Episode(gen, host, act'), a # Ctl => r.pc # "idle"
    PROVE  IInv'
<1>1. /\ act' \in [Actors -> ActorType] /\ act'[a] = r
      /\ \A b \in Actors : b # a => act'[b] = act[b]
    BY OneActor, Zenon DEF IInv, Typed
<1>2. ~host.stopped
    BY StillRunning DEF IInv
<1>3. Episode(gen, host, act')
    <2>1. CASE a = Ctl
        BY <2>1
    <2>2. CASE a # Ctl
        <3>1. \A b \in Activators : act'[b].pc = "idle" <=> act[b].pc = "idle"
            BY <1>1, <2>2 DEF Actors
        <3>2. ExplicitOf(act') = ExplicitOf(act)
            BY <3>1, ExplicitSame
        <3>3. act'[Ctl] = act[Ctl]
            BY <1>1, <2>2 DEF Actors
        <3>4. Episode(gen, host, act)
            BY DEF IInv
        <3> QED
            BY <3>2, <3>3, <3>4, EpisodeFrame
    <2> QED
        BY <2>1, <2>2
<1> QED
    BY <1>1, <1>2, <1>3, ActorMoves DEF IInv, Typed

\* What the controller does to its own record leaves the explicit activations.
LEMMA ControllerAlone ==
    ASSUME act \in [Actors -> ActorType], NEW r \in ActorType, act' = [act EXCEPT ![Ctl] = r]
    PROVE  ExplicitOf(act') = ExplicitOf(act) /\ act'[Ctl] = r
<1>1. Ctl \in Actors /\ \A b \in Activators : b # Ctl /\ b \in Actors
    BY HostAssumption DEF Actors
<1>2. act'[Ctl] = r /\ \A b \in Activators : act'[b] = act[b]
    BY <1>1, OneActor
<1> QED
    BY <1>2, ExplicitSame

\* beginActivation refuses.
LEMMA EnterRefusedStep ==
    ASSUME IInv, NEW a \in Actors, EnterRefused(a)
    PROVE  IInv'
<1> DEFINE pc == IF a = Ctl THEN "failed" ELSE "finish"
           r == [act[a] EXCEPT !.pc = pc, !.gen = 0, !.ok = FALSE]
<1>1. act \in [Actors -> ActorType] /\ act[a] \in ActorType /\ act[a].pc = "enter"
    BY DEF IInv, Typed, EnterRefused
<1>2. act' = [act EXCEPT ![a] = r]
    BY DEF EnterRefused, StageError
<1>3. r \in ActorType /\ r.pc = pc /\ r.rev = act[a].rev
    <2>1. pc \in {"failed", "finish"} /\ 0 \in Gens
        BY HostAssumption DEF Gens
    <2> HIDE DEF pc
    <2> QED
        BY <1>1, <2>1 DEF ActorType
<1> HIDE DEF r
<1>4. act'[a] = r /\ OnlyActor(act, act', a)
    BY <1>1, <1>2, <1>3, OneActor, Zenon
<1>5. Staged(gen, act', token, host.sequence)
    <2>1. ~Stages(act, a) /\ ~Stages(act', a)
        BY <1>1, <1>3, <1>4 DEF Stages
    <2>2. a \in Activators => act'[a].pc \in {"idle", "enter", "staging", "publish", "discard", "finish"}
        BY <1>3, <1>4, HostAssumption
    <2>3. Staged(gen, act, token, host.sequence)
        BY DEF IInv
    <2> QED
        BY <1>4, <2>1, <2>2, <2>3, StagedElsewhere
<1>6. ASSUME a = Ctl
      PROVE  Episode(gen, host, act')
    <2>1. ExplicitOf(act') = ExplicitOf(act) /\ act'[Ctl] = r
        BY <1>1, <1>2, <1>3, <1>6, ControllerAlone
    <2>2. act'[Ctl].pc = "failed" /\ act'[Ctl].rev = act[Ctl].rev /\ act[Ctl].pc = "enter"
        BY <1>1, <1>3, <1>6, <2>1
    <2>3. Episode(gen, host, act)
        BY DEF IInv
    <2>4. act[Ctl].pc \in AttemptPcs /\ act'[Ctl].pc \in AttemptPcs /\ act'[Ctl].pc # "backoff"
        BY <2>2 DEF AttemptPcs
    <2> QED
        BY <2>1, <2>2, <2>3, <2>4, AttemptFrame
<1>7. UNCHANGED <<gen, host, token, lease>> /\ UNCHANGED closer
    BY DEF EnterRefused
<1>8. a # Ctl => r.pc # "idle"
    BY <1>3
<1> QED
    BY <1>1, <1>2, <1>3, <1>5, <1>6, <1>7, <1>8, ActorAlone

\* The caller's context ends, or the attempt's deadline passes.
LEMMA CancelContextStep ==
    ASSUME IInv, NEW a \in Actors, CancelContext(a)
    PROVE  IInv'
<1> DEFINE r == [act[a] EXCEPT !.ctxDone = TRUE]
<1>1. act \in [Actors -> ActorType] /\ act[a] \in ActorType /\ act[a].pc \in {"enter", "staging", "publish"}
    BY DEF IInv, Typed, CancelContext
<1>2. act' = [act EXCEPT ![a] = r]
    BY DEF CancelContext
<1>3. r \in ActorType /\ r.pc = act[a].pc /\ r.rev = act[a].rev /\ r.gen = act[a].gen
    BY <1>1 DEF ActorType
<1> HIDE DEF r
<1>4. act'[a] = r /\ OnlyActor(act, act', a)
    BY <1>1, <1>2, <1>3, OneActor, Zenon
<1>5. Staged(gen, act', token, host.sequence)
    <2>1. Staged(gen, act, token, host.sequence)
        BY DEF IInv
    <2>2. CASE Stages(act, a)
        <3>1. Stages(act', a) /\ act'[a].gen = act[a].gen /\ act'[a].rev = act[a].rev
            BY <2>2, <1>3, <1>4 DEF Stages
        <3>2. act'[a].pc = "staging" <=> token = a
            BY <2>1, <1>3, <1>4 DEF Staged
        <3> QED
            BY <2>1, <2>2, <3>1, <3>2, <1>4, StagedKept
    <2>3. CASE ~Stages(act, a)
        <3>1. ~Stages(act', a)
            BY <2>3, <1>3, <1>4 DEF Stages
        <3>2. a \in Activators => act'[a].pc \in {"idle", "enter", "staging", "publish", "discard", "finish"}
            BY <2>1, <1>3, <1>4 DEF Staged
        <3> QED
            BY <2>1, <2>3, <3>1, <3>2, <1>4, StagedElsewhere
    <2> QED
        BY <2>2, <2>3
<1>6. ASSUME a = Ctl
      PROVE  Episode(gen, host, act')
    <2>1. ExplicitOf(act') = ExplicitOf(act) /\ act'[Ctl] = r
        BY <1>1, <1>2, <1>3, <1>6, ControllerAlone
    <2>2. act'[Ctl].pc = act[Ctl].pc /\ act'[Ctl].rev = act[Ctl].rev
          /\ act[Ctl].pc \in {"enter", "staging", "publish"}
        BY <1>1, <1>3, <1>6, <2>1
    <2>3. Episode(gen, host, act)
        BY DEF IInv
    <2>4. act[Ctl].pc \in AttemptPcs /\ act'[Ctl].pc \in AttemptPcs /\ act'[Ctl].pc # "backoff"
        BY <2>2 DEF AttemptPcs
    <2> QED
        BY <2>1, <2>2, <2>3, <2>4, AttemptFrame
<1>7. UNCHANGED <<gen, host, token, lease>> /\ UNCHANGED closer
    BY DEF CancelContext
<1>8. act[a].pc \notin {"idle", "done"} /\ r.pc # "idle"
    BY <1>1, <1>3
<1> QED
    BY <1>2, <1>3, <1>5, <1>6, <1>7, <1>8, ActorAlone

\* publishExplicit and the controller's publication refuse: the candidates will be closed.
LEMMA RefusedStep ==
    ASSUME IInv, NEW a \in Actors, act[a].pc = "publish", act' = [act EXCEPT ![a].pc = "discard"],
           UNCHANGED <<gen, host, token, lease, closer>>
    PROVE  IInv'
<1> DEFINE r == [act[a] EXCEPT !.pc = "discard"]
<1>1. act \in [Actors -> ActorType] /\ act[a] \in ActorType
    BY DEF IInv, Typed
<1>2. act' = [act EXCEPT ![a] = r]
    OBVIOUS
<1>3. r \in ActorType /\ r.pc = "discard" /\ r.rev = act[a].rev /\ r.gen = act[a].gen
    BY <1>1 DEF ActorType
<1> HIDE DEF r
<1>4. act'[a] = r /\ OnlyActor(act, act', a)
    BY <1>1, <1>2, <1>3, OneActor, Zenon
<1>5. Staged(gen, act', token, host.sequence)
    <2>1. Staged(gen, act, token, host.sequence)
        BY DEF IInv
    <2>2. Stages(act, a) /\ Stages(act', a) /\ act'[a].gen = act[a].gen /\ act'[a].rev = act[a].rev
        BY <1>3, <1>4 DEF Stages
    <2>3. act'[a].pc = "staging" <=> token = a
        BY <2>1, <1>3, <1>4 DEF Staged
    <2> QED
        BY <2>1, <2>2, <2>3, <1>4, StagedKept
<1>6. ASSUME a = Ctl
      PROVE  Episode(gen, host, act')
    <2>1. ExplicitOf(act') = ExplicitOf(act) /\ act'[Ctl] = r
        BY <1>1, <1>2, <1>3, <1>6, ControllerAlone
    <2>2. act'[Ctl].pc = "discard" /\ act'[Ctl].rev = act[Ctl].rev /\ act[Ctl].pc = "publish"
        BY <1>3, <1>6, <2>1
    <2>3. Episode(gen, host, act)
        BY DEF IInv
    <2>4. act[Ctl].pc \in AttemptPcs /\ act'[Ctl].pc \in AttemptPcs /\ act'[Ctl].pc # "backoff"
        BY <2>2 DEF AttemptPcs
    <2> QED
        BY <2>1, <2>2, <2>3, <2>4, AttemptFrame
<1>7. act[a].pc \notin {"idle", "done"} /\ r.pc # "idle"
    BY <1>3
<1>8. UNCHANGED <<gen, host, token, lease>> /\ UNCHANGED closer
    OBVIOUS
<1> QED
    BY <1>2, <1>3, <1>5, <1>6, <1>7, <1>8, ActorAlone

\* finish returns the token of a staging that succeeded.
LEMMA StageDoneStep ==
    ASSUME IInv, NEW a \in Actors, StageDone(a)
    PROVE  IInv'
<1> DEFINE r == [act[a] EXCEPT !.pc = "publish"]
<1>1. act \in [Actors -> ActorType] /\ act[a] \in ActorType /\ act[a].pc = "staging" /\ token' = None
      /\ UNCHANGED <<gen, host, lease>> /\ (Signal \/ UNCHANGED closer)
    BY DEF IInv, Typed, StageDone
<1>2. act' = [act EXCEPT ![a] = r]
    BY DEF StageDone
<1>3. r \in ActorType /\ r.pc = "publish" /\ r.rev = act[a].rev /\ r.gen = act[a].gen
    BY <1>1 DEF ActorType
<1> HIDE DEF r
<1>4. act' \in [Actors -> ActorType] /\ act'[a] = r /\ OnlyActor(act, act', a)
      /\ \A b \in Actors : b # a => act'[b] = act[b]
    BY <1>1, <1>2, <1>3, OneActor, Zenon
<1>5. Staged(gen, act', token', host'.sequence)
    <2>1. Staged(gen, act, token, host.sequence)
        BY DEF IInv
    <2>2. Stages(act, a) /\ Stages(act', a) /\ act'[a].gen = act[a].gen /\ act'[a].rev = act[a].rev
        BY <1>1, <1>3, <1>4 DEF Stages
    <2>3. token = a
        BY <1>1, <2>1 DEF Staged
    <2>4. act'[a].pc = "staging" <=> token' = a
        BY <1>1, <1>3, <1>4, HostAssumption
    <2>5. \A b \in Actors : b # a => (token' = b <=> token = b)
        BY <1>1, <2>3, HostAssumption
    <2> QED
        BY <1>1, <2>1, <2>2, <2>4, <2>5, <1>4, StagedKept
<1>6. Episode(gen, host', act')
    <2>1. Episode(gen, host, act)
        BY DEF IInv
    <2>2. ExplicitOf(act') = ExplicitOf(act)
        BY <1>1, <1>3, <1>4, ExplicitSame DEF Actors
    <2>3. \/ act'[Ctl] = act[Ctl]
          \/ act'[Ctl].pc = "publish" /\ act'[Ctl].rev = act[Ctl].rev /\ act[Ctl].pc = "staging"
        BY <1>1, <1>3, <1>4 DEF Actors
    <2> QED
        BY <1>1, <2>1, <2>2, <2>3, EpisodeFrame DEF AttemptPcs
<1>7. ~host.stopped
    BY <1>1, StillRunning DEF IInv
<1> QED
    BY <1>1, <1>4, <1>5, <1>6, <1>7, ActorMoves DEF IInv, Typed

-----------------------------------------------------------------------------
(* The controller's own steps.                                             *)

\* Only the fields of the recovery change.
SameHost(h, h2) ==
    /\ h2.current = h.current /\ h2.available = h.available /\ h2.desired = h.desired
    /\ h2.revision = h.revision /\ h2.sequence = h.sequence /\ h2.closing = h.closing /\ h2.stopped = h.stopped

\* The host's record with other recovery fields.
LEMMA RecoveryFields ==
    ASSUME NEW h \in HostType, NEW e \in Episodes \cup {None}, NEW w \in BOOLEAN, NEW m \in BOOLEAN
    PROVE  LET h2 == [h EXCEPT !.recovery = e, !.wake = w, !.mine = m]
           IN  h2 \in HostType /\ SameHost(h, h2) /\ h2.recovery = e /\ h2.wake = w /\ h2.mine = m
    BY DEF HostType, SameHost

\* What is left to show of a step of recoverOnce.
LEMMA ControllerMoves ==
    ASSUME IInv, NEW r \in ActorType, act' = [act EXCEPT ![Ctl] = r], act[Ctl].pc # "done",
           act[Ctl].pc # "idle", ~Stages(act, Ctl), r.pc \notin {"staging", "publish", "discard"},
           UNCHANGED <<gen, token, lease>>, Signal \/ UNCHANGED closer,
           host' \in HostType, SameHost(host, host'),
           (ExplicitOf(act') = ExplicitOf(act) /\ act'[Ctl] = r) => Episode(gen, host', act')
    PROVE  IInv'
<1>1. Ctl \in Actors
    BY DEF Actors
<1>2. act' \in [Actors -> ActorType] /\ act'[Ctl] = r /\ OnlyActor(act, act', Ctl)
    BY <1>1, OneActor, Zenon DEF IInv, Typed
<1>3. Episode(gen, host', act')
    BY ControllerAlone DEF IInv, Typed
<1>4. Staged(gen, act', token', host'.sequence)
    <2>1. Staged(gen, act, token, host.sequence)
        BY DEF IInv
    <2>2. ~Stages(act', Ctl)
        BY <1>2 DEF Stages
    <2>3. Ctl \notin Activators
        BY HostAssumption
    <2>4. Staged(gen, act', token, host.sequence)
        BY <1>1, <1>2, <2>1, <2>2, <2>3, StagedElsewhere
    <2> QED
        BY <2>4 DEF SameHost
<1>5. Current(gen, host')
    BY DEF IInv, Current, SameHost
<1>6. ~host'.stopped /\ host'.closing = host.closing
    BY <1>1, StillRunning DEF IInv, SameHost
<1> QED
    BY <1>2, <1>3, <1>4, <1>5, <1>6, ActorMoves DEF IInv, Typed

\* The wakeup is taken.
LEMMA CtlWakeStep ==
    ASSUME IInv, CtlWake
    PROVE  IInv'
<1> DEFINE r == [act[Ctl] EXCEPT !.pc = "loop"]
<1>1. act[Ctl] \in ActorType /\ act[Ctl].pc = "select" /\ host \in HostType
    BY DEF IInv, Typed, CtlWake, Actors
<1>2. act' = [act EXCEPT ![Ctl] = r]
    BY DEF CtlWake
<1>3. r \in ActorType /\ r.pc = "loop"
    BY <1>1 DEF ActorType
<1> HIDE DEF r
<1>4. host' \in HostType /\ SameHost(host, host') /\ host'.recovery = host.recovery /\ host'.mine = host.mine
    BY <1>1 DEF CtlWake, HostType, SameHost
<1>5. (ExplicitOf(act') = ExplicitOf(act) /\ act'[Ctl] = r) => Episode(gen, host', act')
    <2>1. Episode(gen, host, act)
        BY DEF IInv
    <2> QED
        BY <1>1, <1>3, <1>4, <2>1 DEF Episode, SameHost, Matches
<1>6. ~Stages(act, Ctl)
    BY <1>1 DEF Stages
<1>7. UNCHANGED <<gen, token, lease>> /\ UNCHANGED closer
    BY DEF CtlWake
<1> QED
    BY <1>1, <1>2, <1>3, <1>4, <1>5, <1>6, <1>7, ControllerMoves

\* Without a change of the host: the controller ends, finds nothing to do, or stages.
LEMMA CtlPlainStep ==
    ASSUME IInv, CtlExit \/ CtlIdles \/ CtlStages
    PROVE  IInv'
<1> DEFINE pc == act'[Ctl].pc
           r == [act[Ctl] EXCEPT !.pc = pc]
<1>1. act[Ctl] \in ActorType /\ act \in [Actors -> ActorType] /\ Ctl \in Actors
    BY DEF IInv, Typed, Actors
<1>2. /\ pc \in {"done", "select", "enter"} /\ act' = [act EXCEPT ![Ctl].pc = pc]
      /\ pc = "done" => host.closing /\ act[Ctl].pc = "select"
      /\ pc = "select" => ~HasWork /\ act[Ctl].pc = "loop"
      /\ pc = "enter" => act[Ctl].pc = "backoff"
      /\ UNCHANGED <<gen, host, token, lease>> /\ (Signal \/ UNCHANGED closer)
    <2>1. CASE CtlExit
        <3>1. act' = [act EXCEPT ![Ctl].pc = "done"]
            BY <2>1 DEF CtlExit
        <3>2. pc = "done"
            BY <1>1, <3>1
        <3> QED
            BY <2>1, <3>1, <3>2 DEF CtlExit
    <2>2. CASE CtlIdles
        <3>1. act' = [act EXCEPT ![Ctl].pc = "select"]
            BY <2>2 DEF CtlIdles
        <3>2. pc = "select"
            BY <1>1, <3>1
        <3> QED
            BY <2>2, <3>1, <3>2 DEF CtlIdles
    <2>3. CASE CtlStages
        <3>1. act' = [act EXCEPT ![Ctl].pc = "enter"]
            BY <2>3 DEF CtlStages
        <3>2. pc = "enter"
            BY <1>1, <3>1
        <3> QED
            BY <2>3, <3>1, <3>2 DEF CtlStages
    <2> QED
        BY <2>1, <2>2, <2>3
<1>3. act' = [act EXCEPT ![Ctl] = r]
    BY <1>2
<1> HIDE DEF pc
<1>4. r \in ActorType /\ r.pc = pc /\ r.rev = act[Ctl].rev
    BY <1>1, <1>2 DEF ActorType
<1> HIDE DEF r
<1>5. ASSUME ExplicitOf(act') = ExplicitOf(act), act'[Ctl] = r
      PROVE  Episode(gen, host', act')
    <2>1. Episode(gen, host, act) /\ host' = host
        BY <1>2 DEF IInv
    <2>2. CASE pc = "enter"
        <3>1. act[Ctl].pc \in AttemptPcs /\ act'[Ctl].pc \in AttemptPcs /\ act'[Ctl].pc # "backoff"
              /\ act'[Ctl].rev = act[Ctl].rev
            BY <1>2, <1>4, <1>5, <2>2 DEF AttemptPcs
        <3> QED
            BY <1>5, <2>1, <3>1, AttemptFrame
    <2>3. CASE pc # "enter"
        <3>1. ~host.mine /\ (host.recovery # None => ~host.closing)
            BY <1>2, <2>1, <2>3 DEF Episode, Matches
        <3>2. host.recovery # None => host.recovery.exhausted \/ host.wake
            BY <1>2, <2>1, <2>3, <3>1 DEF Episode, Matches, HasWork
        <3> QED
            BY <1>5, <2>1, <3>1, <3>2 DEF Episode
    <2> QED
        BY <2>2, <2>3
<1>6. ~Stages(act, Ctl) /\ act[Ctl].pc \notin {"done", "idle"}
    BY <1>2 DEF Stages
<1>7. host' \in HostType /\ SameHost(host, host')
    BY <1>2 DEF IInv, Typed, SameHost
<1> QED
    BY <1>2, <1>3, <1>4, <1>5, <1>6, <1>7, ControllerMoves

\* recoverOnce begins an attempt on the host's episode.
LEMMA CtlBeginsStep ==
    ASSUME IInv, CtlBegins
    PROVE  IInv'
<1> DEFINE e == host.recovery
           n == e.attempts + 1
           r == [IdleActor EXCEPT !.pc = "backoff", !.rev = e.rev, !.attempt = n]
<1>1. host \in HostType /\ act[Ctl].pc = "loop" /\ e # None /\ ~e.exhausted /\ Episode(gen, host, act)
    BY DEF IInv, Typed, CtlBegins, HasWork
<1>2. e \in Episodes /\ e.attempts < MaxAttempts
    BY <1>1 DEF HostType, Episode
<1>3. n \in 0 .. MaxAttempts /\ e.rev \in 0 .. MaxRevision /\ 0 \in Gens
    BY <1>2, HostAssumption DEF Episodes, Gens
<1>4. act' = [act EXCEPT ![Ctl] = r]
    BY DEF CtlBegins
<1>5. host' \in HostType /\ SameHost(host, host') /\ host'.recovery = e /\ host'.wake = host.wake /\ host'.mine
    BY <1>1 DEF CtlBegins, HostType, SameHost
<1> HIDE DEF e, n
<1>6. r \in ActorType /\ r.pc = "backoff" /\ r.rev = e.rev /\ ~r.ctxDone
    BY <1>3 DEF IdleActor, ActorType
<1> HIDE DEF r
<1>7. ASSUME ExplicitOf(act') = ExplicitOf(act), act'[Ctl] = r
      PROVE  Episode(gen, host', act')
    <2>1. Matches(host, e, ExplicitOf(act)) /\ gen[host.current].unhealthy
        BY <1>1 DEF Episode, e
    <2>2. Matches(host', e, ExplicitOf(act')) /\ gen[host'.current].unhealthy
        BY <1>5, <1>7, <2>1 DEF Matches, SameHost
    <2> QED
        BY <1>1, <1>2, <1>5, <1>6, <1>7, <2>2 DEF Episode
<1>8. ~Stages(act, Ctl)
    BY <1>1 DEF Stages
<1>9. UNCHANGED <<gen, token, lease>> /\ (Signal \/ UNCHANGED closer)
    BY DEF CtlBegins
<1> QED
    BY <1>1, <1>4, <1>5, <1>6, <1>7, <1>8, <1>9, ControllerMoves

\* The deferred function of recoverOnce: the controller lets go of an episode that stands as it
\* was, or that has one more attempt behind it.
LEMMA CtlReturned ==
    ASSUME IInv, NEW e \in Episodes \cup {None}, NEW pc \in {"select", "loop"},
           CtlReturns([host EXCEPT !.recovery = e], pc),
           act[Ctl].pc \in {"backoff", "failed"},
           UNCHANGED <<gen, token, lease>>, Signal,
           e # None => /\ Matches(host, e, ExplicitOf(act)) /\ gen[host.current].unhealthy
                       /\ e.exhausted \/ (e.attempts < MaxAttempts /\ (host.wake \/ pc = "loop"))
    PROVE  IInv'
<1> DEFINE r == [IdleActor EXCEPT !.pc = pc]
<1>1. host \in HostType
    BY DEF IInv, Typed
<1>2. act' = [act EXCEPT ![Ctl] = r]
    BY DEF CtlReturns
<1>3. r \in ActorType /\ r.pc = pc
    <2>1. 0 \in Gens /\ 0 \in 0 .. MaxRevision /\ 0 \in 0 .. MaxAttempts
        BY HostAssumption DEF Gens
    <2> QED
        BY <2>1 DEF IdleActor, ActorType
<1>4. host' \in HostType /\ SameHost(host, host') /\ host'.recovery = e /\ host'.wake = host.wake /\ ~host'.mine
    BY <1>1 DEF CtlReturns, HostType, SameHost
<1> HIDE DEF r
<1>5. ASSUME ExplicitOf(act') = ExplicitOf(act), act'[Ctl] = r
      PROVE  Episode(gen, host', act')
    <2>1. e # None => Matches(host', e, ExplicitOf(act')) /\ gen[host'.current].unhealthy
        BY <1>4, <1>5 DEF Matches, SameHost
    <2> QED
        BY <1>3, <1>4, <1>5, <2>1 DEF Episode
<1>6. ~Stages(act, Ctl) /\ act[Ctl].pc # "done" /\ act[Ctl].pc # "idle"
    BY DEF Stages
<1>7. r.pc \notin {"staging", "publish", "discard"}
    BY <1>3
<1> QED
    BY <1>2, <1>3, <1>4, <1>5, <1>6, <1>7, ControllerMoves

\* The record is the same when its episode is.
LEMMA SameRecovery ==
    ASSUME host \in HostType
    PROVE  [host EXCEPT !.recovery = host.recovery] = host
    BY DEF HostType

\* The backoff was cancelled: by whoever cancelled the episode, so none is left unserved.
LEMMA CtlInterruptedStep ==
    ASSUME IInv, CtlInterrupted
    PROVE  IInv'
<1> DEFINE e == host.recovery
<1>1. host \in HostType /\ Episode(gen, host, act) /\ act[Ctl].pc = "backoff"
    BY DEF IInv, Typed, CtlInterrupted
<1>2. CtlReturns([host EXCEPT !.recovery = e], "select")
    BY <1>1, SameRecovery DEF CtlInterrupted
<1>3. e # None => ~host.closing
    BY <1>1 DEF Episode, Matches
<1>4. e # None => ~host.mine
    BY <1>1, <1>3 DEF Episode, CtlInterrupted
<1>5. e \in Episodes \cup {None}
    BY <1>1 DEF HostType
<1>6. e # None => /\ Matches(host, e, ExplicitOf(act)) /\ gen[host.current].unhealthy
                  /\ e.exhausted \/ (e.attempts < MaxAttempts /\ (host.wake \/ "select" = "loop"))
    BY <1>1, <1>4 DEF Episode
<1>7. UNCHANGED <<gen, token, lease>> /\ Signal
    BY DEF CtlInterrupted
<1> HIDE DEF e
<1> QED
    BY <1>1, <1>2, <1>5, <1>6, <1>7, CtlReturned

\* finishRecoveryFailure: the attempt counts, or the episode was taken away.
LEMMA CtlFailedStep ==
    ASSUME IInv, CtlFailed
    PROVE  IInv'
<1> DEFINE e == host.recovery
           n == e.attempts + 1
           f == [e EXCEPT !.attempts = n, !.exhausted = n >= MaxAttempts]
           pc == IF n >= MaxAttempts THEN "select" ELSE "loop"
<1>1. host \in HostType /\ Episode(gen, host, act) /\ act[Ctl].pc = "failed"
    BY DEF IInv, Typed, CtlFailed
<1>2. UNCHANGED <<gen, token, lease>> /\ Signal
    BY DEF CtlFailed
<1>3. CASE EpisodeStands
    <2>1. host.mine /\ e # None /\ ~e.exhausted /\ e.attempts < MaxAttempts
        BY <1>1, <1>3 DEF EpisodeStands, Episode
    <2>2. e \in Episodes
        BY <1>1, <2>1 DEF HostType
    <2>3. n \in 0 .. MaxAttempts /\ (n >= MaxAttempts) \in BOOLEAN
        BY <2>1, <2>2, HostAssumption DEF Episodes
    <2>4. CtlReturns([host EXCEPT !.recovery.attempts = n, !.recovery.exhausted = n >= MaxAttempts], pc)
        BY <1>3 DEF CtlFailed
    <2>5. [host EXCEPT !.recovery.attempts = n, !.recovery.exhausted = n >= MaxAttempts]
             = [host EXCEPT !.recovery = f]
        BY <1>1, <2>2 DEF HostType, Episodes
    <2>6. f \in Episodes /\ f.gen = e.gen /\ f.rev = e.rev /\ f.revision = e.revision /\ f.attempts = n
          /\ f.exhausted = (n >= MaxAttempts)
        <3>1. e \in Episodes /\ n \in 0 .. MaxAttempts /\ (n >= MaxAttempts) \in BOOLEAN
            BY <2>2, <2>3
        <3> HIDE DEF e, n
        <3> QED
            BY <3>1 DEF Episodes
    <2>7. CtlReturns([host EXCEPT !.recovery = f], pc)
        BY <2>4, <2>5
    <2>8. Matches(host, f, ExplicitOf(act)) /\ gen[host.current].unhealthy
        <3>1. Matches(host, e, ExplicitOf(act)) /\ gen[host.current].unhealthy
            BY <1>1, <2>1 DEF Episode
        <3> HIDE DEF f, e
        <3> QED
            BY <2>6, <3>1 DEF Matches
    <2>9. pc \in {"select", "loop"} /\ (f.exhausted \/ (f.attempts < MaxAttempts /\ pc = "loop"))
        <3>1. CASE n >= MaxAttempts
            BY <2>6, <3>1
        <3>2. CASE ~(n >= MaxAttempts)
            <4>1. n < MaxAttempts
                BY <2>3, <3>2, HostAssumption
            <4> QED
                BY <2>6, <3>2, <4>1
        <3> QED
            BY <3>1, <3>2
    <2> HIDE DEF f, pc
    <2> QED
        BY <1>1, <1>2, <2>6, <2>7, <2>8, <2>9, CtlReturned
<1>4. CASE ~EpisodeStands
    <2>1. CtlReturns([host EXCEPT !.recovery = e], "select")
        BY <1>1, <1>4, SameRecovery DEF CtlFailed
    <2>2. e # None => ~host.mine
        BY <1>1, <1>4, ExplicitIs DEF Episode, EpisodeStands
    <2>3. e \in Episodes \cup {None}
        BY <1>1 DEF HostType
    <2>4. e # None => /\ Matches(host, e, ExplicitOf(act)) /\ gen[host.current].unhealthy
                      /\ e.exhausted \/ (e.attempts < MaxAttempts /\ (host.wake \/ "select" = "loop"))
        BY <1>1, <2>2 DEF Episode
    <2> HIDE DEF e
    <2> QED
        BY <1>1, <1>2, <2>1, <2>3, <2>4, CtlReturned
<1> QED
    BY <1>3, <1>4

-----------------------------------------------------------------------------
(* Explicit activations begin, and unhealthy generations are noticed.      *)

\* beginExplicitActivation: what was being recovered no longer is.
LEMMA BeginExplicitStep ==
    ASSUME IInv, NEW a \in Activators, BeginExplicit(a)
    PROVE  IInv'
<1> DEFINE v == host.revision + 1
           r == [IdleActor EXCEPT !.pc = "enter", !.rev = v]
<1>1. host \in HostType /\ act \in [Actors -> ActorType] /\ act[a].pc = "idle" /\ a \in Actors /\ Ctl \in Actors
      /\ a # Ctl /\ ~host.closing /\ token \in Actors \cup {None}
    BY HostAssumption DEF IInv, Typed, BeginExplicit, Actors
<1>2. v \in 0 .. MaxRevision /\ 0 \in Gens /\ 0 \in 0 .. MaxAttempts
    BY <1>1, HostAssumption DEF HostType, BeginExplicit, Gens
<1>3. /\ host' \in HostType /\ host'.recovery = None /\ ~host'.mine /\ host'.revision = v
      /\ host'.desired = host.desired /\ host'.current = host.current /\ host'.available = host.available
      /\ host'.sequence = host.sequence /\ host'.closing = host.closing /\ host'.stopped = host.stopped
    <2>1. host' = [host EXCEPT !.revision = v, !.recovery = None, !.mine = FALSE]
        BY <1>1 DEF BeginExplicit, Cancelled, HostType
    <2> HIDE DEF v
    <2> QED
        BY <1>1, <1>2, <2>1 DEF HostType
<1>4. /\ act' \in [Actors -> ActorType] /\ OnlyActor(act, act', a) /\ act'[a].pc = "enter"
    <2>1. r \in ActorType /\ r.pc = "enter"
        <3> HIDE DEF v
        <3> QED
            BY <1>2 DEF IdleActor, ActorType
    <2>2. CancelAttempt \in [Actors -> ActorType] /\ OnlyActor(act, CancelAttempt, a)
        <3>1. host.mine \in BOOLEAN /\ act[Ctl] \in ActorType
            BY <1>1 DEF HostType
        <3>2. [act[Ctl] EXCEPT !.ctxDone = act[Ctl].ctxDone \/ host.mine] \in ActorType
            BY <3>1 DEF ActorType
        <3>3. CancelAttempt \in [Actors -> ActorType]
            BY <1>1, <3>2 DEF CancelAttempt
        <3>4. \A b \in Actors : CancelAttempt[b].pc = act[b].pc /\ CancelAttempt[b].gen = act[b].gen
                                /\ CancelAttempt[b].rev = act[b].rev
            BY <1>1, <3>1 DEF CancelAttempt, ActorType
        <3> QED
            BY <3>3, <3>4 DEF OnlyActor
    <2>3. act' = [CancelAttempt EXCEPT ![a] = r]
        BY DEF BeginExplicit
    <2> HIDE DEF r
    <2> QED
        BY <1>1, <2>1, <2>2, <2>3 DEF OnlyActor
<1>5. Staged(gen, act', token, host.sequence)
    <2>1. ~Stages(act, a) /\ ~Stages(act', a)
        BY <1>1, <1>4 DEF Stages
    <2>2. Staged(gen, act, token, host.sequence)
        BY DEF IInv
    <2> QED
        BY <1>1, <1>4, <2>1, <2>2, StagedElsewhere
<1>6. Current(gen, host')
    <2>1. Current(gen, host)
        BY DEF IInv
    <2>2. host'.desired <= host'.revision
        <3> DEFINE d == host.desired
                   w == host.revision
        <3>1. d \in Nat /\ w \in Nat /\ d <= w /\ host'.desired = d /\ host'.revision = w + 1
            BY Zenon, <1>1, <1>3, <2>1, Revisions DEF Current
        <3> HIDE DEF d, w
        <3> QED
            BY <3>1
    <2> QED
        BY <1>3, <2>1, <2>2 DEF Current
<1>7. Episode(gen, host', act')
    BY <1>3 DEF Episode
<1>8. ~host'.stopped
    BY <1>1, <1>3 DEF IInv, Stopped
<1>9. UNCHANGED <<gen, lease, token>> /\ (Signal \/ UNCHANGED closer)
    BY DEF BeginExplicit
<1> QED
    BY <1>1, <1>3, <1>4, <1>5, <1>6, <1>7, <1>8, <1>9, ActorMoves

\* scheduleRecoveryLocked begins an episode about the current generation, once nobody activates.
LEMMA Scheduled ==
    ASSUME NEW h \in HostType, NEW g \in Gens, NEW ac, NEW gn, NEW gn2, Episode(gn, h, ac),
           gn2[g].unhealthy, gn[h.current].unhealthy => gn2[h.current].unhealthy
    PROVE  LET h2 == Schedule(h, g, ExplicitOf(ac))
           IN  h2 \in HostType /\ SameHost(h, h2) /\ Episode(gn2, h2, ac)
<1> DEFINE n == ExplicitOf(ac)
           e == [gen |-> g, rev |-> h.desired, revision |-> h.revision, attempts |-> 0, exhausted |-> FALSE]
           k == [h EXCEPT !.recovery = e, !.wake = TRUE, !.mine = FALSE]
<1>1. CASE Schedule(h, g, n) = h
    <2>1. Episode(gn2, h, ac)
        BY DEF Episode
    <2>2. SameHost(h, h)
        BY DEF SameHost
    <2> HIDE DEF n
    <2> QED
        BY <1>1, <2>1, <2>2 DEF n
<1>2. CASE Schedule(h, g, n) # h
    <2>1. Schedule(h, g, n) = k /\ ~h.closing /\ n = 0 /\ MaxAttempts # 0 /\ h.current = g
        BY <1>2 DEF Schedule
    <2>2. e \in Episodes /\ e.gen = g /\ e.rev = h.desired /\ e.revision = h.revision /\ e.attempts = 0 /\ ~e.exhausted
        <3>1. h.desired \in 0 .. MaxRevision /\ h.revision \in 0 .. MaxRevision /\ 0 \in 0 .. MaxAttempts
            BY HostAssumption DEF HostType
        <3> QED
            BY <3>1 DEF Episodes
    <2> HIDE DEF e
    <2>3. k \in HostType /\ SameHost(h, k) /\ k.recovery = e /\ k.wake /\ ~k.mine
        BY <2>2, RecoveryFields
    <2> HIDE DEF k, n
    <2>4. Matches(k, e, n) /\ gn2[k.current].unhealthy
        <3>1. /\ k.current = g /\ k.desired = h.desired /\ k.revision = h.revision /\ k.closing = h.closing
            BY Zenon, <2>1, <2>3 DEF SameHost
        <3>2. Matches(k, e, n)
            BY Zenon, <2>1, <2>2, <3>1 DEF Matches
        <3> QED
            BY <3>1, <3>2
    <2>5. e.attempts < MaxAttempts
        BY <2>1, <2>2, HostAssumption
    <2>6. Episode(gn2, k, ac)
        BY <2>3, <2>4, <2>5 DEF Episode, n
    <2> QED
        BY <2>1, <2>3, <2>6 DEF n
<1> QED
    BY <1>1, <1>2

\* What is left to show of a step that only marks generations and schedules their recovery.
LEMMA MarkedStep ==
    ASSUME IInv, gen' \in [Gens -> GenType], SameGens(gen, gen'), host' \in HostType, SameHost(host, host'),
           Episode(gen', host', act), UNCHANGED <<token, act>>, Signal \/ UNCHANGED closer,
           lease' \in [Holders -> LeaseType],
           \A l \in Holders : lease'[l].gen = lease[l].gen /\ (lease'[l].pc = "idle" <=> lease[l].pc = "idle")
    PROVE  IInv'
<1>1. Typed'
    BY Signalled DEF IInv, Typed
<1>2. Leased(gen', lease')
    <2>1. \A g \in Gens : Users(lease', g) = Users(lease, g)
        BY DEF Users
    <2>2. Leased(gen, lease')
        BY <2>1 DEF IInv, Leased
    <2> QED
        BY <2>2, LeasedFrame
<1>3. Staged(gen', act', token', host'.sequence)
    <2>1. Staged(gen, act, token, host.sequence) /\ host.sequence \in Gens
        BY DEF IInv, Typed, HostType
    <2>2. Staged(gen', act, token, host.sequence)
        BY <2>1, StagedFrame
    <2> QED
        BY <2>2 DEF SameHost
<1>4. Current(gen', host')
    <2>1. Current(gen, host) /\ host.current \in Gens
        BY DEF IInv, Typed, HostType
    <2>2. Current(gen', host)
        BY <2>1, CurrentFrame
    <2> QED
        BY <2>2 DEF SameHost, Current
<1>5. Stopped(gen', host', act', lease', token', closer')
    <2>1. Stopped(gen, host, act, lease, token, closer)
        BY DEF IInv
    <2>2. Stopped(gen', host, act, lease, token, closer)
        BY <2>1, StoppedFrame
    <2>3. closer'.pc # "idle" => closer.pc # "idle"
        BY Signalled DEF IInv, Typed
    <2> QED
        BY <2>2, <2>3 DEF SameHost, Stopped
<1> QED
    BY <1>1, <1>2, <1>3, <1>4, <1>5 DEF IInv

\* A generation gets marks and keeps its state, revision, leases and cleanup.
LEMMA Marked ==
    ASSUME gen \in [Gens -> GenType], NEW g \in Gens, NEW r \in GenType, gen' = [gen EXCEPT ![g] = r],
           r.state = gen[g].state, r.rev = gen[g].rev, r.refs = gen[g].refs, r.cleaning = gen[g].cleaning,
           gen[g].unhealthy => r.unhealthy
    PROVE  gen' \in [Gens -> GenType] /\ SameGens(gen, gen') /\ gen'[g] = r
<1>1. gen' \in [Gens -> GenType] /\ gen'[g] = r /\ \A k \in Gens : k # g => gen'[k] = gen[k]
    BY Zenon
<1>2. SameGens(gen, gen')
    BY <1>1 DEF SameGens
<1> QED
    BY <1>1, <1>2

\* generationHealthLocked marks the generation and schedules its recovery.
LEMMA MarkSickStep ==
    ASSUME IInv, NEW g \in Gens, MarkSick(g)
    PROVE  /\ gen' \in [Gens -> GenType] /\ SameGens(gen, gen') /\ host' \in HostType /\ SameHost(host, host')
           /\ Episode(gen', host', act)
<1> DEFINE r == [gen[g] EXCEPT !.unhealthy = TRUE]
<1>1. gen \in [Gens -> GenType] /\ gen[g] \in GenType /\ host \in HostType /\ Episode(gen, host, act)
    BY DEF IInv, Typed
<1>2. gen' = [gen EXCEPT ![g] = r]
    BY DEF MarkSick
<1>3. r \in GenType /\ r.state = gen[g].state /\ r.rev = gen[g].rev /\ r.refs = gen[g].refs
      /\ r.cleaning = gen[g].cleaning /\ r.unhealthy
    BY <1>1 DEF GenType
<1> HIDE DEF r
<1>4. gen' \in [Gens -> GenType] /\ SameGens(gen, gen') /\ gen'[g] = r
    BY <1>1, <1>2, <1>3, Marked
<1>5. host.current \in Gens /\ (gen[host.current].unhealthy => gen'[host.current].unhealthy)
    BY <1>1, <1>4 DEF SameGens, HostType
<1>6. CASE host' = host
    <2>1. Episode(gen', host, act) /\ SameHost(host, host)
        BY <1>1, <1>5 DEF Episode, SameHost
    <2> QED
        BY <1>1, <1>4, <1>6, <2>1
<1>7. CASE host' = Schedule(host, g, ExplicitOf(act))
    <2>1. gen'[g].unhealthy
        BY <1>3, <1>4
    <2> QED
        BY <1>1, <1>4, <1>5, <1>7, <2>1, Scheduled
<1> QED
    BY <1>6, <1>7, ExplicitIs DEF MarkSick

\* A lease of a generation found stopped is refused.
LEMMA LeaseRefusedStep ==
    ASSUME IInv, NEW l \in Holders, NEW g \in Gens, LeaseRefused(l, g)
    PROVE  IInv'
<1>1. MarkSick(g) /\ UNCHANGED <<token, act>> /\ lease' = lease /\ UNCHANGED closer
    BY DEF LeaseRefused
<1>2. lease' \in [Holders -> LeaseType]
    BY <1>1 DEF IInv, Typed
<1> QED
    BY <1>1, <1>2, MarkSickStep, MarkedStep

\* The second critical section of lease.
LEMMA LeaseConfirmedStep ==
    ASSUME IInv, NEW l \in Holders, LeaseConfirmed(l)
    PROVE  IInv'
<1> DEFINE g == lease[l].gen
<1>1. lease \in [Holders -> LeaseType] /\ lease[l] \in LeaseType /\ g \in Gens /\ lease[l].pc = "confirm"
    BY DEF IInv, Typed, LeaseType, LeaseConfirmed
<1>2. PICK pc \in {"held", "denied"} : lease' = [lease EXCEPT ![l].pc = pc]
    BY DEF LeaseConfirmed
<1>3. [lease[l] EXCEPT !.pc = pc] \in LeaseType
    BY <1>1 DEF LeaseType
<1>4. lease' \in [Holders -> LeaseType]
    BY <1>1, <1>2, <1>3
<1>5. \A k \in Holders : lease'[k].gen = lease[k].gen /\ (lease'[k].pc = "idle" <=> lease[k].pc = "idle")
    BY <1>1, <1>2 DEF LeaseType
<1>6. UNCHANGED <<token, act>> /\ UNCHANGED closer
    BY DEF LeaseConfirmed
<1>7. CASE MarkSick(g)
    <2> HIDE DEF g
    <2> QED
        BY <1>1, <1>4, <1>5, <1>6, <1>7, MarkSickStep, MarkedStep
<1>8. CASE UNCHANGED <<gen, host>>
    <2>1. gen' \in [Gens -> GenType] /\ host' \in HostType /\ Episode(gen', host', act)
        BY <1>8 DEF IInv, Typed
    <2>2. SameGens(gen, gen') /\ SameHost(host, host')
        BY <1>8 DEF SameGens, SameHost
    <2> QED
        BY <2>1, <2>2, <1>4, <1>5, <1>6, MarkedStep
<1> QED
    BY <1>7, <1>8 DEF LeaseConfirmed

\* The observer of a generation: it is marked and its recovery scheduled, or the watch ends.
LEMMA ObserveStep ==
    ASSUME IInv, NEW g \in Gens, Observe(g) \/ ObserveEnds(g)
    PROVE  IInv'
<1> DEFINE r == [gen[g] EXCEPT !.watched = FALSE, !.unhealthy = TRUE]
           q == [gen[g] EXCEPT !.watched = FALSE]
<1>1. gen \in [Gens -> GenType] /\ gen[g] \in GenType /\ host \in HostType /\ Episode(gen, host, act)
      /\ lease \in [Holders -> LeaseType]
    BY DEF IInv, Typed
<1>2. UNCHANGED <<token, act, lease>> /\ (Signal \/ UNCHANGED closer)
    BY DEF Observe, ObserveEnds
<1>3. \A l \in Holders : lease'[l].gen = lease[l].gen /\ (lease'[l].pc = "idle" <=> lease[l].pc = "idle")
    BY <1>2
<1>4. lease' \in [Holders -> LeaseType]
    BY <1>1, <1>2
<1>5. CASE gen' = [gen EXCEPT ![g].watched = FALSE, ![g].unhealthy = TRUE] /\ host' = Schedule(host, g, Explicit)
    <2>1. gen' = [gen EXCEPT ![g] = r]
        BY <1>1, <1>5
    <2>2. r \in GenType /\ r.state = gen[g].state /\ r.rev = gen[g].rev /\ r.refs = gen[g].refs
          /\ r.cleaning = gen[g].cleaning /\ r.unhealthy
        BY <1>1 DEF GenType
    <2> HIDE DEF r
    <2>3. gen' \in [Gens -> GenType] /\ SameGens(gen, gen') /\ gen'[g].unhealthy
        BY <1>1, <2>1, <2>2, Marked
    <2>4. gen[host.current].unhealthy => gen'[host.current].unhealthy
        BY <1>1, <2>3 DEF SameGens, HostType
    <2>5. host' = Schedule(host, g, ExplicitOf(act))
        BY <1>5, ExplicitIs
    <2>6. host' \in HostType /\ SameHost(host, host') /\ Episode(gen', host', act)
        BY <1>1, <2>3, <2>4, <2>5, Scheduled
    <2> QED
        BY <1>2, <1>3, <1>4, <2>3, <2>6, MarkedStep
<1>6. CASE gen' = [gen EXCEPT ![g].watched = FALSE] /\ host' = host
    <2>1. gen' = [gen EXCEPT ![g] = q]
        BY <1>1, <1>6
    <2>2. q \in GenType /\ q.state = gen[g].state /\ q.rev = gen[g].rev /\ q.refs = gen[g].refs
          /\ q.cleaning = gen[g].cleaning /\ q.unhealthy = gen[g].unhealthy
        BY <1>1 DEF GenType
    <2> HIDE DEF q
    <2>3. gen' \in [Gens -> GenType] /\ SameGens(gen, gen')
        BY <1>1, <2>1, <2>2, Marked
    <2>4. Episode(gen', host, act)
        BY <1>1, <2>3 DEF Episode, SameGens, HostType
    <2>5. host' \in HostType /\ SameHost(host, host') /\ Episode(gen', host', act)
        BY <1>1, <1>6, <2>4 DEF SameHost
    <2> QED
        BY <1>2, <1>3, <1>4, <2>3, <2>5, MarkedStep
<1> QED
    BY <1>5, <1>6 DEF Observe, ObserveEnds

\* A candidate process stops; nobody has noticed yet.
LEMMA CandidateStopsStep ==
    ASSUME IInv, NEW g \in Gens, CandidateStops(g)
    PROVE  IInv'
<1> DEFINE q == [gen[g] EXCEPT !.dead = TRUE]
<1>1. gen \in [Gens -> GenType] /\ gen[g] \in GenType /\ host \in HostType /\ Episode(gen, host, act)
      /\ lease \in [Holders -> LeaseType]
    BY DEF IInv, Typed
<1>2. UNCHANGED <<host, token, act, lease>> /\ UNCHANGED closer /\ gen' = [gen EXCEPT ![g] = q]
    BY DEF CandidateStops
<1>3. q \in GenType /\ q.state = gen[g].state /\ q.rev = gen[g].rev /\ q.refs = gen[g].refs
      /\ q.cleaning = gen[g].cleaning /\ q.unhealthy = gen[g].unhealthy
    BY <1>1 DEF GenType
<1> HIDE DEF q
<1>4. gen' \in [Gens -> GenType] /\ SameGens(gen, gen')
    BY <1>1, <1>2, <1>3, Marked
<1>5. Episode(gen', host, act)
    BY <1>1, <1>4 DEF Episode, SameGens, HostType
<1>6. host' \in HostType /\ SameHost(host, host') /\ Episode(gen', host', act)
    BY <1>1, <1>2, <1>5 DEF SameHost
<1> QED
    BY <1>1, <1>2, <1>4, <1>6, MarkedStep

\* finishExplicitActivation: a failed activation schedules the recovery of the current
\* generation, which the activation itself had cancelled.
LEMMA FinishExplicitStep ==
    ASSUME IInv, NEW a \in Activators, FinishExplicit(a)
    PROVE  IInv'
<1> DEFINE c == host.current
           r == [gen[c] EXCEPT !.unhealthy = TRUE]
<1>1. /\ gen \in [Gens -> GenType] /\ host \in HostType /\ c \in Gens /\ gen[c] \in GenType
      /\ act \in [Actors -> ActorType] /\ act[a].pc = "finish" /\ a \in Actors /\ a # Ctl /\ Ctl \in Actors
      /\ act' = [act EXCEPT ![a] = IdleActor] /\ UNCHANGED <<token, lease>> /\ Signal
    BY HostAssumption DEF IInv, Typed, FinishExplicit, HostType, Actors
<1>2. IdleActor \in ActorType /\ IdleActor.pc = "idle"
    <2>1. 0 \in Gens /\ 0 \in 0 .. MaxRevision /\ 0 \in 0 .. MaxAttempts
        BY HostAssumption DEF Gens
    <2> QED
        BY <2>1 DEF IdleActor, ActorType
<1>3. /\ act' \in [Actors -> ActorType] /\ act'[a] = IdleActor /\ OnlyActor(act, act', a)
      /\ \A b \in Actors : b # a => act'[b] = act[b]
    BY <1>1, <1>2, OneActor
<1>4. ExplicitOf(act') = ExplicitOf(act) - 1
    <2>1. \A b \in Activators : b # a => act'[b].pc = act[b].pc
        BY <1>3 DEF Actors
    <2> QED
        BY <1>1, <1>2, <1>3, <2>1, ExplicitLess
<1>5. host.recovery = None /\ ~host.mine
    <2>1. ExplicitOf(act) # 0
        BY <1>1, ExplicitZero
    <2> QED
        BY <2>1 DEF IInv, Episode, Matches
<1>6. Episode(gen, host, act')
    BY <1>5 DEF Episode
<1>7. /\ gen' \in [Gens -> GenType] /\ SameGens(gen, gen') /\ host' \in HostType /\ SameHost(host, host')
      /\ Episode(gen', host', act')
    <2>1. CASE ~act[a].ok /\ Sick(c)
        <3>1. gen' = [gen EXCEPT ![c] = r] /\ host' = Schedule(host, c, ExplicitOf(act'))
            BY <1>4, <2>1, ExplicitIs DEF FinishExplicit
        <3>2. r \in GenType /\ r.state = gen[c].state /\ r.rev = gen[c].rev /\ r.refs = gen[c].refs
              /\ r.cleaning = gen[c].cleaning /\ r.unhealthy
            BY <1>1 DEF GenType
        <3> HIDE DEF r, c
        <3>3. gen' \in [Gens -> GenType] /\ SameGens(gen, gen') /\ gen'[c].unhealthy
            BY <1>1, <3>1, <3>2, Marked
        <3>4. gen[host.current].unhealthy => gen'[host.current].unhealthy
            BY <1>1, <3>3 DEF SameGens, HostType
        <3> QED
            BY <1>1, <1>6, <3>1, <3>3, <3>4, Scheduled
    <2>2. CASE ~(~act[a].ok /\ Sick(c))
        <3>1. gen' = gen /\ host' = host
            BY <2>2 DEF FinishExplicit
        <3> QED
            BY <1>1, <1>6, <3>1 DEF SameGens, SameHost
    <2> QED
        BY <2>1, <2>2
<1>8. Staged(gen', act', token', host'.sequence)
    <2>1. ~Stages(act, a) /\ ~Stages(act', a)
        BY <1>1, <1>2, <1>3 DEF Stages
    <2>2. Staged(gen, act, token, host.sequence) /\ host.sequence \in Gens
        BY DEF IInv, Typed, HostType
    <2>3. Staged(gen, act', token, host.sequence)
        BY <1>1, <1>2, <1>3, <2>1, <2>2, StagedElsewhere
    <2>4. Staged(gen', act', token, host.sequence)
        BY <1>7, <2>2, <2>3, StagedFrame
    <2> QED
        BY <1>1, <1>7, <2>4 DEF SameHost
<1>9. Leased(gen', lease')
    BY <1>1, <1>7, LeasedFrame DEF IInv
<1>10. Current(gen', host')
    <2>1. Current(gen', host)
        BY <1>1, <1>7, CurrentFrame DEF IInv
    <2> QED
        BY <1>7, <2>1 DEF SameHost, Current
<1>11. Stopped(gen', host', act', lease', token', closer')
    <2>1. ~host.stopped
        BY <1>1, StillRunning DEF IInv
    <2> QED
        BY <1>1, <1>7, <2>1, Signalled DEF IInv, Typed, SameHost, Stopped
<1>12. Typed'
    BY <1>1, <1>3, <1>7, Signalled DEF IInv, Typed
<1> QED
    BY <1>7, <1>8, <1>9, <1>10, <1>11, <1>12 DEF IInv

-----------------------------------------------------------------------------
(* Staging.                                                                *)

\* A generation without an owner has no leases.
LEMMA Unleased ==
    ASSUME NEW gn, NEW ls, NEW g \in Gens, Leased(gn, ls), gn[g].state # "owned" \/ gn[g].cleaning \/ gn[g].refs = 0
    PROVE  Users(ls, g) = {} /\ gn[g].refs = 0
<1>1. IsFiniteSet(Users(ls, g))
    BY HostAssumption, FS_Subset DEF Users
<1>2. Cardinality(Users(ls, g)) = 0 <=> Users(ls, g) = {}
    BY <1>1, FS_EmptySet
<1> QED
    BY <1>2 DEF Leased

\* A step to or from a generation without leases.
Apart(gn, gn2, ls, g) ==
    /\ Leased(gn, ls) /\ Users(ls, g) = {} /\ gn2[g].refs = gn[g].refs
    /\ gn2[g].cleaning => gn2[g].state = "owned"
    /\ \A k \in Gens : k # g => gn2[k] = gn[k]

\* It keeps the others' counts.
LEMMA LeasedApart ==
    ASSUME NEW gn, NEW gn2, NEW ls, NEW g \in Gens, Apart(gn, gn2, ls, g)
    PROVE  Leased(gn2, ls)
<1>1. ASSUME NEW k \in Gens
      PROVE  /\ gn2[k].refs = Cardinality(Users(ls, k))
             /\ Users(ls, k) # {} => gn2[k].state = "owned" /\ ~gn2[k].cleaning
             /\ gn2[k].cleaning => gn2[k].state = "owned"
    <2>1. CASE k = g
        BY Zenon, <2>1 DEF Apart, Leased
    <2>2. CASE k # g
        BY Zenon, <2>2 DEF Apart, Leased
    <2> QED
        BY Zenon, <2>1, <2>2
<1> QED
    BY Zenon, <1>1 DEF Leased

\* beginActivation: the next generation is staged by the actor that takes the token.
LEMMA EnterStageStep ==
    ASSUME IInv, NEW a \in Actors, EnterStage(a)
    PROVE  IInv'
<1> DEFINE q == host.sequence
           g == q + 1
           v == act[a].rev
           r == [act[a] EXCEPT !.pc = "staging", !.gen = g]
           x == [gen[g] EXCEPT !.state = "staged", !.rev = v]
<1>1. /\ host \in HostType /\ act \in [Actors -> ActorType] /\ gen \in [Gens -> GenType] /\ act[a] \in ActorType
      /\ act[a].pc = "enter" /\ token = None /\ token' = a /\ ~host.closing /\ UNCHANGED lease
      /\ (Signal \/ UNCHANGED closer)
    BY DEF IInv, Typed, EnterStage
<1>2. q \in Gens /\ g \in Gens /\ g \in 1 .. g /\ g > q /\ \A k \in Gens : k > g => k > q
    BY <1>1, HostAssumption DEF HostType, EnterStage, Gens
<1>3. gen' = [gen EXCEPT ![g] = x] /\ act' = [act EXCEPT ![a] = r]
    BY DEF EnterStage
<1>4. v \in 0 .. MaxRevision
    BY <1>1 DEF ActorType
<1>5. /\ host' \in HostType /\ host'.sequence = g /\ host'.recovery = host.recovery /\ host'.mine = host.mine
      /\ host'.wake = host.wake /\ host'.current = host.current /\ host'.available = host.available
      /\ host'.desired = host.desired /\ host'.revision = host.revision /\ host'.closing = host.closing
      /\ host'.stopped = host.stopped
    <2>1. host' = [host EXCEPT !.sequence = g]
        BY DEF EnterStage
    <2> HIDE DEF g
    <2> QED
        BY <1>1, <1>2, <2>1 DEF HostType
<1>6. \A k \in 1 .. q : k \in Gens /\ k # g /\ k \in 1 .. g
    BY <1>2, HostAssumption DEF Gens
<1> HIDE DEF g, v, q
<1>7. r \in ActorType /\ r.pc = "staging" /\ r.gen = g /\ r.rev = v
    BY <1>1, <1>2 DEF ActorType, v
<1> HIDE DEF r
<1>8. gen[g].state = "none" /\ Staged(gen, act, token, q)
    BY <1>2 DEF IInv, Staged, q
<1>9. x \in GenType /\ x.state = "staged" /\ x.rev = v /\ x.refs = gen[g].refs /\ x.cleaning = gen[g].cleaning
    BY <1>1, <1>2, <1>4 DEF GenType
<1> HIDE DEF x
<1>10. gen' \in [Gens -> GenType] /\ gen'[g] = x /\ \A k \in Gens : k # g => gen'[k] = gen[k]
    BY <1>1, <1>2, <1>3, <1>9, Zenon
<1>11. /\ act' \in [Actors -> ActorType] /\ act'[a] = r /\ OnlyActor(act, act', a)
       /\ \A b \in Actors : b # a => act'[b] = act[b]
    BY <1>1, <1>3, <1>7, OneActor, Zenon
<1>12. Typed'
    BY <1>1, <1>5, <1>10, <1>11, Signalled DEF IInv, Typed
<1>13. Leased(gen', lease')
    <2>1. Leased(gen, lease)
        BY DEF IInv
    <2>2. Users(lease, g) = {} /\ ~gen[g].cleaning
        BY <1>2, <1>8, <2>1, Unleased DEF Leased
    <2>3. gen'[g].refs = gen[g].refs /\ ~gen'[g].cleaning
        BY <1>9, <1>10, <2>2
    <2>4. Apart(gen, gen', lease, g) /\ lease' = lease /\ g \in Gens
        BY Zenon, <1>1, <1>2, <1>10, <2>1, <2>2, <2>3 DEF Apart
    <2>5. Leased(gen', lease)
        BY Zenon, <2>4, LeasedApart
    <2> QED
        BY Zenon, <2>4, <2>5
<1>14. Staged(gen', act', token', host'.sequence)
    <2>1. \A b \in Actors : b # a => (Stages(act', b) <=> Stages(act, b))
        BY <1>11 DEF Stages
    <2>2. \A b \in Actors : Stages(act, b) => act[b].gen \in 1 .. q
        BY <1>8 DEF Staged
    <2>3. Stages(act', a) /\ act'[a].gen = g /\ act'[a].rev = v
        BY <1>7, <1>11 DEF Stages
    <2>4. \A b \in Actors : Stages(act', b) =>
            /\ act'[b].gen \in 1 .. g /\ gen'[act'[b].gen].state = "staged" /\ gen'[act'[b].gen].rev = act'[b].rev
        <3> SUFFICES ASSUME NEW b \in Actors, Stages(act', b)
                     PROVE  /\ act'[b].gen \in 1 .. g /\ gen'[act'[b].gen].state = "staged"
                            /\ gen'[act'[b].gen].rev = act'[b].rev
            OBVIOUS
        <3>1. CASE b = a
            BY <3>1, <2>3, <1>2, <1>9, <1>10
        <3>2. CASE b # a
            <4>1. Stages(act, b) /\ act'[b] = act[b] /\ act[b].gen \in 1 .. q
                BY <3>2, <2>1, <2>2, <1>11
            <4>2. act[b].gen \in Gens /\ act[b].gen # g /\ act[b].gen \in 1 .. g
                BY <4>1, <1>6
            <4>3. gen[act[b].gen].state = "staged" /\ gen[act[b].gen].rev = act[b].rev
                BY <4>1, <1>8 DEF Staged
            <4> QED
                BY <4>1, <4>2, <4>3, <1>10
        <3> QED
            BY <3>1, <3>2
    <2>5. \A b, c \in Actors : Stages(act', b) /\ Stages(act', c) /\ act'[b].gen = act'[c].gen => b = c
        <3>1. \A b \in Actors : b # a /\ Stages(act', b) => act'[b].gen # g /\ act'[b].gen = act[b].gen
            BY <2>1, <2>2, <1>6, <1>11
        <3>2. \A b, c \in Actors : Stages(act, b) /\ Stages(act, c) /\ act[b].gen = act[c].gen => b = c
            BY <1>8 DEF Staged
        <3> QED
            BY <2>1, <2>3, <3>1, <3>2
    <2>6. \A b \in Actors : act'[b].pc = "staging" <=> token' = b
        <3>1. act'[a].pc = "staging" /\ token' = a
            BY <1>1, <1>7, <1>11
        <3>2. \A b \in Actors : b # a => act'[b].pc # "staging"
            <4>1. \A b \in Actors : act[b].pc = "staging" <=> token = b
                BY Zenon, <1>8 DEF Staged
            <4>2. \A b \in Actors : act[b].pc # "staging"
                BY Zenon, <1>1, <4>1, Somebody
            <4> QED
                BY Zenon, <1>11, <4>2
        <3> QED
            BY Zenon, <3>1, <3>2
    <2>7. \A k \in Gens : gen'[k].state = "staged" => \E b \in Actors : Stages(act', b) /\ act'[b].gen = k
        <3> SUFFICES ASSUME NEW k \in Gens, gen'[k].state = "staged"
                     PROVE  \E b \in Actors : Stages(act', b) /\ act'[b].gen = k
            OBVIOUS
        <3>1. CASE k = g
            BY <3>1, <2>3
        <3>2. CASE k # g
            <4>1. PICK b \in Actors : Stages(act, b) /\ act[b].gen = k
                BY <3>2, <1>8, <1>10 DEF Staged
            <4>2. b # a
                BY <4>1, <1>1 DEF Stages
            <4> QED
                BY <4>1, <4>2, <2>1, <1>11
        <3> QED
            BY <3>1, <3>2
    <2>8. \A k \in Gens : k > g => gen'[k].state = "none"
        <3>1. \A k \in Gens : k > g => k # g /\ k > q
            BY <1>2 DEF Gens
        <3> QED
            BY <3>1, <1>8, <1>10 DEF Staged
    <2>9. \A b \in Activators : act'[b].pc \in {"idle", "enter", "staging", "publish", "discard", "finish"}
        <3>1. \A b \in Activators : b # a => act'[b].pc = act[b].pc
            BY <1>11 DEF Actors
        <3> QED
            BY <3>1, <1>7, <1>8, <1>11 DEF Staged
    <2> QED
        BY <1>5, <2>4, <2>5, <2>6, <2>7, <2>8, <2>9 DEF Staged
<1>15. host.current # g /\ host.current \in Gens
    <2>1. gen[host.current].state = "owned"
        BY <1>1 DEF IInv, Current
    <2> QED
        BY <1>1, <1>8, <2>1 DEF HostType
<1>16. Current(gen', host')
    BY <1>5, <1>10, <1>15 DEF IInv, Current
<1>17. Episode(gen', host', act')
    <2>1. \A b \in Activators : act'[b].pc = "idle" <=> act[b].pc = "idle"
        BY <1>1, <1>7, <1>11 DEF Actors
    <2>2. ExplicitOf(act') = ExplicitOf(act)
        BY <2>1, ExplicitSame
    <2>3. \/ act'[Ctl] = act[Ctl]
          \/ act'[Ctl].pc = "staging" /\ act'[Ctl].rev = act[Ctl].rev /\ act[Ctl].pc = "enter"
        BY <1>1, <1>7, <1>11 DEF Actors, v
    <2>4. Episode(gen, host, act) /\ gen'[host.current] = gen[host.current]
        BY <1>10, <1>15 DEF IInv
    <2>5. Episode(gen', host, act')
        BY <2>2, <2>3, <2>4, EpisodeFrame DEF AttemptPcs
    <2> QED
        BY <1>5, <2>5 DEF Episode, Matches
<1>18. Stopped(gen', host', act', lease', token', closer')
    <2>1. ~host.stopped
        BY <1>1, StillRunning DEF IInv
    <2> QED
        BY <1>1, <1>5, <2>1, Signalled DEF IInv, Typed, Stopped
<1> QED
    BY <1>12, <1>13, <1>14, <1>16, <1>17, <1>18 DEF IInv

\* stage and the refused publication close the candidates: their generation is gone, or owned
\* until Close retries.
LEMMA AbortedStep ==
    ASSUME IInv, NEW a \in Actors, NEW ok \in BOOLEAN, act[a].pc \in {"staging", "discard"},
           gen' = CleanAborted(act[a].gen, ok), act' = StageError(a), UNCHANGED <<host, lease>>,
           Signal \/ UNCHANGED closer, token' = (IF act[a].pc = "staging" THEN None ELSE token)
    PROVE  IInv'
<1> DEFINE g == act[a].gen
           pc == IF a = Ctl THEN "failed" ELSE "finish"
           r == [act[a] EXCEPT !.pc = pc, !.gen = 0, !.ok = FALSE]
           x == IF ok THEN [gen[g] EXCEPT !.state = "gone", !.dead = TRUE]
                ELSE [gen[g] EXCEPT !.state = "owned", !.failed = TRUE]
<1>1. /\ host \in HostType /\ act \in [Actors -> ActorType] /\ gen \in [Gens -> GenType] /\ act[a] \in ActorType
      /\ g \in Gens /\ gen[g] \in GenType /\ token \in Actors \cup {None}
    BY DEF IInv, Typed, ActorType
<1>2. gen' = [gen EXCEPT ![g] = x] /\ act' = [act EXCEPT ![a] = r]
    BY DEF CleanAborted, StageError
<1>3. x \in GenType /\ x.state \in {"gone", "owned"} /\ x.refs = gen[g].refs /\ x.unhealthy = gen[g].unhealthy
      /\ x.cleaning = gen[g].cleaning
    BY <1>1 DEF GenType
<1>4. r \in ActorType /\ r.pc = pc /\ r.rev = act[a].rev
    <2>1. pc \in {"failed", "finish"} /\ 0 \in Gens
        BY HostAssumption DEF Gens
    <2> HIDE DEF pc
    <2> QED
        BY <1>1, <2>1 DEF ActorType
<1> HIDE DEF x, r
<1>5. /\ act' \in [Actors -> ActorType] /\ act'[a] = r /\ OnlyActor(act, act', a)
      /\ \A b \in Actors : b # a => act'[b] = act[b]
    BY <1>1, <1>2, <1>4, OneActor, Zenon
<1>6. gen' \in [Gens -> GenType] /\ gen'[g] = x /\ \A k \in Gens : k # g => gen'[k] = gen[k]
    <2> HIDE DEF g
    <2> QED
        BY <1>1, <1>2, <1>3, Zenon
<1>7. Stages(act, a) /\ Staged(gen, act, token, host.sequence) /\ gen[g].state = "staged" /\ host.sequence \in Gens
    BY <1>1 DEF IInv, Staged, Stages, HostType
<1>8. Typed'
    BY <1>1, <1>5, <1>6, Signalled DEF IInv, Typed
<1>9. Leased(gen', lease')
    <2>1. Leased(gen, lease)
        BY DEF IInv
    <2> HIDE DEF g
    <2>2. Users(lease, g) = {} /\ ~gen[g].cleaning
        BY <1>1, <1>7, <2>1, Unleased DEF Leased
    <2>3. gen'[g].refs = gen[g].refs /\ ~gen'[g].cleaning
        BY <1>3, <1>6, <2>2
    <2>4. Apart(gen, gen', lease, g) /\ lease' = lease /\ g \in Gens
        BY Zenon, <1>1, <1>6, <2>1, <2>2, <2>3 DEF Apart
    <2>5. Leased(gen', lease)
        BY Zenon, <2>4, LeasedApart
    <2> QED
        BY Zenon, <2>4, <2>5
<1>10. Staged(gen', act', token', host'.sequence)
    <2>1. ~Stages(act', a)
        BY <1>4, <1>5 DEF Stages
    <2>2. gen'[act[a].gen].state # "staged"
        BY <1>3, <1>6
    <2>3. \A k \in Gens : k # act[a].gen => gen'[k].state = gen[k].state /\ gen'[k].rev = gen[k].rev
        BY <1>6
    <2>4. token' # a /\ \A b \in Actors : b # a => (token' = b <=> token = b)
        BY <1>7, Somebody DEF Staged
    <2>5. a \in Activators => act'[a].pc \in {"idle", "enter", "staging", "publish", "discard", "finish"}
        BY <1>4, <1>5, HostAssumption
    <2>6. Staged(gen', act', token', host.sequence)
        <3>1. host.sequence \in Gens /\ Staged(gen, act, token, host.sequence) /\ OnlyActor(act, act', a) /\ Stages(act, a)
            BY Zenon, <1>5, <1>7
        <3> HIDE DEF g, pc
        <3> QED
            <4>1. Leaves(gen, gen', act, act', token, token', a)
                BY Zenon, <2>1, <2>2, <2>3, <2>4, <2>5, <3>1 DEF Leaves
            <4> QED
                BY Zenon, <3>1, <4>1, StagedLeft
    <2> QED
        BY <2>6
<1>11. host.current \in Gens /\ (~host.closing => host.current # g)
    BY <1>1, <1>7 DEF IInv, Current, HostType
<1>12. Current(gen', host')
    BY <1>6, <1>11 DEF IInv, Current
<1>13. Episode(gen', host', act')
    <2>1. \A b \in Activators : act'[b].pc = "idle" <=> act[b].pc = "idle"
        BY <1>4, <1>5, HostAssumption DEF Actors
    <2>2. ExplicitOf(act') = ExplicitOf(act)
        BY <2>1, ExplicitSame
    <2>3. \/ act'[Ctl] = act[Ctl]
          \/ act'[Ctl].pc = "failed" /\ act'[Ctl].rev = act[Ctl].rev /\ act[Ctl].pc \in {"staging", "discard"}
        BY <1>4, <1>5 DEF Actors
    <2>4. Episode(gen, host, act) /\ (gen[host.current].unhealthy => gen'[host.current].unhealthy)
        BY <1>3, <1>6, <1>11 DEF IInv
    <2>5. Episode(gen', host, act')
        BY <2>2, <2>3, <2>4, EpisodeFrame DEF AttemptPcs
    <2> QED
        BY <2>5
<1>14. Stopped(gen', host', act', lease', token', closer')
    <2>1. ~host.stopped
        BY StillRunning DEF IInv
    <2> QED
        BY <2>1, Signalled DEF IInv, Typed, Stopped
<1> QED
    BY <1>8, <1>9, <1>10, <1>12, <1>13, <1>14 DEF IInv

-----------------------------------------------------------------------------
(* Publication.                                                            *)

\* queueCleanupLocked changes nothing but a generation without leases.
LEMMA Queued ==
    ASSUME NEW gn \in [Gens -> GenType], NEW g \in Gens, NEW try \in 0 .. MaxTry
    PROVE  LET gn2 == QueueCleanup(gn, g, try)
           IN  /\ gn2 \in [Gens -> GenType]
               /\ \A k \in Gens : k # g => gn2[k] = gn[k]
               /\ gn2[g].state = gn[g].state /\ gn2[g].rev = gn[g].rev /\ gn2[g].refs = gn[g].refs
               /\ gn2[g].unhealthy = gn[g].unhealthy
               /\ gn2[g].cleaning # gn[g].cleaning => gn[g].refs = 0 /\ gn[g].state = "owned"
<1> DEFINE x == [gn[g] EXCEPT !.cleaning = TRUE, !.try = try, !.failed = FALSE]
<1>1. gn[g] \in GenType
    OBVIOUS
<1>2. x \in GenType /\ x.state = gn[g].state /\ x.rev = gn[g].rev /\ x.refs = gn[g].refs
      /\ x.unhealthy = gn[g].unhealthy
    BY <1>1 DEF GenType
<1>3. CASE CanClean(gn, g)
    <2>1. QueueCleanup(gn, g, try) = [gn EXCEPT ![g] = x]
        BY <1>3 DEF QueueCleanup
    <2> HIDE DEF x
    <2>2. [gn EXCEPT ![g] = x] \in [Gens -> GenType] /\ [gn EXCEPT ![g] = x][g] = x
          /\ \A k \in Gens : k # g => [gn EXCEPT ![g] = x][k] = gn[k]
        BY <1>2, Zenon
    <2> QED
        BY <1>2, <1>3, <2>1, <2>2 DEF CanClean
<1>4. CASE ~CanClean(gn, g)
    BY <1>4 DEF QueueCleanup
<1> QED
    BY <1>3, <1>4

\* The same, of the table that results.
LEMMA QueuedTable ==
    ASSUME NEW gn \in [Gens -> GenType], NEW g \in Gens, NEW gn2, gn2 = QueueCleanup(gn, g, 0)
    PROVE  /\ gn2 \in [Gens -> GenType]
           /\ \A k \in Gens : k # g => gn2[k] = gn[k]
           /\ gn2[g].state = gn[g].state /\ gn2[g].rev = gn[g].rev /\ gn2[g].unhealthy = gn[g].unhealthy
<1>1. 0 \in 0 .. MaxTry
    BY HostAssumption
<1> QED
    BY <1>1, Queued

\* Nor does it touch a generation that is leased.
LEMMA LeasedQueued ==
    ASSUME NEW gn \in [Gens -> GenType], NEW g \in Gens, NEW try \in 0 .. MaxTry, NEW ls, Leased(gn, ls)
    PROVE  Leased(QueueCleanup(gn, g, try), ls)
<1> DEFINE gn2 == QueueCleanup(gn, g, try)
<1>1. /\ \A k \in Gens : k # g => gn2[k] = gn[k]
      /\ gn2[g].state = gn[g].state /\ gn2[g].refs = gn[g].refs
      /\ gn2[g].cleaning # gn[g].cleaning => gn[g].refs = 0 /\ gn[g].state = "owned"
    BY Queued
<1> HIDE DEF gn2
<1>2. CASE gn2[g].cleaning = gn[g].cleaning
    BY <1>1, <1>2 DEF Leased, gn2
<1>3. CASE gn2[g].cleaning # gn[g].cleaning
    <2>1. Users(ls, g) = {} /\ (gn2[g].cleaning => gn2[g].state = "owned")
        BY <1>1, <1>3, Unleased
    <2>2. Leased(gn2, ls)
        <3>1. gn2[g].refs = gn[g].refs /\ \A k \in Gens : k # g => gn2[k] = gn[k]
            BY Zenon, <1>1
        <3>2. Apart(gn, gn2, ls, g)
            BY Zenon, <2>1, <3>1 DEF Apart
        <3> QED
            BY Zenon, <3>2, LeasedApart
    <2> QED
        BY <2>2 DEF gn2
<1> QED
    BY <1>2, <1>3

\* The publication point: the actor's generation becomes current, the previous one may be
\* cleaned up.
LEMMA PublishedStep ==
    ASSUME IInv, NEW a \in Actors, NEW d, d = act[a].rev, d \in 0 .. MaxRevision, d <= host.revision,
           act[a].pc = "publish", ~host.closing, Publish(act[a].gen, [host EXCEPT !.desired = d]),
           act' \in [Actors -> ActorType], OnlyActor(act, act', a), UNCHANGED <<token, lease>>,
           act'[a].pc \notin {"staging", "publish", "discard"}, a \in Activators => act'[a].pc = "finish"
    PROVE  IInv'
<1> DEFINE g == act[a].gen
           p == host.current
           x == [gen[g] EXCEPT !.state = "owned", !.watched = TRUE]
           gens == [gen EXCEPT ![g] = x]
           av == Available([host EXCEPT !.desired = d], gens, p) \cup {g}
<1>1. /\ host \in HostType /\ act \in [Actors -> ActorType] /\ gen \in [Gens -> GenType] /\ act[a] \in ActorType
      /\ g \in Gens /\ p \in Gens /\ gen[g] \in GenType /\ token \in Actors \cup {None} /\ host.sequence \in Gens
      /\ lease \in [Holders -> LeaseType]
    BY DEF IInv, Typed, ActorType, HostType
<1>2. /\ Leased(gen, lease) /\ Staged(gen, act, token, host.sequence) /\ Current(gen, host)
      /\ Stopped(gen, host, act, lease, token, closer)
    BY DEF IInv
<1>3. Stages(act, a) /\ gen[g].state = "staged" /\ gen[g].rev = d /\ token # a
    BY <1>2 DEF Staged, Stages
<1>4. g # p
    BY <1>2, <1>3 DEF Current
<1>5. x \in GenType /\ x.state = "owned" /\ x.rev = d /\ x.refs = gen[g].refs /\ x.cleaning = gen[g].cleaning
    BY <1>1, <1>3 DEF GenType
<1>6. Users(lease, g) = {} /\ ~gen[g].cleaning
    <2> HIDE DEF g
    <2> QED
        BY <1>1, <1>2, <1>3, Unleased DEF Leased
<1>7. gen' = QueueCleanup(gens, p, 0)
    BY DEF Publish
<1>8. host' = [[host EXCEPT !.desired = d] EXCEPT !.current = g, !.recovery = None, !.mine = FALSE, !.available = av]
    BY DEF Publish
<1>9. av \in SUBSET Gens /\ g \in av
    BY <1>1 DEF Available, HostType
<1> HIDE DEF av, x, g, p
<1>10. gens \in [Gens -> GenType] /\ gens[g] = x /\ \A k \in Gens : k # g => gens[k] = gen[k]
    BY <1>1, <1>5, Zenon
<1> HIDE DEF gens
<1>11. Leased(gens, lease)
    <2>1. gens[g].refs = gen[g].refs /\ ~gens[g].cleaning
        BY <1>5, <1>6, <1>10
    <2>2. Apart(gen, gens, lease, g) /\ g \in Gens
        BY Zenon, <1>1, <1>2, <1>6, <1>10, <2>1 DEF Apart
    <2> QED
        BY Zenon, <2>2, LeasedApart
<1>12. 0 \in 0 .. MaxTry
    BY HostAssumption
<1>13. /\ gen' \in [Gens -> GenType]
       /\ \A k \in Gens : k # p => gen'[k] = gens[k]
       /\ gen'[p].state = gens[p].state /\ gen'[p].rev = gens[p].rev
    BY <1>1, <1>7, <1>10, <1>12, Queued
<1>14. Leased(gen', lease')
    BY <1>1, <1>7, <1>10, <1>11, <1>12, LeasedQueued
<1>15. /\ host' \in HostType /\ host'.current = g /\ host'.recovery = None /\ ~host'.mine /\ host'.available = av
       /\ host'.desired = d /\ host'.revision = host.revision /\ host'.sequence = host.sequence
       /\ host'.closing = host.closing /\ host'.stopped = host.stopped
    BY <1>1, <1>8, <1>9 DEF HostType
<1>17. Signal
    BY DEF Publish
<1>18. Typed'
    BY <1>1, <1>13, <1>15, <1>17, Signalled DEF IInv, Typed
<1>19. Staged(gen', act', token', host'.sequence)
    <2>1. ~Stages(act', a)
        BY DEF Stages
    <2>2. gen'[act[a].gen].state # "staged"
        BY <1>1, <1>4, <1>5, <1>10, <1>13 DEF g
    <2>3. \A k \in Gens : k # act[a].gen => gen'[k].state = gen[k].state /\ gen'[k].rev = gen[k].rev
        BY <1>1, <1>10, <1>13 DEF g
    <2>4. a \in Activators => act'[a].pc \in {"idle", "enter", "staging", "publish", "discard", "finish"}
        OBVIOUS
    <2>5. host.sequence \in Gens /\ Staged(gen, act, token, host.sequence) /\ OnlyActor(act, act', a)
          /\ Stages(act, a)
        BY <1>1, <1>2, <1>3
    <2>6. token' # a /\ \A b \in Actors : b # a => (token' = b <=> token = b)
        BY <1>3
    <2>7. Staged(gen', act', token', host.sequence)
        <3>1. Leaves(gen, gen', act, act', token, token', a)
            BY Zenon, <2>1, <2>2, <2>3, <2>4, <2>5, <2>6 DEF Leaves
        <3> QED
            BY Zenon, <2>5, <3>1, StagedLeft
    <2> QED
        BY <1>15, <2>7
<1>20. Current(gen', host')
    <2>1. gen'[g] = x
        BY <1>1, <1>4, <1>10, <1>13
    <2> QED
        BY <1>5, <1>6, <1>9, <1>15, <2>1 DEF Current
<1>21. Episode(gen', host', act')
    BY <1>15 DEF Episode
<1>22. Stopped(gen', host', act', lease', token', closer')
    <2>1. ~host.stopped
        BY <1>2 DEF Stopped
    <2>2. closer'.pc # "idle" => closer.pc # "idle"
        BY <1>17, Signalled DEF IInv, Typed
    <2> QED
        BY <1>2, <1>15, <2>1, <2>2 DEF Stopped
<1> QED
    BY <1>14, <1>18, <1>19, <1>20, <1>21, <1>22 DEF IInv

\* publishExplicit.
LEMMA PublishExplicitStep ==
    ASSUME IInv, NEW a \in Activators, PublishExplicit(a)
    PROVE  IInv'
<1> DEFINE d == act[a].rev
           r == [act[a] EXCEPT !.pc = "finish", !.ok = TRUE]
<1>1. a \in Actors /\ act[a] \in ActorType /\ host \in HostType /\ act[a].pc = "publish" /\ ~host.closing
      /\ host.revision = d /\ UNCHANGED <<token, lease>>
    BY DEF IInv, Typed, Actors, PublishExplicit, MayPublish
<1>2. r \in ActorType /\ r.pc = "finish"
    BY <1>1 DEF ActorType
<1>3. d \in 0 .. MaxRevision /\ d <= host.revision
    <2>1. d \in 0 .. MaxRevision
        BY Zenon, <1>1 DEF ActorType
    <2> QED
        BY <1>1, <2>1, HostAssumption
<1>4. act' = [act EXCEPT ![a] = r] /\ Publish(act[a].gen, [host EXCEPT !.desired = d])
    BY DEF PublishExplicit
<1> HIDE DEF r
<1>5. act' \in [Actors -> ActorType] /\ OnlyActor(act, act', a) /\ act'[a] = r
    BY <1>1, <1>2, <1>4, OneActor, Zenon DEF IInv, Typed
<1>6. act'[a].pc = "finish"
    BY <1>2, <1>5
<1> HIDE DEF d
<1> QED
    BY <1>1, <1>3, <1>4, <1>5, <1>6, PublishedStep DEF d

\* The controller publishes: its episode stands, so the set is the desired one.
LEMMA CtlPublishesStep ==
    ASSUME IInv, CtlPublishes
    PROVE  IInv' /\ act[Ctl].rev = host.desired /\ ~host.closing
<1> DEFINE d == host.desired
           r == [IdleActor EXCEPT !.pc = "select"]
<1>1. Ctl \in Actors /\ act[Ctl] \in ActorType /\ host \in HostType /\ act[Ctl].pc = "publish"
      /\ UNCHANGED <<token, lease>> /\ Ctl \notin Activators
    BY HostAssumption DEF IInv, Typed, Actors, CtlPublishes
<1>2. ~host.closing /\ d = act[Ctl].rev
    BY DEF IInv, Episode, CtlPublishes, EpisodeStands, Matches
<1>3. r \in ActorType /\ r.pc = "select"
    <2>1. 0 \in Gens /\ 0 \in 0 .. MaxRevision /\ 0 \in 0 .. MaxAttempts
        BY HostAssumption DEF Gens
    <2> QED
        BY <2>1 DEF IdleActor, ActorType
<1>4. d \in 0 .. MaxRevision /\ d <= host.revision
    BY <1>1 DEF IInv, Current, HostType
<1>5. [host EXCEPT !.desired = d] = host
    BY <1>1 DEF HostType
<1>6. act' = [act EXCEPT ![Ctl] = r] /\ Publish(act[Ctl].gen, [host EXCEPT !.desired = d])
    BY <1>5 DEF CtlPublishes
<1> HIDE DEF r, d
<1>7. act' \in [Actors -> ActorType] /\ OnlyActor(act, act', Ctl) /\ act'[Ctl] = r
    BY <1>1, <1>3, <1>6, OneActor, Zenon DEF IInv, Typed
<1>8. act'[Ctl].pc = "select"
    BY <1>3, <1>7
<1>9. IInv'
    BY <1>1, <1>2, <1>4, <1>6, <1>7, <1>8, PublishedStep
<1> QED
    BY <1>2, <1>9 DEF d

-----------------------------------------------------------------------------
(* Leases and cleanup.                                                     *)

\* Owned generations may go; the staged ones and those to come stay as they are.
LEMMA StagedStates ==
    ASSUME NEW gn, NEW gn2, NEW ac, NEW tk, NEW sq \in Gens, Staged(gn, ac, tk, sq),
           \A g \in Gens : /\ gn2[g].state = "staged" <=> gn[g].state = "staged"
                           /\ gn[g].state = "none" => gn2[g].state = "none"
                           /\ gn2[g].rev = gn[g].rev
    PROVE  Staged(gn2, ac, tk, sq)
<1>1. 1 .. sq \subseteq Gens
    BY UpTo
<1> QED
    BY <1>1 DEF Staged

\* Only host.available changes.
SameAvailable(h, h2) ==
    /\ h2.current = h.current /\ h2.desired = h.desired /\ h2.revision = h.revision /\ h2.sequence = h.sequence
    /\ h2.recovery = h.recovery /\ h2.wake = h.wake /\ h2.mine = h.mine /\ h2.closing = h.closing
    /\ h2.stopped = h.stopped

\* What is left to show of a step that changes leases and owned generations.
LEMMA OwnedStep ==
    ASSUME IInv, gen' \in [Gens -> GenType], lease' \in [Holders -> LeaseType], Leased(gen', lease'),
           \A g \in Gens : /\ gen'[g].state = "staged" <=> gen[g].state = "staged"
                           /\ gen[g].state = "none" => gen'[g].state = "none"
                           /\ gen'[g].rev = gen[g].rev
                           /\ gen'[g].unhealthy = gen[g].unhealthy,
           host' \in HostType, SameAvailable(host, host'), Current(gen', host'), ~host.stopped,
           UNCHANGED <<token, act>>, closer' \in CloserType, closer'.pc # "idle" => host.closing
    PROVE  IInv'
<1>1. host.current \in Gens /\ host.sequence \in Gens
    BY DEF IInv, Typed, HostType
<1>2. Typed'
    BY DEF IInv, Typed
<1>3. Staged(gen', act', token', host'.sequence)
    <2>1. Staged(gen, act, token, host.sequence)
        BY DEF IInv
    <2>2. Staged(gen', act, token, host.sequence)
        BY <1>1, <2>1, StagedStates
    <2> QED
        BY <2>2 DEF SameAvailable
<1>4. Episode(gen', host', act')
    <2>1. Episode(gen, host, act) /\ gen'[host.current].unhealthy = gen[host.current].unhealthy
        BY <1>1 DEF IInv
    <2>2. act' = act
        OBVIOUS
    <2> QED
        BY <2>1, <2>2 DEF Episode, SameAvailable, Matches
<1>5. Stopped(gen', host', act', lease', token', closer')
    BY DEF Stopped, SameAvailable
<1> QED
    BY <1>2, <1>3, <1>4, <1>5 DEF IInv

\* Nothing changes in the host.
LEMMA HostStays ==
    ASSUME IInv, UNCHANGED host
    PROVE  host' \in HostType /\ SameAvailable(host, host')
    BY DEF IInv, Typed, SameAvailable

\* Close, woken or not, is where it was.
LEMMA CloserStays ==
    ASSUME IInv, Signal \/ UNCHANGED closer
    PROVE  closer' \in CloserType /\ (closer'.pc # "idle" => host.closing)
    BY Signalled DEF IInv, Typed, Stopped

\* Leases are finitely many.
LEMMA UsersFinite ==
    ASSUME NEW ls, NEW g
    PROVE  IsFiniteSet(Users(ls, g)) /\ Cardinality(Users(ls, g)) \in 0 .. Cardinality(Holders)
<1>1. Users(ls, g) \in SUBSET Holders
    BY DEF Users
<1>2. IsFiniteSet(Users(ls, g)) /\ Cardinality(Users(ls, g)) <= Cardinality(Holders)
    BY <1>1, HostAssumption, FS_Subset
<1>3. Cardinality(Users(ls, g)) \in Nat /\ Cardinality(Holders) \in Nat
    BY <1>2, HostAssumption, FS_CardinalityType
<1> QED
    BY <1>2, <1>3

\* The first critical section of lease.
LEMMA LeaseTakenStep ==
    ASSUME IInv, NEW l \in Holders, NEW g \in Gens, LeaseTaken(l, g)
    PROVE  IInv'
<1> DEFINE n == gen[g].refs
           x == [gen[g] EXCEPT !.refs = n + 1]
           y == [pc |-> "confirm", gen |-> g]
<1>1. /\ gen \in [Gens -> GenType] /\ lease \in [Holders -> LeaseType] /\ gen[g] \in GenType /\ host \in HostType
      /\ lease[l].pc = "idle" /\ ~host.closing /\ gen[g].state = "owned" /\ ~gen[g].cleaning
      /\ gen' = [gen EXCEPT ![g] = x] /\ lease' = [lease EXCEPT ![l] = y]
      /\ UNCHANGED host /\ UNCHANGED <<token, act>> /\ (Signal \/ UNCHANGED closer)
    BY DEF IInv, Typed, LeaseTaken, Leasable
<1>2. y \in LeaseType /\ y.pc = "confirm" /\ y.gen = g
    BY DEF LeaseType
<1> HIDE DEF y
<1>3. lease' \in [Holders -> LeaseType] /\ lease'[l] = y /\ \A k \in Holders : k # l => lease'[k] = lease[k]
    BY <1>1, <1>2, Zenon
<1>4. \A k \in Gens : k # g => Users(lease', k) = Users(lease, k)
    BY <1>1, <1>2, <1>3 DEF Users
<1>5. Users(lease', g) = Users(lease, g) \cup {l} /\ l \notin Users(lease, g)
    BY <1>1, <1>2, <1>3 DEF Users
<1>6. Cardinality(Users(lease', g)) = n + 1
    <2>1. Cardinality(Users(lease, g)) = n
        BY DEF IInv, Leased
    <2> HIDE DEF n
    <2> QED
        BY <1>5, <2>1, UsersFinite, FS_AddElement
<1>7. n + 1 \in 0 .. Cardinality(Holders)
    BY <1>6, UsersFinite
<1>8. x \in GenType /\ x.refs = n + 1 /\ x.state = "owned" /\ ~x.cleaning /\ x.rev = gen[g].rev
      /\ x.unhealthy = gen[g].unhealthy
    <2> HIDE DEF n
    <2> QED
        BY <1>1, <1>7 DEF GenType
<1> HIDE DEF x, n
<1>9. gen' \in [Gens -> GenType] /\ gen'[g] = x /\ \A k \in Gens : k # g => gen'[k] = gen[k]
    BY <1>1, <1>8, Zenon
<1>10. Leased(gen', lease')
    <2>1. Leased(gen, lease)
        BY DEF IInv
    <2> QED
        BY <1>4, <1>6, <1>8, <1>9, <2>1 DEF Leased
<1>11. Current(gen', host')
    <2>1. Current(gen, host) /\ host.current \in Gens /\ host' = host
        BY <1>1 DEF IInv, HostType
    <2> QED
        BY <1>1, <1>8, <1>9, <2>1 DEF Current
<1>12. \A k \in Gens : /\ gen'[k].state = "staged" <=> gen[k].state = "staged"
                       /\ gen[k].state = "none" => gen'[k].state = "none"
                       /\ gen'[k].rev = gen[k].rev
                       /\ gen'[k].unhealthy = gen[k].unhealthy
    BY <1>1, <1>8, <1>9
<1>13. ~host.stopped
    BY <1>1 DEF IInv, Stopped
<1>14. host' \in HostType /\ SameAvailable(host, host')
    BY <1>1, HostStays
<1>15. closer' \in CloserType /\ (closer'.pc # "idle" => host.closing)
    BY <1>1, CloserStays
<1> QED
    BY <1>1, <1>3, <1>9, <1>10, <1>11, <1>12, <1>13, <1>14, <1>15, OwnedStep

\* cleanup ends: the generation is gone, or stays owned until Close retries.
LEMMA CleanupStep ==
    ASSUME IInv, NEW g \in Gens, NEW ok \in BOOLEAN, Cleanup(g, ok)
    PROVE  IInv'
<1> DEFINE x == IF ok THEN [gen[g] EXCEPT !.cleaning = FALSE, !.state = "gone", !.dead = TRUE]
                ELSE [gen[g] EXCEPT !.cleaning = FALSE, !.failed = TRUE]
<1>1. /\ gen \in [Gens -> GenType] /\ gen[g] \in GenType /\ host \in HostType /\ gen[g].cleaning
      /\ gen' = [gen EXCEPT ![g] = x] /\ UNCHANGED host /\ UNCHANGED <<token, act>> /\ UNCHANGED lease
      /\ (Signal \/ UNCHANGED closer)
    BY DEF IInv, Typed, Cleanup
<1>2. gen[g].state = "owned" /\ Leased(gen, lease)
    BY <1>1 DEF IInv, Leased
<1>3. x \in GenType /\ ~x.cleaning /\ x.state \in {"owned", "gone"} /\ x.rev = gen[g].rev /\ x.refs = gen[g].refs
      /\ x.unhealthy = gen[g].unhealthy
    BY <1>1, <1>2 DEF GenType
<1> HIDE DEF x
<1>4. gen' \in [Gens -> GenType] /\ gen'[g] = x /\ \A k \in Gens : k # g => gen'[k] = gen[k]
    BY <1>1, <1>3, Zenon
<1>5. Leased(gen', lease')
    <2>1. Users(lease, g) = {}
        BY <1>1, <1>2, Unleased
    <2>2. gen'[g].refs = gen[g].refs /\ (gen'[g].cleaning => gen'[g].state = "owned")
        BY <1>3, <1>4
    <2>3. Leased(gen', lease)
        <3>1. g \in Gens /\ Leased(gen, lease) /\ \A k \in Gens : k # g => gen'[k] = gen[k]
            BY Zenon, <1>1, <1>2, <1>4
        <3>2. Apart(gen, gen', lease, g)
            BY Zenon, <2>1, <2>2, <3>1 DEF Apart
        <3> QED
            BY Zenon, <3>1, <3>2, LeasedApart
    <2> QED
        BY <1>1, <2>3
<1>6. Current(gen', host')
    <2>1. Current(gen, host) /\ host.current \in Gens /\ host' = host
        BY <1>1 DEF IInv, HostType
    <2> QED
        BY <1>1, <1>4, <2>1 DEF Current
<1>7. \A k \in Gens : /\ gen'[k].state = "staged" <=> gen[k].state = "staged"
                      /\ gen[k].state = "none" => gen'[k].state = "none"
                      /\ gen'[k].rev = gen[k].rev
                      /\ gen'[k].unhealthy = gen[k].unhealthy
    BY <1>2, <1>3, <1>4
<1>8. ~host.stopped
    BY <1>2 DEF IInv, Stopped
<1>9. host' \in HostType /\ SameAvailable(host, host') /\ lease' \in [Holders -> LeaseType]
    BY <1>1, HostStays DEF IInv, Typed
<1>10. closer' \in CloserType /\ (closer'.pc # "idle" => host.closing)
    BY <1>1, CloserStays
<1> QED
    BY <1>1, <1>4, <1>5, <1>6, <1>7, <1>8, <1>9, <1>10, OwnedStep

\* release: the last lease of a retired generation starts its cleanup.
LEMMA ReleaseStep ==
    ASSUME IInv, NEW l \in Holders, Release(l)
    PROVE  IInv'
<1> DEFINE g == lease[l].gen
           n == gen[g].refs
           x == [gen[g] EXCEPT !.refs = n - 1]
           y == [pc |-> "idle", gen |-> 0]
           gens == [gen EXCEPT ![g] = x]
<1>1. /\ gen \in [Gens -> GenType] /\ lease \in [Holders -> LeaseType] /\ lease[l] \in LeaseType /\ g \in Gens
      /\ gen[g] \in GenType /\ host \in HostType /\ lease[l].pc \in {"held", "denied"}
      /\ lease' = [lease EXCEPT ![l] = y] /\ UNCHANGED <<token, act>> /\ (Signal \/ UNCHANGED closer)
    BY DEF IInv, Typed, Release, LeaseType
<1>2. \/ IsCurrent(g) /\ gen' = gens /\ UNCHANGED host
      \/ ~IsCurrent(g) /\ gen' = QueueCleanup(gens, g, 0)
           /\ host' = [host EXCEPT !.available = Available(host, gens, g)]
    BY DEF Release
<1>3. y \in LeaseType /\ y.pc = "idle" /\ y.gen = 0
    BY HostAssumption DEF LeaseType, Gens
<1> HIDE DEF y, g
<1>4. lease' \in [Holders -> LeaseType] /\ lease'[l] = y /\ \A k \in Holders : k # l => lease'[k] = lease[k]
    BY <1>1, <1>3, Zenon
<1>5. \A k \in Gens : k # g => Users(lease', k) = Users(lease, k)
    BY <1>1, <1>3, <1>4 DEF Users, g
<1>6. Users(lease', g) = Users(lease, g) \ {l} /\ l \in Users(lease, g)
    BY <1>1, <1>3, <1>4 DEF Users, g
<1>7. Leased(gen, lease) /\ gen[g].state = "owned" /\ ~gen[g].cleaning /\ Cardinality(Users(lease, g)) = n
    BY <1>1, <1>6 DEF IInv, Leased
<1>8. Cardinality(Users(lease', g)) = n - 1
    <2> HIDE DEF n
    <2> QED
        BY <1>6, <1>7, UsersFinite, FS_RemoveElement
<1>9. n - 1 \in 0 .. Cardinality(Holders)
    BY <1>8, UsersFinite
<1>10. x \in GenType /\ x.refs = n - 1 /\ x.state = "owned" /\ ~x.cleaning /\ x.rev = gen[g].rev
       /\ x.unhealthy = gen[g].unhealthy
    <2> HIDE DEF n
    <2> QED
        BY <1>1, <1>7, <1>9 DEF GenType
<1> HIDE DEF x, n
<1>11. gens \in [Gens -> GenType] /\ gens[g] = x /\ \A k \in Gens : k # g => gens[k] = gen[k]
    BY <1>1, <1>10, Zenon
<1> HIDE DEF gens
<1>12. Leased(gens, lease')
    BY <1>5, <1>7, <1>8, <1>10, <1>11 DEF Leased
<1>13. 0 \in 0 .. MaxTry
    BY HostAssumption
<1>14. /\ gen' \in [Gens -> GenType] /\ Leased(gen', lease')
       /\ \A k \in Gens : k # g => gen'[k] = gens[k]
       /\ gen'[g].state = gens[g].state /\ gen'[g].rev = gens[g].rev /\ gen'[g].unhealthy = gens[g].unhealthy
       /\ IsCurrent(g) => gen'[g] = gens[g]
    <2>1. CASE gen' = gens
        BY <2>1, <1>11, <1>12
    <2>2. CASE ~IsCurrent(g) /\ gen' = QueueCleanup(gens, g, 0)
        <3>1. Leased(gen', lease')
            BY <1>1, <1>11, <1>12, <1>13, <2>2, LeasedQueued
        <3>2. gen' = QueueCleanup(gens, g, 0) /\ gens \in [Gens -> GenType] /\ g \in Gens
            BY Zenon, <1>1, <1>11, <2>2
        <3>3. /\ gen' \in [Gens -> GenType] /\ \A k \in Gens : k # g => gen'[k] = gens[k]
              /\ gen'[g].state = gens[g].state /\ gen'[g].rev = gens[g].rev
              /\ gen'[g].unhealthy = gens[g].unhealthy
            BY <3>2, QueuedTable
        <3> QED
            BY Zenon, <2>2, <3>1, <3>3
    <2> QED
        BY <1>2, <2>1, <2>2
<1>15. /\ host' \in HostType /\ SameAvailable(host, host')
       /\ IsCurrent(g) \/ g # host.current \/ host.closing
       /\ host.available \ {g} \subseteq host'.available /\ (IsCurrent(g) => host'.available = host.available)
    <2>1. CASE UNCHANGED host
        BY <2>1, HostStays DEF IsCurrent
    <2>2. CASE ~IsCurrent(g) /\ host' = [host EXCEPT !.available = Available(host, gens, g)]
        <3> DEFINE av == Available(host, gens, g)
        <3>1. av \in SUBSET Gens /\ host.available \ {g} \subseteq av
            BY <1>1 DEF Available, HostType
        <3>2. host' = [host EXCEPT !.available = av]
            BY <2>2
        <3> HIDE DEF av
        <3>3. host' \in HostType /\ SameAvailable(host, host') /\ host'.available = av
            BY <1>1, <3>1, <3>2 DEF HostType, SameAvailable
        <3> QED
            BY <2>2, <3>1, <3>3 DEF IsCurrent
    <2> QED
        BY <1>2, <2>1, <2>2
<1>16. Current(gen', host')
    <2>1. Current(gen, host) /\ host.current \in Gens
        BY <1>1 DEF IInv, HostType
    <2>2. CASE host.closing
        BY <2>1, <2>2, <1>15 DEF Current, SameAvailable
    <2>3. CASE IsCurrent(g)
        <3>1. host.current = g /\ gen'[g] = x
            BY <2>3, <1>11, <1>14 DEF IsCurrent
        <3>2. gen'[host.current].state = "owned" /\ gen'[host.current].rev = gen[host.current].rev
              /\ ~gen'[host.current].cleaning
            BY <3>1, <1>10
        <3> QED
            BY <2>1, <2>3, <3>2, <1>15 DEF Current, SameAvailable
    <2>4. CASE g # host.current
        <3>1. gen'[host.current] = gen[host.current]
            BY <2>1, <2>4, <1>11, <1>14
        <3> QED
            BY <2>1, <2>4, <3>1, <1>15 DEF Current, SameAvailable
    <2> QED
        BY <1>15, <2>2, <2>3, <2>4
<1>17. \A k \in Gens : /\ gen'[k].state = "staged" <=> gen[k].state = "staged"
                       /\ gen[k].state = "none" => gen'[k].state = "none"
                       /\ gen'[k].rev = gen[k].rev
                       /\ gen'[k].unhealthy = gen[k].unhealthy
    BY <1>7, <1>10, <1>11, <1>14
<1>18. ~host.stopped
    BY <1>1 DEF IInv, Stopped
<1>19. closer' \in CloserType /\ (closer'.pc # "idle" => host.closing)
    BY <1>1, CloserStays
<1>20. UNCHANGED <<token, act>>
    BY <1>1
<1> QED
    BY <1>4, <1>14, <1>15, <1>16, <1>17, <1>18, <1>19, <1>20, OwnedStep

-----------------------------------------------------------------------------
(* Close.                                                                  *)

\* beginClose.
LEMMA CloseBeginsStep ==
    ASSUME IInv, CloseBegins
    PROVE  IInv'
<1>1. /\ gen \in [Gens -> GenType] /\ act \in [Actors -> ActorType] /\ lease \in [Holders -> LeaseType]
      /\ token \in Actors \cup {None} /\ host \in HostType /\ closer \in CloserType /\ Ctl \in Actors
      /\ UNCHANGED <<gen, token, lease>>
    BY DEF IInv, Typed, Actors, CloseBegins
<1>2. closer' \in CloserType
    <2> DEFINE t == closer.try
    <2>1. t + 1 \in 0 .. MaxTry /\ closer' = [pc |-> "run", try |-> t + 1]
        BY <1>1, HostAssumption DEF CloserType, CloseBegins
    <2> HIDE DEF t
    <2> QED
        BY <2>1 DEF CloserType
<1>3. CASE host.closing
    <2>1. UNCHANGED <<host, act>>
        BY <1>3 DEF CloseBegins
    <2>2. Stopped(gen', host', act', lease', token', closer')
        BY <1>1, <1>3, <2>1 DEF IInv, Stopped
    <2> QED
        BY <1>1, <1>2, <2>1, <2>2 DEF IInv, Typed
<1>4. CASE ~host.closing
    <2>1. /\ host' \in HostType /\ host'.recovery = None /\ ~host'.mine /\ host'.closing /\ host'.stopped = host.stopped
          /\ host'.sequence = host.sequence /\ host'.desired = host.desired /\ host'.revision = host.revision
        <3>1. host' = Cancelled([host EXCEPT !.closing = TRUE])
            BY <1>4 DEF CloseBegins
        <3> QED
            BY <1>1, <3>1 DEF Cancelled, HostType
    <2> DEFINE r == [act[Ctl] EXCEPT !.ctxDone = TRUE]
    <2>2. act' = [act EXCEPT ![Ctl] = r]
        BY <1>4 DEF CloseBegins
    <2>3. r \in ActorType /\ r.pc = act[Ctl].pc /\ r.gen = act[Ctl].gen /\ r.rev = act[Ctl].rev
        BY <1>1 DEF ActorType
    <2> HIDE DEF r
    <2>4. act' \in [Actors -> ActorType] /\ \A b \in Actors : act'[b].pc = act[b].pc /\ act'[b].gen = act[b].gen
                                                                /\ act'[b].rev = act[b].rev
        BY <1>1, <2>2, <2>3
    <2>5. Staged(gen', act', token', host'.sequence)
        <3>1. Staged(gen, act, token, host.sequence)
            BY DEF IInv
        <3>2. \A b \in Actors : Stages(act', b) <=> Stages(act, b)
            BY <2>4 DEF Stages
        <3>3. \A b \in Actors : act'[b].pc = "staging" <=> token = b
            <4>1. \A b \in Actors : act[b].pc = "staging" <=> token = b
                BY Zenon, <3>1 DEF Staged
            <4>2. \A b \in Actors : act'[b].pc = act[b].pc
                BY Zenon, <2>4
            <4> QED
                BY Zenon, <4>1, <4>2
        <3>4. \A b \in Activators : act'[b].pc \in {"idle", "enter", "staging", "publish", "discard", "finish"}
            BY Zenon, <2>4, <3>1 DEF Staged, Actors
        <3>5. Staged(gen, act', token, host.sequence)
            <4>1. \A b \in Actors : Stages(act', b) => act'[b].gen = act[b].gen /\ act'[b].rev = act[b].rev
                BY Zenon, <2>4
            <4> QED
                BY <3>1, <3>2, <3>3, <3>4, <4>1, StagedAlike
        <3> QED
            BY <1>1, <2>1, <3>5
    <2>6. Current(gen', host')
        BY <2>1 DEF IInv, Current
    <2>7. Episode(gen', host', act')
        BY <2>1 DEF Episode
    <2>8. Stopped(gen', host', act', lease', token', closer')
        BY <1>4, <2>1 DEF IInv, Stopped
    <2>9. Typed'
        BY <1>1, <1>2, <2>1, <2>4 DEF Typed
    <2>10. Leased(gen', lease')
        BY <1>1 DEF IInv
    <2> QED
        BY <2>5, <2>6, <2>7, <2>8, <2>9, <2>10 DEF IInv
<1> QED
    BY <1>3, <1>4

\* closeProgress queues what can be cleaned up.
LEMMA CloseWaitsStep ==
    ASSUME IInv, CloseWaits
    PROVE  IInv'
<1> DEFINE t == closer.try
           W == ToClean
<1>1. /\ gen \in [Gens -> GenType] /\ host \in HostType /\ closer \in CloserType /\ closer.pc = "run"
      /\ t \in 0 .. MaxTry /\ UNCHANGED <<token, act>> /\ UNCHANGED lease
    BY DEF IInv, Typed, CloseWaits, CloserType
<1>2. host.closing
    BY <1>1 DEF IInv, Stopped
<1>3. \A g \in Gens : gen'[g] = IF g \in W THEN QueueCleanup(gen, g, t)[g] ELSE gen[g]
    BY DEF CloseWaits
<1>4. \A g \in Gens : /\ QueueCleanup(gen, g, t)[g] \in GenType
                      /\ QueueCleanup(gen, g, t)[g].state = gen[g].state
                      /\ QueueCleanup(gen, g, t)[g].rev = gen[g].rev
                      /\ QueueCleanup(gen, g, t)[g].refs = gen[g].refs
                      /\ QueueCleanup(gen, g, t)[g].unhealthy = gen[g].unhealthy
    <2> SUFFICES ASSUME NEW g \in Gens
                 PROVE  LET q == QueueCleanup(gen, g, t)
                        IN  /\ q[g] \in GenType /\ q[g].state = gen[g].state /\ q[g].rev = gen[g].rev
                            /\ q[g].refs = gen[g].refs /\ q[g].unhealthy = gen[g].unhealthy
        BY Zenon
    <2> DEFINE q == QueueCleanup(gen, g, t)
    <2>1. /\ q \in [Gens -> GenType] /\ q[g].state = gen[g].state /\ q[g].rev = gen[g].rev
          /\ q[g].refs = gen[g].refs /\ q[g].unhealthy = gen[g].unhealthy
        BY Zenon, <1>1, Queued
    <2> HIDE DEF q
    <2>2. q[g] \in GenType
        BY <2>1
    <2> QED
        BY Zenon, <2>1, <2>2 DEF q
<1>5. \A g \in W : gen[g].refs = 0 /\ gen[g].state = "owned"
    BY DEF ToClean, CanClean
<1>6. gen' \in [Gens -> GenType]
    <2>1. gen' = [g \in Gens |-> IF g \in W THEN QueueCleanup(gen, g, t)[g] ELSE gen[g]]
        BY DEF CloseWaits
    <2> HIDE DEF W, t
    <2> QED
        BY <1>1, <1>4, <2>1
<1> HIDE DEF W, t
<1>7. \A g \in Gens : /\ gen'[g].state = gen[g].state /\ gen'[g].rev = gen[g].rev /\ gen'[g].refs = gen[g].refs
                      /\ gen'[g].unhealthy = gen[g].unhealthy
                      /\ g \notin W => gen'[g] = gen[g]
    BY <1>3, <1>4
<1>8. Leased(gen', lease')
    <2>1. Leased(gen, lease)
        BY DEF IInv
    <2>2. \A g \in Gens : g \in W => Users(lease, g) = {}
        BY <1>5, <2>1, Unleased
    <2>3. Leased(gen', lease)
        BY <1>5, <1>7, <2>1, <2>2 DEF Leased
    <2> QED
        BY <1>1, <2>3
<1>9. host' \in HostType /\ SameAvailable(host, host')
    <2>1. host' = [host EXCEPT !.available = host.available \ W]
        BY DEF CloseWaits, W
    <2>2. host.available \ W \in SUBSET Gens
        BY <1>1 DEF HostType
    <2> QED
        BY <1>1, <2>1, <2>2 DEF HostType, SameAvailable
<1>10. Current(gen', host')
    BY <1>2, <1>9 DEF IInv, Current, SameAvailable
<1>11. ~host.stopped
    <2>1. SUFFICES ASSUME host.stopped PROVE FALSE
        OBVIOUS
    <2>2. Joined /\ \A g \in Gens : gen[g].state \in {"none", "gone"}
        BY <2>1, ExplicitIs DEF IInv, Stopped
    <2>3. Owned(gen) = {} /\ ToClean = {}
        BY <2>2 DEF Owned, ToClean, CanClean
    <2> QED
        BY <2>2, <2>3 DEF CloseWaits, CloseSettled
<1>12. closer' \in CloserType
    BY <1>1 DEF CloseWaits, CloserType
<1>13. \A g \in Gens : /\ gen'[g].state = "staged" <=> gen[g].state = "staged"
                       /\ gen[g].state = "none" => gen'[g].state = "none"
                       /\ gen'[g].rev = gen[g].rev
                       /\ gen'[g].unhealthy = gen[g].unhealthy
    BY <1>7
<1>14. lease' \in [Holders -> LeaseType]
    BY <1>1 DEF IInv, Typed
<1>15. UNCHANGED <<token, act>> /\ (closer'.pc # "idle" => host.closing)
    BY <1>1, <1>2
<1> QED
    BY <1>6, <1>8, <1>9, <1>10, <1>11, <1>12, <1>13, <1>14, <1>15, OwnedStep

\* closeProgress reports that everything is cleaned up: nobody stages, so nothing is staged,
\* and nothing owned means nothing leased.
LEMMA CloseReturnsStep ==
    ASSUME IInv, CloseReturns
    PROVE  IInv'
<1>1. /\ gen \in [Gens -> GenType] /\ act \in [Actors -> ActorType] /\ lease \in [Holders -> LeaseType]
      /\ host \in HostType /\ closer \in CloserType /\ closer.pc = "run" /\ Joined
      /\ UNCHANGED <<gen, token, act, lease>>
    BY DEF IInv, Typed, CloseReturns, CloseSettled
<1>2. host.closing
    BY <1>1 DEF IInv, Stopped
<1>3. closer' \in CloserType /\ closer'.pc = "idle"
    BY <1>1 DEF CloseReturns, CloserType
<1>4. CASE Owned(gen) = {}
    <2>1. host' = [host EXCEPT !.desired = 0, !.stopped = TRUE]
        BY <1>4 DEF CloseReturns
    <2>2. /\ host' \in HostType /\ host'.desired = 0 /\ host'.revision = host.revision /\ host'.sequence = host.sequence
          /\ host'.recovery = host.recovery /\ host'.mine = host.mine /\ host'.closing
        <3>1. 0 \in 0 .. MaxRevision
            BY HostAssumption
        <3> QED
            BY <1>1, <1>2, <2>1, <3>1 DEF HostType
    <2>3. host.recovery = None /\ ~host.mine
        BY <1>2 DEF IInv, Episode, Matches
    <2>4. \A g \in Gens : gen[g].state # "owned"
        BY <1>4 DEF Owned
    <2>5. \A g \in Gens : gen[g].state # "staged"
        <3>1. \A a \in Actors : ~Stages(act, a)
            BY <1>1, ExplicitIs, ExplicitZero DEF JoinedOf, Stages, Actors
        <3> QED
            BY <3>1 DEF IInv, Staged
    <2>6. \A g \in Gens : gen[g].state \in {"none", "gone"}
        BY <1>1, <2>4, <2>5 DEF GenType
    <2>7. \A l \in Holders : lease[l].pc = "idle"
        <3> SUFFICES ASSUME NEW l \in Holders, lease[l].pc # "idle" PROVE FALSE
            OBVIOUS
        <3>1. lease[l].gen \in Gens
            BY <1>1 DEF LeaseType
        <3>2. l \in Users(lease, lease[l].gen)
            BY DEF Users
        <3>3. gen[lease[l].gen].state = "owned"
            BY <3>1, <3>2 DEF IInv, Leased
        <3> QED
            BY <2>4, <3>1, <3>3
    <2>8. Stopped(gen', host', act', lease', token', closer')
        <3>1. JoinedOf(token, act)
            BY <1>1, ExplicitIs
        <3> QED
            BY <1>1, <1>3, <2>2, <2>6, <2>7, <3>1 DEF Stopped
    <2>9. Current(gen', host')
        <3> DEFINE w == host.revision
        <3>1. w \in 0 .. MaxRevision /\ host'.desired = 0 /\ host'.revision = w
            BY <1>1, <2>2 DEF HostType
        <3> HIDE DEF w
        <3>2. 0 <= w
            BY <3>1, HostAssumption
        <3> QED
            BY <2>2, <3>1, <3>2 DEF Current
    <2>10. Episode(gen', host', act')
        BY <2>2, <2>3 DEF Episode
    <2>11. Staged(gen', act', token', host'.sequence) /\ Leased(gen', lease')
        BY <1>1, <2>2 DEF IInv
    <2>12. Typed'
        BY <1>1, <1>3, <2>2 DEF IInv, Typed
    <2> QED
        BY <2>8, <2>9, <2>10, <2>11, <2>12 DEF IInv
<1>5. CASE Owned(gen) # {}
    <2>1. UNCHANGED <<gen, token, act, lease, host>>
        BY <1>1, <1>5 DEF CloseReturns
    <2>2. Stopped(gen', host', act', lease', token', closer')
        BY <1>3, <2>1 DEF IInv, Stopped
    <2> QED
        BY <1>3, <2>1, <2>2 DEF IInv, Typed
<1> QED
    BY <1>4, <1>5

\* The context of Close ends.
LEMMA CloseTimesOutStep ==
    ASSUME IInv, CloseTimesOut
    PROVE  IInv'
<1>1. closer \in CloserType
    BY DEF IInv, Typed
<1>2. closer' \in CloserType /\ closer'.pc = "idle" /\ UNCHANGED <<gen, host, token, act, lease>>
    BY <1>1 DEF CloserType, CloseTimesOut
<1>3. Stopped(gen', host', act', lease', token', closer')
    BY <1>2 DEF IInv, Stopped
<1> QED
    BY <1>2, <1>3 DEF IInv, Typed

-----------------------------------------------------------------------------
(* The invariant.                                                          *)

\* What stage does, for an activator or for the controller.
LEMMA StageStepsKeep ==
    ASSUME IInv, NEW a \in Actors, StageSteps(a)
    PROVE  IInv'
<1>1. CASE EnterRefused(a)
    BY <1>1, EnterRefusedStep
<1>2. CASE EnterStage(a)
    BY <1>2, EnterStageStep
<1>3. CASE StageDone(a)
    BY <1>3, StageDoneStep
<1>4. ASSUME NEW ok \in BOOLEAN, StageFails(a, ok)
      PROVE  IInv'
    <2>1. /\ act[a].pc = "staging" /\ gen' = CleanAborted(act[a].gen, ok) /\ act' = StageError(a)
          /\ UNCHANGED <<host, lease>> /\ Signal /\ token' = None
        BY <1>4 DEF StageFails
    <2>2. token' = IF act[a].pc = "staging" THEN None ELSE token
        BY <2>1
    <2> QED
        BY <2>1, <2>2, AbortedStep
<1>5. ASSUME NEW ok \in BOOLEAN, Discard(a, ok)
      PROVE  IInv'
    <2>1. /\ act[a].pc = "discard" /\ gen' = CleanAborted(act[a].gen, ok) /\ act' = StageError(a)
          /\ UNCHANGED <<host, lease>> /\ (Signal \/ UNCHANGED closer) /\ token' = token
        BY <1>5 DEF Discard
    <2>2. token' = IF act[a].pc = "staging" THEN None ELSE token
        BY <2>1
    <2> QED
        BY <2>1, <2>2, AbortedStep
<1> QED
    BY <1>1, <1>2, <1>3, <1>4, <1>5 DEF StageSteps

\* Every step keeps the invariant.
LEMMA Steps ==
    ASSUME IInv, [Next]_vars
    PROVE  IInv'
<1>1. ASSUME NEW a \in Activators, BeginExplicit(a) \/ Activation(a)
      PROVE  IInv'
    <2>1. a \in Actors
        BY DEF Actors
    <2>2. CASE PublishRefused(a)
        BY <2>1, <2>2, RefusedStep DEF PublishRefused
    <2> QED
        BY <1>1, <2>1, <2>2, BeginExplicitStep, StageStepsKeep, PublishExplicitStep, FinishExplicitStep DEF Activation
<1>2. ASSUME NEW a \in Actors, CancelContext(a)
      PROVE  IInv'
    BY <1>2, CancelContextStep
<1>3. CASE Controller
    <2>1. Ctl \in Actors
        BY DEF Actors
    <2>2. CASE CtlRefused
        BY <2>1, <2>2, RefusedStep DEF CtlRefused
    <2> QED
        BY <1>3, <2>1, <2>2, StageStepsKeep, CtlWakeStep, CtlPlainStep, CtlBeginsStep, CtlInterruptedStep,
           CtlPublishesStep, CtlFailedStep DEF Controller
<1>4. ASSUME NEW l \in Holders, Holding(l) \/ \E g \in Gens : LeaseTaken(l, g) \/ LeaseRefused(l, g)
      PROVE  IInv'
    BY <1>4, LeaseConfirmedStep, ReleaseStep, LeaseTakenStep, LeaseRefusedStep DEF Holding
<1>5. ASSUME NEW g \in Gens, Generation(g) \/ CandidateStops(g)
      PROVE  IInv'
    BY <1>5, ObserveStep, CleanupStep, CandidateStopsStep DEF Generation
<1>6. CASE CloseBegins \/ Closing \/ CloseTimesOut
    BY <1>6, CloseBeginsStep, CloseWaitsStep, CloseReturnsStep, CloseTimesOutStep DEF Closing
<1>7. CASE UNCHANGED vars
    BY <1>7 DEF vars, IInv, Typed
<1> QED
    BY <1>1, <1>2, <1>3, <1>4, <1>5, <1>6, <1>7 DEF Next

\* The invariant holds throughout.
LEMMA Invariance == Spec => []IInv
<1>1. Init => IInv
    BY Initially
<1>2. IInv /\ [Next]_vars => IInv'
    BY Steps
<1> QED
    BY <1>1, <1>2, PTL DEF Spec

\* Its parts say what a reader of the host relies on.
LEMMA InvariantSays ==
    ASSUME IInv
    PROVE  GenerationsAreOwned
<1>1. TypeOK
    <2>1. host \in HostType
        BY DEF IInv, Typed
    <2>2. host.current \in Gens /\ host.available \subseteq Gens
        BY <2>1 DEF HostType
    <2> QED
        BY <2>2 DEF IInv, Typed, TypeOK, GenType, ActorType, LeaseType
<1>2. LeasedIsAlive
    BY DEF IInv, Leased, Users, LeasedIsAlive
<1>3. CurrentRunsDesired
    BY DEF IInv, Current, CurrentRunsDesired
<1>4. EpisodeIsServed
    BY DEF IInv, Episode, Matches, EpisodeIsServed
<1>5. StoppedLeavesNothing
    BY ExplicitIs DEF IInv, Stopped, StoppedLeavesNothing
<1> QED
    BY <1>1, <1>2, <1>3, <1>4, <1>5 DEF GenerationsAreOwned

\* However many activations, crashes, recoveries, leases and calls of Close there are, and in
\* whatever order their critical sections run: a leased generation keeps its processes, the
\* current one runs the last successful set, an episode is about it and served, and a host that
\* reported a successful Close has nothing left.
THEOREM GenerationsStayOwned == Spec => []GenerationsAreOwned
<1>1. IInv => GenerationsAreOwned
    BY InvariantSays
<1> QED
    BY <1>1, Invariance, PTL

-----------------------------------------------------------------------------
(* What a step does.                                                       *)

\* A publication brings a staged generation that runs the same set or a later one.
LEMMA PublicationSteps ==
    ASSUME IInv, IInv', [Next]_vars
    PROVE  PublicationStep
<1> SUFFICES ASSUME host'.current # host.current
             PROVE  /\ gen[host'.current].state = "staged"
                    /\ gen'[host'.current].rev >= gen[host.current].rev
                    /\ host'.current \in host'.available
    BY DEF PublicationStep
<1>1. host \in HostType /\ act \in [Actors -> ActorType]
    BY DEF IInv, Typed
<1>2. PICK a \in Actors : /\ act[a].pc = "publish" /\ ~host.closing /\ host'.current = act[a].gen
                          /\ ~host'.closing /\ host.desired <= host'.desired
    <2>1. CASE CtlPublishes
        <3>1. Ctl \in Actors /\ act[Ctl].pc = "publish" /\ ~host.closing
            BY <2>1, CtlPublishesStep DEF Actors, CtlPublishes
        <3>2. host'.current = act[Ctl].gen /\ host'.closing = host.closing /\ host'.desired = host.desired
            BY <1>1, <2>1 DEF CtlPublishes, Publish, HostType
        <3>3. host.desired <= host.desired
            BY <1>1, HostAssumption DEF HostType
        <3> QED
            BY <3>1, <3>2, <3>3
    <2>2. ASSUME NEW a \in Activators, PublishExplicit(a)
          PROVE  \E b \in Actors : /\ act[b].pc = "publish" /\ ~host.closing /\ host'.current = act[b].gen
                                   /\ ~host'.closing /\ host.desired <= host'.desired
        <3>1. a \in Actors /\ act[a].pc = "publish" /\ ~host.closing /\ host.revision = act[a].rev
            BY <2>2 DEF Actors, PublishExplicit, MayPublish
        <3>2. host'.current = act[a].gen /\ host'.closing = host.closing /\ host'.desired = act[a].rev
            BY <1>1, <2>2 DEF PublishExplicit, Publish, HostType
        <3>3. host.desired <= host.revision
            BY DEF IInv, Current
        <3> QED
            BY <3>1, <3>2, <3>3
    <2> QED
        BY <2>1, <2>2, OnlyPublished
<1>3. gen[act[a].gen].state = "staged"
    BY <1>2 DEF IInv, Staged, Stages
<1>4. gen[host.current].rev = host.desired
    BY <1>2 DEF IInv, Current
<1>5. gen'[host'.current].rev = host'.desired /\ host'.current \in host'.available
    BY <1>2 DEF IInv, Current
<1>6. gen'[host'.current].rev >= gen[host.current].rev
    <2> DEFINE d == host.desired
               e == host'.desired
    <2>1. d \in Nat /\ e \in Nat /\ d <= e
        <3>1. host \in HostType /\ host' \in HostType
            BY Zenon DEF IInv, Typed
        <3> QED
            BY Zenon, <1>2, <3>1, Revisions
    <2> HIDE DEF d, e
    <2>2. e >= d
        BY <2>1
    <2> QED
        BY <1>4, <1>5, <2>2 DEF d, e
<1> QED
    BY <1>2, <1>3, <1>5, <1>6

\* Publications never go back to an older set or a retired generation, and a failed replacement
\* falls back on the recovery of the current one, for any number of activators and attempts.
THEOREM PublicationsStayCurrent == Spec => PublicationsAreCurrent
<1>1. IInv /\ IInv' /\ [Next]_vars => [PublicationStep /\ RearmStep]_vars
    BY PublicationSteps, RearmSteps
<1> QED
    BY <1>1, Invariance, PTL DEF Spec, PublicationsAreCurrent
=============================================================================
