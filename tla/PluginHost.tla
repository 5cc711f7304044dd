----------------------------- MODULE PluginHost -----------------------------
(***************************************************************************)
(* The runtime-plugin host (plugin/host/host.go, recovery.go): immutable   *)
(* tool generations that are staged, published, leased, retired and        *)
(* cleaned up, explicit activations that race each other, an automatic     *)
(* recovery controller, and Close.                                         *)
(*                                                                         *)
(* Each critical section of host.mu is one action.  A generation stands    *)
(* for its whole candidate set: "dead" says that the done channel of a     *)
(* candidate is closed.  The Set of an explicit activation is named by the *)
(* activation's revision.                                                  *)
(***************************************************************************)
EXTENDS Integers, FiniteSets

CONSTANTS
    Activators,     \* goroutines inside Activate
    Ctl,            \* the recovery controller's goroutine
    Holders,        \* goroutines that lease a generation
    None,
    MaxAttempts,    \* restart.maximumAttempts; 0 disables recovery
    MaxRetained,    \* maximumRetainedGenerations
    MaxSequence,    \* bound on the generations staged
    MaxRevision,    \* bound on the explicit activations
    MaxTry          \* bound on the calls of Close

VARIABLES
    gen,        \* the generations, by sequence number; 0 is the compiled one
    host,       \* the fields of Host that its methods change under host.mu
    token,      \* who took the activation token
    act,        \* the activators and the controller
    lease,      \* the lease holders
    closer      \* the goroutine inside Close

vars == <<gen, host, token, act, lease, closer>>

Gens == 0 .. MaxSequence
Actors == Activators \cup {Ctl}

\* A recoveryEpisode.
Episodes == [gen : Gens, rev : 0 .. MaxRevision, revision : 0 .. MaxRevision, attempts : 0 .. MaxAttempts,
             exhausted : BOOLEAN]

\* The host and its controller exist once, and the bounds are numbers.
ASSUME HostAssumption ==
    /\ IsFiniteSet(Activators) /\ IsFiniteSet(Holders)
    /\ Ctl \notin Activators /\ None \notin Actors \cup Episodes
    /\ MaxAttempts \in Nat /\ MaxRetained \in Nat /\ MaxSequence \in Nat /\ MaxRevision \in Nat /\ MaxTry \in Nat

NoGen == [state |-> "none", rev |-> 0, refs |-> 0, unhealthy |-> FALSE, dead |-> FALSE,
          watched |-> FALSE, cleaning |-> FALSE, failed |-> FALSE, try |-> 0]

IdleActor == [pc |-> "idle", gen |-> 0, rev |-> 0, ctxDone |-> FALSE, attempt |-> 0, ok |-> FALSE]

-----------------------------------------------------------------------------
(* Helpers that run under host.mu.                                         *)

\* generation.current: the pointer's target until beginClose clears the flag.
IsCurrent(g) == host.current = g /\ ~host.closing

Owned(gens) == {g \in Gens : gens[g].state = "owned"}

\* host.explicitActivations.
Explicit == Cardinality({a \in Activators : act[a].pc # "idle"})

\* recoveryMatchesLocked, with n explicit activations.
Matches(h, e, n) ==
    /\ ~h.closing /\ n = 0
    /\ h.current = e.gen /\ h.desired = e.rev /\ h.revision = e.revision

\* scheduleRecoveryLocked(g) for an unhealthy g.
Schedule(h, g, n) ==
    IF \/ h.closing \/ n # 0 \/ MaxAttempts = 0 \/ h.desired = 0 \/ h.current # g
       \/ h.recovery # None /\ Matches(h, h.recovery, n)
    THEN h
    ELSE [h EXCEPT !.recovery = [gen |-> g, rev |-> h.desired, revision |-> h.revision,
                                 attempts |-> 0, exhausted |-> FALSE],
                   !.wake = TRUE, !.mine = FALSE]

\* cancelRecoveryLocked: the episode goes; an attempt in progress on it is cancelled.
Cancelled(h) == [h EXCEPT !.recovery = None, !.mine = FALSE]

CancelAttempt == [act EXCEPT ![Ctl].ctxDone = @ \/ host.mine]

\* Mutant of CanClean: a leased generation is cleaned up.
CanCleanLeased(gens, g) == gens[g].state = "owned" /\ ~gens[g].cleaning

\* queueCleanupLocked starts the cleanup goroutine.
CanClean(gens, g) == gens[g].state = "owned" /\ ~gens[g].cleaning /\ gens[g].refs = 0

\* Mutant of QueueCleanup: the attempt is not recorded.
QueueCleanupForgets(gens, g, try) ==
    IF CanClean(gens, g) THEN [gens EXCEPT ![g].cleaning = TRUE, ![g].failed = FALSE] ELSE gens

QueueCleanup(gens, g, try) ==
    IF CanClean(gens, g) THEN [gens EXCEPT ![g].cleaning = TRUE, ![g].try = try, ![g].failed = FALSE]
    ELSE gens

Available(h, gens, g) == IF CanClean(gens, g) THEN h.available \ {g} ELSE h.available

\* signalLocked: Close looks again.
Signal == closer' = [closer EXCEPT !.pc = IF @ = "asleep" THEN "run" ELSE @]

\* generationHealthLocked fails.
Sick(g) == gen[g].unhealthy \/ gen[g].dead

\* generationHealthLocked marks a generation it finds stopped and schedules its recovery; one
\* already marked is only reported.
MarkSick(g) ==
    /\ gen' = [gen EXCEPT ![g].unhealthy = TRUE]
    /\ host' = IF gen[g].unhealthy THEN host ELSE Schedule(host, g, Explicit)

-----------------------------------------------------------------------------
(* stage: the candidates of a set are started under the activation token.  *)

\* stage returns an error.
StageError(a) == [act EXCEPT ![a].pc = IF a = Ctl THEN "failed" ELSE "finish", ![a].gen = 0, ![a].ok = FALSE]

\* beginActivation: the context or the host ended.
EnterRefused(a) ==
    /\ act[a].pc = "enter"
    /\ \/ act[a].ctxDone \/ host.closing
       \/ token = None /\ Cardinality(Owned(gen)) >= MaxRetained
    /\ act' = StageError(a)
    /\ UNCHANGED <<gen, host, token, lease, closer>>

\* beginActivation: the select may take the token although the context has ended.
EnterStage(a) ==
    LET g == host.sequence + 1
    IN  /\ act[a].pc = "enter"
        /\ token = None /\ ~host.closing
        /\ Cardinality(Owned(gen)) < MaxRetained
        /\ host.sequence < MaxSequence
        /\ token' = a
        /\ host' = [host EXCEPT !.sequence = g]
        /\ gen' = [gen EXCEPT ![g].state = "staged", ![g].rev = act[a].rev]
        /\ act' = [act EXCEPT ![a].pc = "staging", ![a].gen = g]
        /\ Signal
        /\ UNCHANGED lease

\* Every candidate started, the dispatcher composed; finish returns the token.
StageDone(a) ==
    /\ act[a].pc = "staging"
    /\ ~act[a].ctxDone /\ ~gen[act[a].gen].dead
    /\ token' = None
    /\ act' = [act EXCEPT ![a].pc = "publish"]
    /\ Signal
    /\ UNCHANGED <<gen, host, lease>>

\* cleanAborted: what could not be closed stays owned until Close retries it.
CleanAborted(g, ok) ==
    [gen EXCEPT ![g] = IF ok THEN [@ EXCEPT !.state = "gone", !.dead = TRUE]
                       ELSE [@ EXCEPT !.state = "owned", !.failed = TRUE]]

\* A candidate fails, a name collides, the context ends: the candidates are closed.
StageFails(a, ok) ==
    /\ act[a].pc = "staging"
    /\ gen' = CleanAborted(act[a].gen, ok)
    /\ token' = None
    /\ act' = StageError(a)
    /\ Signal
    /\ UNCHANGED <<host, lease>>

\* Publication was refused: the staged candidates are closed.
Discard(a, ok) ==
    /\ act[a].pc = "discard"
    /\ gen' = CleanAborted(act[a].gen, ok)
    /\ act' = StageError(a)
    /\ IF ok THEN UNCHANGED closer ELSE Signal
    /\ UNCHANGED <<host, token, lease>>

\* The publication point of both publishers: g becomes current, the previous generation is
\* retired and, if nobody leases it, cleaned up.
Publish(g, h) ==
    LET p == host.current
        gens == [gen EXCEPT ![g].state = "owned", ![g].watched = TRUE]
    IN  /\ gen' = QueueCleanup(gens, p, 0)
        /\ host' = [h EXCEPT !.current = g, !.recovery = None, !.mine = FALSE,
                             !.available = Available(h, gens, p) \cup {g}]
        /\ Signal

-----------------------------------------------------------------------------
(* Activate.                                                               *)

\* beginExplicitActivation.
BeginExplicit(a) ==
    /\ act[a].pc = "idle"
    /\ ~host.closing
    /\ host.revision < MaxRevision
    /\ host' = Cancelled([host EXCEPT !.revision = @ + 1])
    /\ act' = [CancelAttempt EXCEPT ![a] = [IdleActor EXCEPT !.pc = "enter", !.rev = host.revision + 1]]
    /\ Signal
    /\ UNCHANGED <<gen, token, lease>>

\* The caller's context ends; for the controller, the attempt's deadline.
CancelContext(a) ==
    /\ act[a].pc \in {"enter", "staging", "publish"}
    /\ ~act[a].ctxDone
    /\ act' = [act EXCEPT ![a].ctxDone = TRUE]
    /\ UNCHANGED <<gen, host, token, lease, closer>>

\* publishExplicit's conditions.
MayPublish(a) ==
    ~host.closing /\ ~act[a].ctxDone /\ host.revision = act[a].rev /\ ~gen[act[a].gen].dead

PublishExplicit(a) ==
    /\ act[a].pc = "publish"
    /\ MayPublish(a)
    /\ Publish(act[a].gen, [host EXCEPT !.desired = act[a].rev])
    /\ act' = [act EXCEPT ![a].pc = "finish", ![a].ok = TRUE]
    /\ UNCHANGED <<token, lease>>

PublishRefused(a) ==
    /\ act[a].pc = "publish"
    /\ ~MayPublish(a)
    /\ act' = [act EXCEPT ![a].pc = "discard"]
    /\ UNCHANGED <<gen, host, token, lease, closer>>

\* Mutant of FinishExplicit: the recovery is scheduled before the activation is uncounted.
FinishExplicitStillCounted(a) ==
    LET c == host.current
    IN  /\ act[a].pc = "finish"
        /\ act' = [act EXCEPT ![a] = IdleActor]
        /\ IF ~act[a].ok /\ Sick(c)
           THEN /\ gen' = [gen EXCEPT ![c].unhealthy = TRUE]
                /\ host' = Schedule(host, c, Explicit)
           ELSE UNCHANGED <<gen, host>>
        /\ Signal
        /\ UNCHANGED <<token, lease>>

\* The deferred finishExplicitActivation: only a failed activation looks at the current
\* generation and schedules its recovery.
FinishExplicit(a) ==
    LET c == host.current
    IN  /\ act[a].pc = "finish"
        /\ act' = [act EXCEPT ![a] = IdleActor]
        /\ IF ~act[a].ok /\ Sick(c)
           THEN /\ gen' = [gen EXCEPT ![c].unhealthy = TRUE]
                /\ host' = Schedule(host, c, Explicit - 1)
           ELSE UNCHANGED <<gen, host>>
        /\ Signal
        /\ UNCHANGED <<token, lease>>

-----------------------------------------------------------------------------
(* recoveryController.                                                     *)

CtlWake ==
    /\ act[Ctl].pc = "select" /\ host.wake
    /\ host' = [host EXCEPT !.wake = FALSE]
    /\ act' = [act EXCEPT ![Ctl].pc = "loop"]
    /\ UNCHANGED <<gen, token, lease, closer>>

\* rootDone: the controller closes recoveryDone, which Close selects on.
CtlExit ==
    /\ act[Ctl].pc = "select" /\ host.closing
    /\ act' = [act EXCEPT ![Ctl].pc = "done"]
    /\ Signal
    /\ UNCHANGED <<gen, host, token, lease>>

HasWork == host.recovery # None /\ ~host.closing /\ ~host.recovery.exhausted

\* recoverOnce: nothing to do ...
CtlIdles ==
    /\ act[Ctl].pc = "loop"
    /\ ~HasWork
    /\ act' = [act EXCEPT ![Ctl].pc = "select"]
    /\ UNCHANGED <<gen, host, token, lease, closer>>

\* ... or an attempt begins on the host's episode.
CtlBegins ==
    /\ act[Ctl].pc = "loop"
    /\ HasWork
    /\ act' = [act EXCEPT ![Ctl] = [IdleActor EXCEPT !.pc = "backoff", !.rev = host.recovery.rev,
                                                     !.attempt = host.recovery.attempts + 1]]
    /\ host' = [host EXCEPT !.mine = TRUE]
    /\ Signal
    /\ UNCHANGED <<gen, token, lease>>

\* The backoff, none before the first attempt, has passed.
CtlStages ==
    /\ act[Ctl].pc = "backoff"
    /\ act' = [act EXCEPT ![Ctl].pc = "enter"]
    /\ UNCHANGED <<gen, host, token, lease, closer>>

\* recoverOnce returns: the deferred function lets go of the episode.
CtlReturns(h, pc) ==
    /\ host' = [h EXCEPT !.mine = FALSE]
    /\ act' = [act EXCEPT ![Ctl] = [IdleActor EXCEPT !.pc = pc]]

\* The backoff was cancelled.
CtlInterrupted ==
    /\ act[Ctl].pc = "backoff" /\ act[Ctl].attempt > 1
    /\ act[Ctl].ctxDone \/ host.closing
    /\ CtlReturns(host, "select")
    /\ Signal
    /\ UNCHANGED <<gen, token, lease>>

\* The controller's episode is still the host's, and still matches.
EpisodeStands == host.mine /\ Matches(host, host.recovery, Explicit)

CtlPublishes ==
    /\ act[Ctl].pc = "publish"
    /\ ~act[Ctl].ctxDone /\ EpisodeStands /\ ~gen[act[Ctl].gen].dead
    /\ Publish(act[Ctl].gen, host)
    /\ act' = [act EXCEPT ![Ctl] = [IdleActor EXCEPT !.pc = "select"]]
    /\ UNCHANGED <<token, lease>>

CtlRefused ==
    /\ act[Ctl].pc = "publish"
    /\ act[Ctl].ctxDone \/ ~EpisodeStands \/ gen[act[Ctl].gen].dead
    /\ act' = [act EXCEPT ![Ctl].pc = "discard"]
    /\ UNCHANGED <<gen, host, token, lease, closer>>

\* finishRecoveryFailure: one more attempt counts, if the episode still stands.
CtlFailed ==
    LET n == host.recovery.attempts + 1
    IN  /\ act[Ctl].pc = "failed"
        /\ IF EpisodeStands
           THEN CtlReturns([host EXCEPT !.recovery.attempts = n, !.recovery.exhausted = n >= MaxAttempts],
                           IF n >= MaxAttempts THEN "select" ELSE "loop")
           ELSE CtlReturns(host, "select")
        /\ Signal
        /\ UNCHANGED <<gen, token, lease>>

-----------------------------------------------------------------------------
(* Leases, candidates that stop, and cleanup.                              *)

\* lease: the first critical section.
Leasable(g) ==
    /\ ~host.closing
    /\ g \in host.available \cup {host.current}
    /\ gen[g].state = "owned" /\ ~gen[g].cleaning
    /\ IsCurrent(g) \/ gen[g].refs # 0

LeaseTaken(l, g) ==
    /\ lease[l].pc = "idle"
    /\ Leasable(g) /\ ~Sick(g)
    /\ gen' = [gen EXCEPT ![g].refs = @ + 1]
    /\ lease' = [lease EXCEPT ![l] = [pc |-> "confirm", gen |-> g]]
    /\ Signal
    /\ UNCHANGED <<host, token, act>>

\* A generation found stopped: the lease is refused, the recovery scheduled.
LeaseRefused(l, g) ==
    /\ lease[l].pc = "idle"
    /\ Leasable(g) /\ Sick(g)
    /\ MarkSick(g)
    /\ UNCHANGED <<token, act, lease, closer>>

\* The second critical section: a lease whose generation stopped, or whose context ended, is
\* released again.
LeaseConfirmed(l) ==
    LET g == lease[l].gen
    IN  /\ lease[l].pc = "confirm"
        /\ IF Sick(g)
           THEN MarkSick(g) /\ lease' = [lease EXCEPT ![l].pc = "denied"]
           ELSE /\ UNCHANGED <<gen, host>>
                /\ \E pc \in {"held", "denied"} : lease' = [lease EXCEPT ![l].pc = pc]
        /\ UNCHANGED <<token, act, closer>>

\* release: the last lease of a retired generation starts its cleanup.
Release(l) ==
    LET g == lease[l].gen
        gens == [gen EXCEPT ![g].refs = @ - 1]
    IN  /\ lease[l].pc \in {"held", "denied"}
        /\ IF IsCurrent(g) THEN gen' = gens /\ UNCHANGED host
           ELSE /\ gen' = QueueCleanup(gens, g, 0)
                /\ host' = [host EXCEPT !.available = Available(host, gens, g)]
        /\ lease' = [lease EXCEPT ![l] = [pc |-> "idle", gen |-> 0]]
        /\ Signal
        /\ UNCHANGED <<token, act>>

\* A candidate process stops.
CandidateStops(g) ==
    /\ gen[g].state \in {"staged", "owned"} /\ g # 0 /\ ~gen[g].dead
    /\ gen' = [gen EXCEPT ![g].dead = TRUE]
    /\ UNCHANGED <<host, token, act, lease, closer>>

\* observe, or its end with the host's root.
Observe(g) ==
    /\ gen[g].watched /\ gen[g].dead
    /\ IF gen[g].state = "owned"
       THEN /\ gen' = [gen EXCEPT ![g].watched = FALSE, ![g].unhealthy = TRUE]
            /\ host' = Schedule(host, g, Explicit)
            /\ Signal
       ELSE gen' = [gen EXCEPT ![g].watched = FALSE] /\ UNCHANGED <<host, closer>>
    /\ UNCHANGED <<token, act, lease>>

ObserveEnds(g) ==
    /\ gen[g].watched /\ host.closing
    /\ gen' = [gen EXCEPT ![g].watched = FALSE]
    /\ UNCHANGED <<host, token, act, lease, closer>>

\* cleanup: the candidates closed, or some could not be.
Cleanup(g, ok) ==
    /\ gen[g].cleaning
    /\ gen' = [gen EXCEPT ![g] = IF ok THEN [@ EXCEPT !.cleaning = FALSE, !.state = "gone", !.dead = TRUE]
                                 ELSE [@ EXCEPT !.cleaning = FALSE, !.failed = TRUE]]
    /\ Signal
    /\ UNCHANGED <<host, token, act, lease>>

-----------------------------------------------------------------------------
(* Close.                                                                  *)

\* beginClose; the root context, which the controller's attempt descends from, ends.
CloseBegins ==
    /\ closer.pc = "idle"
    /\ closer.try < MaxTry
    /\ closer' = [pc |-> "run", try |-> closer.try + 1]
    /\ IF host.closing THEN UNCHANGED <<host, act>>
       ELSE host' = Cancelled([host EXCEPT !.closing = TRUE]) /\ act' = [act EXCEPT ![Ctl].ctxDone = TRUE]
    /\ UNCHANGED <<gen, token, lease>>

\* Nothing stages, activates or recovers any more.
Joined == token = None /\ Explicit = 0 /\ act[Ctl].pc = "done"

\* What closeProgress has queued for cleanup in this attempt.
ToClean == {g \in Gens : Joined /\ CanClean(gen, g) /\ gen[g].try < closer.try}

\* closeProgress finds nothing left to wait for.
CloseSettled ==
    /\ Joined /\ ToClean = {}
    /\ \A g \in Owned(gen) : gen[g].refs = 0 /\ ~gen[g].cleaning
    /\ Owned(gen) = {} \/ \E g \in Owned(gen) : gen[g].try = closer.try /\ gen[g].failed

\* closeProgress, and the wait for the next change.
CloseWaits ==
    /\ closer.pc = "run"
    /\ ~CloseSettled
    /\ gen' = [g \in Gens |-> IF g \in ToClean THEN QueueCleanup(gen, g, closer.try)[g] ELSE gen[g]]
    /\ host' = [host EXCEPT !.available = @ \ ToClean]
    /\ closer' = [closer EXCEPT !.pc = "asleep"]
    /\ UNCHANGED <<token, act, lease>>

\* closeProgress: everything is cleaned up, or this attempt's cleanup failed.
CloseReturns ==
    /\ closer.pc = "run"
    /\ CloseSettled
    /\ host' = IF Owned(gen) = {} THEN [host EXCEPT !.desired = 0, !.stopped = TRUE] ELSE host
    /\ closer' = [closer EXCEPT !.pc = "idle"]
    /\ UNCHANGED <<gen, token, act, lease>>

\* The context of Close ends; a later call resumes.
CloseTimesOut ==
    /\ closer.pc = "asleep"
    /\ closer' = [closer EXCEPT !.pc = "idle"]
    /\ UNCHANGED <<gen, host, token, act, lease>>

-----------------------------------------------------------------------------

Init ==
    /\ gen = [g \in Gens |-> IF g = 0 THEN [NoGen EXCEPT !.state = "owned"] ELSE NoGen]
    /\ host = [current |-> 0, available |-> {0}, desired |-> 0, revision |-> 0, sequence |-> 0,
               recovery |-> None, wake |-> FALSE, mine |-> FALSE, closing |-> FALSE, stopped |-> FALSE]
    /\ token = None
    /\ act = [a \in Actors |-> IF a # Ctl THEN IdleActor
                               ELSE [IdleActor EXCEPT !.pc = IF MaxAttempts = 0 THEN "done" ELSE "select"]]
    /\ lease = [l \in Holders |-> [pc |-> "idle", gen |-> 0]]
    /\ closer = [pc |-> "idle", try |-> 0]

\* What the goroutine inside stage does.
StageSteps(a) ==
    EnterRefused(a) \/ EnterStage(a) \/ StageDone(a) \/ \E ok \in BOOLEAN : StageFails(a, ok) \/ Discard(a, ok)

Activation(a) ==
    StageSteps(a) \/ PublishExplicit(a) \/ PublishRefused(a) \/ FinishExplicit(a)

Controller ==
    \/ StageSteps(Ctl) \/ CtlWake \/ CtlExit \/ CtlIdles \/ CtlBegins \/ CtlStages
    \/ CtlInterrupted \/ CtlPublishes \/ CtlRefused \/ CtlFailed

Holding(l) == LeaseConfirmed(l) \/ Release(l)

Generation(g) == Observe(g) \/ ObserveEnds(g) \/ \E ok \in BOOLEAN : Cleanup(g, ok)

Closing == CloseWaits \/ CloseReturns

Next ==
    \/ \E a \in Activators : BeginExplicit(a) \/ Activation(a)
    \/ \E a \in Actors : CancelContext(a)
    \/ Controller
    \/ \E l \in Holders : Holding(l) \/ \E g \in Gens : LeaseTaken(l, g) \/ LeaseRefused(l, g)
    \/ \E g \in Gens : Generation(g) \/ CandidateStops(g)
    \/ CloseBegins \/ Closing \/ CloseTimesOut

Spec == Init /\ [][Next]_vars

\* Goroutines run, staging and cleanup have deadlines, and leases are released.
Fairness ==
    /\ \A a \in Activators : WF_vars(Activation(a))
    /\ WF_vars(Controller)
    /\ \A l \in Holders : WF_vars(Holding(l))
    /\ \A g \in Gens : WF_vars(Generation(g))
    /\ WF_vars(Closing)

FairSpec == Spec /\ Fairness

-----------------------------------------------------------------------------
(* Properties.                                                             *)

\* Types; lease counts stay within the holders and attempts within their bound.
TypeOK ==
    /\ gen \in [Gens -> [state : {"none", "staged", "owned", "gone"}, rev : 0 .. MaxRevision,
                         refs : 0 .. Cardinality(Holders), unhealthy : BOOLEAN, dead : BOOLEAN,
                         watched : BOOLEAN, cleaning : BOOLEAN, failed : BOOLEAN, try : 0 .. MaxTry]]
    /\ act \in [Actors -> [pc : {"idle", "enter", "staging", "publish", "discard", "finish", "failed",
                                 "select", "loop", "backoff", "done"},
                           gen : Gens, rev : 0 .. MaxRevision, ctxDone : BOOLEAN,
                           attempt : 0 .. MaxAttempts, ok : BOOLEAN]]
    /\ lease \in [Holders -> [pc : {"idle", "confirm", "held", "denied"}, gen : Gens]]
    /\ token \in Actors \cup {None}
    /\ host.current \in Gens /\ host.available \subseteq Gens

\* A leased generation keeps its processes: it is owned, not being cleaned up, and counted as
\* often as it is leased, across publications, crashes and Close.
LeasedIsAlive ==
    \A g \in Gens :
        LET users == {l \in Holders : lease[l].pc # "idle" /\ lease[l].gen = g}
        IN  gen[g].refs = Cardinality(users) /\ (users # {} => gen[g].state = "owned" /\ ~gen[g].cleaning)

\* Until Close, there is a current generation that can be leased while it is healthy, and it
\* runs the set of the last successful Activate, recovered or not.
CurrentRunsDesired ==
    ~host.closing =>
        LET c == host.current
        IN  gen[c].state = "owned" /\ ~gen[c].cleaning /\ c \in host.available /\ gen[c].rev = host.desired

\* An episode of recovery is about the current generation, and the controller has it or has
\* been woken for it.
EpisodeIsServed ==
    host.recovery # None =>
        /\ host.recovery.gen = host.current /\ gen[host.current].unhealthy /\ ~host.closing
        /\ host.recovery.exhausted \/ host.wake \/ host.mine \/ act[Ctl].pc = "loop"

\* Nothing is left behind by a Close that reported success: no generation, staged, retired or
\* left over by a failed staging, no lease, no activation.
StoppedLeavesNothing ==
    host.stopped => /\ \A g \in Gens : gen[g].state \in {"none", "gone"}
                    /\ \A l \in Holders : lease[l].pc = "idle"
                    /\ Joined

\* The host's generations are accounted for: types and bounds, leased ones live, the current
\* one is the desired one, recovery is about it, and a stopped host has none.
GenerationsAreOwned ==
    TypeOK /\ LeasedIsAlive /\ CurrentRunsDesired /\ EpisodeIsServed /\ StoppedLeavesNothing

\* A superseded or older activation never replaces a newer one, and only a staged generation
\* becomes current: a retired one is never brought back.
PublicationStep ==
    host'.current # host.current =>
        /\ gen[host'.current].state = "staged"
        /\ gen'[host'.current].rev >= gen[host.current].rev
        /\ host'.current \in host'.available

\* "A failed explicit replacement re-arms the last successful desired set": the last explicit
\* activation to fail leaves an unhealthy current generation with an episode.
RearmStep ==
    (\E a \in Activators : act[a].pc = "finish" /\ ~act[a].ok /\ act'[a].pc = "idle")
       /\ Explicit' = 0 /\ Sick(host.current) /\ ~host.closing /\ host.desired # 0 /\ MaxAttempts # 0
       => host'.recovery # None

\* Publications never go back, and a failed replacement falls back on recovery.
PublicationsAreCurrent == [][PublicationStep /\ RearmStep]_vars

\* "Successful recovery and each later crash reset the bounded episode counter": when recovery
\* is enabled and no explicit activation is under way, an unhealthy current generation has an
\* episode.
RecoveryArmed ==
    (/\ MaxAttempts # 0 /\ host.desired # 0 /\ ~host.closing /\ Explicit = 0
     /\ gen[host.current].unhealthy) => host.recovery # None

\* Every call of Close returns once leases are released, however staging, recovery and cleanup
\* end.
CloseCompletes == []<>(closer.pc = "idle")

\* A recovery episode ends: the set is replaced, superseded, or the attempts are exhausted.
RecoveryDecides ==
    []<>(host.recovery # None => host.recovery.exhausted \/ host.sequence = MaxSequence)
=============================================================================
