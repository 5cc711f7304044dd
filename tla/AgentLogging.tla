---------------------------- MODULE AgentLogging ----------------------------
(***************************************************************************)
(* Best-effort logging of run events (event.BestEffortObserver, package    *)
(* logging).  Runs offer events to a bounded mailbox that never blocks     *)
(* them, one consumer writes them to the logger and tells how many were    *)
(* dropped, closes wait until everything accepted is written, and a        *)
(* snapshot of the accounts may be taken at any time.                      *)
(*                                                                         *)
(* An event is its kind: a model delta, a tool's progress, "bad" for a     *)
(* tool event whose payload cannot be decoded, or any other.  The text     *)
(* of the records, their levels and the correlation digests are left out;  *)
(* the logger may fail on any record.                                      *)
(***************************************************************************)
EXTENDS Integers, Sequences

CONSTANTS
    Capacity,      \* MailboxCapacity
    MaxOffered,    \* events offered, a bound of the model
    Closers,       \* callers of Close
    Watchers,      \* callers of Snapshot, by HealthContribution
    MaxSnapshots,  \* snapshots taken, a bound of the model
    None

VARIABLES
    box,      \* BestEffortObserver: [queue, dropped, filtered, closed, excluded]
    stats,    \* processorStats
    cons,     \* the consumer: [at, event, last]
    closing,  \* closeOnce and finish: "open", "closed" (mailbox), "done" (closeDone)
    closer,   \* the calls of Close
    watch,    \* the calls of Snapshot
    lock,     \* the holder of Processor.mu across two reads of the mailbox, or None
    seen      \* history: [offered, refused, reports, told, snapshots]

vars == <<box, stats, cons, closing, closer, watch, lock, seen>>

Kinds == {"delta", "progress", "bad", "plain"}

ValidCapacity == Capacity \in 1..65536

\* NewMailbox: model deltas are always filtered, progress unless configured.
Mailbox(progress) ==
    [queue |-> <<>>, dropped |-> 0, filtered |-> 0, closed |-> FALSE,
     excluded |-> IF progress THEN {"delta"} ELSE {"delta", "progress"}]

\* The mailbox and the processor are built from configurations of their own.
Init ==
    /\ ValidCapacity
    /\ \E progress \in BOOLEAN : box = Mailbox(progress)
    /\ \E progress \in BOOLEAN :
          stats = [processed |-> 0, handled |-> 0, logFailures |-> 0, decodeFailures |-> 0, suppressed |-> 0,
                   closed |-> FALSE, progress |-> progress]
    /\ cons = [at |-> "receive", event |-> None, last |-> 0]
    /\ closing = "open"
    /\ closer = [c \in Closers |-> "idle"]
    /\ watch = [w \in Watchers |-> None]
    /\ lock = None
    /\ seen = [offered |-> 0, refused |-> 0, reports |-> 0, told |-> 0, snapshots |-> 0]

(***************************************************************************)
(* The mailbox.                                                            *)
(***************************************************************************)
\* Mutant of TryPublish: a full mailbox is not counted.
TryPublishSilent(kind) ==
    /\ seen.offered < MaxOffered
    /\ seen' = [seen EXCEPT !.offered = @ + 1, !.refused = IF box.closed THEN @ + 1 ELSE @]
    /\ box' = IF box.closed THEN box
              ELSE IF kind \in box.excluded THEN [box EXCEPT !.filtered = @ + 1]
              ELSE IF Len(box.queue) < Capacity THEN [box EXCEPT !.queue = Append(@, kind)]
              ELSE box
    /\ UNCHANGED <<stats, cons, closing, closer, watch, lock>>

\* TryPublish: never blocks; a full mailbox drops the event.
TryPublish(kind) ==
    /\ seen.offered < MaxOffered
    /\ seen' = [seen EXCEPT !.offered = @ + 1, !.refused = IF box.closed THEN @ + 1 ELSE @]
    /\ box' = IF box.closed THEN box
              ELSE IF kind \in box.excluded THEN [box EXCEPT !.filtered = @ + 1]
              ELSE IF Len(box.queue) < Capacity THEN [box EXCEPT !.queue = Append(@, kind)]
              ELSE [box EXCEPT !.dropped = @ + 1]
    /\ UNCHANGED <<stats, cons, closing, closer, watch, lock>>

(***************************************************************************)
(* The consumer: it takes an event, counts it, writes one record for it    *)
(* and looks whether events were dropped since it looked last.             *)
(***************************************************************************)
Receive ==
    /\ cons.at = "receive" /\ box.queue # <<>>
    /\ cons' = [cons EXCEPT !.at = "count", !.event = Head(box.queue)]
    /\ box' = [box EXCEPT !.queue = Tail(@)]
    /\ UNCHANGED <<stats, closing, closer, watch, lock, seen>>

\* Mutant of Count: after a suppressed event the loop goes on without a look.
CountSkips ==
    /\ cons.at = "count" /\ lock = None
    /\ IF cons.event = "delta" \/ (cons.event = "progress" /\ ~stats.progress)
       THEN /\ stats' = [stats EXCEPT !.suppressed = @ + 1]
            /\ cons' = [cons EXCEPT !.at = "receive", !.event = None]
       ELSE /\ stats' = [stats EXCEPT !.processed = @ + 1]
            /\ cons' = [cons EXCEPT !.at = IF cons.event = "bad" THEN "undecoded" ELSE "emit"]
    /\ UNCHANGED <<box, closing, closer, watch, lock, seen>>

\* process, up to the record.
Count ==
    /\ cons.at = "count" /\ lock = None
    /\ IF cons.event = "delta" \/ (cons.event = "progress" /\ ~stats.progress)
       THEN /\ stats' = [stats EXCEPT !.suppressed = @ + 1]
            /\ cons' = [cons EXCEPT !.at = "look", !.event = None]
       ELSE /\ stats' = [stats EXCEPT !.processed = @ + 1]
            /\ cons' = [cons EXCEPT !.at = IF cons.event = "bad" THEN "undecoded" ELSE "emit"]
    /\ UNCHANGED <<box, closing, closer, watch, lock, seen>>

RecordDecodeFailure ==
    /\ cons.at = "undecoded" /\ lock = None
    /\ stats' = [stats EXCEPT !.decodeFailures = @ + 1]
    /\ cons' = [cons EXCEPT !.at = "emit"]
    /\ UNCHANGED <<box, closing, closer, watch, lock, seen>>

\* The logger takes the record or fails; the consumer never does.
Emitted(fails) ==
    [stats EXCEPT !.logFailures = IF fails THEN @ + 1 ELSE @, !.handled = IF fails THEN @ ELSE @ + 1]

Emit(fails) ==
    /\ cons.at = "emit" /\ lock = None
    /\ stats' = Emitted(fails)
    /\ cons' = [cons EXCEPT !.at = "look", !.event = None]
    /\ UNCHANGED <<box, closing, closer, watch, lock, seen>>

\* reportDrops: the mailbox is asked, then the difference is written.
Look(at, next) ==
    /\ cons.at = at
    /\ IF box.dropped <= cons.last
       THEN cons' = [cons EXCEPT !.at = next] /\ UNCHANGED seen
       ELSE /\ cons' = [cons EXCEPT !.at = IF next = "done" THEN "lastwarning" ELSE "warning", !.last = box.dropped]
            /\ seen' = [seen EXCEPT !.told = @ + (box.dropped - cons.last), !.reports = @ + 1]
    /\ UNCHANGED <<box, stats, closing, closer, watch, lock>>

Warn(fails) ==
    /\ cons.at \in {"warning", "lastwarning"} /\ lock = None
    /\ stats' = Emitted(fails)
    /\ cons' = [cons EXCEPT !.at = IF @ = "warning" THEN "receive" ELSE "done"]
    /\ UNCHANGED <<box, closing, closer, watch, lock, seen>>

\* The mailbox is closed and empty: the loop ends, with a last look.
Drained ==
    /\ cons.at = "receive" /\ box.closed /\ box.queue = <<>>
    /\ cons' = [cons EXCEPT !.at = "lastlook"]
    /\ UNCHANGED <<box, stats, closing, closer, watch, lock, seen>>

(***************************************************************************)
(* Close.                                                                  *)
(***************************************************************************)
Close(c) ==
    /\ closer[c] = "idle"
    /\ closer' = [closer EXCEPT ![c] = "waiting"]
    /\ IF closing = "open"
       THEN closing' = "closed" /\ box' = [box EXCEPT !.closed = TRUE]
       ELSE UNCHANGED <<closing, box>>
    /\ UNCHANGED <<stats, cons, watch, lock, seen>>

\* finish: the accounts are closed once the consumer has ended.
FinishClose ==
    /\ closing = "closed" /\ cons.at = "done" /\ lock = None
    /\ stats' = [stats EXCEPT !.closed = TRUE]
    /\ closing' = "done"
    /\ UNCHANGED <<box, cons, closer, watch, lock, seen>>

CloseReturns(c) ==
    /\ closer[c] = "waiting" /\ closing = "done"
    /\ closer' = [closer EXCEPT ![c] = "closed"]
    /\ UNCHANGED <<box, stats, cons, closing, watch, lock, seen>>

CloseCancelled(c) ==
    /\ closer[c] = "waiting"
    /\ closer' = [closer EXCEPT ![c] = "cancelled"]
    /\ UNCHANGED <<box, stats, cons, closing, watch, lock, seen>>

(***************************************************************************)
(* Snapshot holds the processor's lock and asks the mailbox twice; what    *)
(* health makes of it.                                                     *)
(***************************************************************************)
SnapshotFiltered(w) ==
    /\ lock = None /\ watch[w] = None /\ seen.snapshots < MaxSnapshots
    /\ lock' = w
    /\ watch' = [watch EXCEPT ![w] = [stats |-> stats, filtered |-> stats.suppressed + box.filtered, dropped |-> None]]
    /\ seen' = [seen EXCEPT !.snapshots = @ + 1]
    /\ UNCHANGED <<box, stats, cons, closing, closer>>

SnapshotDropped(w) ==
    /\ lock = w
    /\ lock' = None
    /\ watch' = [watch EXCEPT ![w].dropped = box.dropped]
    /\ UNCHANGED <<box, stats, cons, closing, closer, seen>>

HealthContribution(s) ==
    IF s.stats.closed /\ s.stats.logFailures # 0 THEN "unavailable"
    ELSE IF s.stats.logFailures # 0 \/ s.stats.decodeFailures # 0 \/ s.dropped # 0 THEN "degraded"
    ELSE "healthy"

Forget(w) ==
    /\ lock = None /\ watch[w] # None
    /\ watch' = [watch EXCEPT ![w] = None]
    /\ UNCHANGED <<box, stats, cons, closing, closer, lock, seen>>

Consume ==
    \/ Receive \/ Count \/ RecordDecodeFailure \/ Drained
    \/ (\E fails \in BOOLEAN : Emit(fails) \/ Warn(fails))
    \/ Look("look", "receive") \/ Look("lastlook", "done")

Next ==
    \/ \E kind \in Kinds : TryPublish(kind)
    \/ Consume
    \/ \E c \in Closers : Close(c) \/ CloseReturns(c) \/ CloseCancelled(c)
    \/ FinishClose
    \/ \E w \in Watchers : SnapshotFiltered(w) \/ SnapshotDropped(w) \/ Forget(w)

Spec == Init /\ [][Next]_vars

\* The consumer, finish and a snapshot that holds the lock are goroutines that
\* nothing blocks for good.
Fairness ==
    /\ WF_vars(Consume) /\ WF_vars(FinishClose)
    /\ \A w \in Watchers : WF_vars(SnapshotDropped(w))
    /\ \A c \in Closers : WF_vars(CloseReturns(c))

FairSpec == Spec /\ Fairness

-----------------------------------------------------------------------------
InHand == IF cons.at = "count" THEN 1 ELSE 0
Unwritten ==
    IF cons.at \in {"undecoded", "emit", "warning", "lastwarning"} THEN 1 ELSE 0

\* Every event that a run offers is in one account and in one only: refused by a
\* closed mailbox, filtered, dropped, waiting, suppressed or processed; each
\* processed one and each report of drops is one record that was written or
\* failed; the drops told to the logger are those the consumer has seen, all of
\* them once it has ended; and a snapshot that says it is closed holds the final
\* accounts, so that health never calls a log healthy that lost something.
LogAccountsBalance ==
    /\ seen.offered = seen.refused + box.filtered + box.dropped + Len(box.queue) + InHand
                        + stats.suppressed + stats.processed
    /\ stats.handled + stats.logFailures + Unwritten = stats.processed + seen.reports
    /\ seen.told = cons.last /\ cons.last <= box.dropped
    /\ cons.at \in {"lastwarning", "done"} => cons.last = box.dropped /\ box.queue = <<>>
    /\ \A w \in Watchers : watch[w] # None /\ watch[w].stats.closed =>
          /\ watch[w].stats = stats /\ watch[w].filtered = box.filtered + stats.suppressed
          /\ lock # w => /\ watch[w].dropped = box.dropped
                         /\ HealthContribution(watch[w]) = "healthy" => stats.handled = stats.processed /\ box.dropped = 0

\* A drop is told: the mailbox was full when it dropped an event, so the
\* consumer takes another event, or ends, and looks again.  And a close that is
\* not cancelled returns, whatever the runs offer meanwhile.
DropsAreTold ==
    /\ []<>(cons.last = box.dropped)
    /\ \A c \in Closers : []<>(closer[c] # "waiting")
=============================================================================
