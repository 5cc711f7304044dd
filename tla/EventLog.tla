------------------------------ MODULE EventLog ------------------------------
(***************************************************************************)
(* The in-memory event log of one run (event/log.go): a bounded retained   *)
(* window of a gap-free sequence, and independent bounded subscriptions,   *)
(* each drained by its own delivery goroutine.                             *)
(*                                                                         *)
(* Every operation of Log runs under log.mu and every touch of a           *)
(* Subscription under subscription.mu, so each is one action.  The         *)
(* delivery goroutine releases its mutex around the channel send: that is  *)
(* the pc of a subscription.  An envelope is its sequence number and its   *)
(* encoded size, and whether it is a terminal event.  A consumer  *)
(* is the code that reads a subscription: it asks again from where it      *)
(* stands after every error.                                               *)
(***************************************************************************)
EXTENDS Integers, Sequences, FiniteSets, Functions

CONSTANTS
    Subscribers,            \* the consumers, at most one subscription each at a time
    Sizes,                  \* encoded sizes an envelope may have
    AfterSequence,          \* NewLogAfter's lastSequence: 0, or an imported tail
    MaxSequence,            \* stands for math.MaxUint64, where Append refuses
    MaxEvents, MaxBytes,    \* LogLimits
    TerminalReserveEvents, TerminalReserveBytes,
    SubscriberMaxEvents, SubscriberMaxBytes

\* What NewLogAfter demands of the limits and the cursor.
ValidLimits ==
    /\ Sizes \subseteq Nat \ {0}
    /\ AfterSequence \in Nat /\ MaxSequence \in Nat /\ AfterSequence < MaxSequence
    /\ MaxEvents \in Nat /\ MaxBytes \in Nat
    /\ TerminalReserveEvents \in 1 .. (MaxEvents - 1)
    /\ TerminalReserveBytes \in 1 .. (MaxBytes - 1)
    /\ SubscriberMaxEvents \in Nat \ {0} /\ SubscriberMaxBytes \in Nat \ {0}

VARIABLES
    entries,        \* log.entries
    bytes,          \* log.bytes
    lastSequence,   \* log.lastSequence
    closed,         \* log.closed
    sub,            \* the subscription of each consumer
    received        \* per consumer: the last sequence it holds

vars == <<entries, bytes, lastSequence, closed, sub, received>>

Entry == [seq : AfterSequence + 1 .. MaxSequence, bytes : Sizes, terminal : BOOLEAN]

Bytes(q) == SumFunction([i \in DOMAIN q |-> q[i].bytes])

-----------------------------------------------------------------------------
(* Subscription: the operators that run under subscription.mu.             *)

\* newSubscription.  pc is where the delivery goroutine stands: at the head of its
\* loop, in the select that sends entry, past the send, or returned.
NewSubscription(after, replay) ==
    [pc |-> "loop", queue |-> replay, queuedBytes |-> Bytes(replay), entry |-> <<>>,
     terminal |-> FALSE, abort |-> FALSE, cancelled |-> FALSE,
     err |-> "nil", errLast |-> after, lastDelivered |-> after]

\* A consumer without a subscription, or one that has put its ended one away.
Idle == [NewSubscription(AfterSequence, <<>>) EXCEPT !.pc = "idle"]

Live(s) == s.pc \in {"loop", "select", "sent"}

\* Mutant of Finish: the queued tail is dropped.
FinishDropsQueue(s) == IF s.terminal THEN s ELSE [s EXCEPT !.terminal = TRUE, !.queue = <<>>, !.queuedBytes = 0]

\* subscription.finish(nil): terminal, the queue kept for delivery.
Finish(s) == IF s.terminal THEN s ELSE [s EXCEPT !.terminal = TRUE]

\* Mutant of Terminate: the abort channel is not closed.
TerminateWithoutAbort(s, err) ==
    IF s.terminal THEN s
    ELSE [s EXCEPT !.terminal = TRUE, !.err = err, !.errLast = s.lastDelivered,
                   !.queue = <<>>, !.queuedBytes = 0]

\* terminateLocked: no-op when terminal, else the queue is dropped and abort closed.
Terminate(s, err) ==
    IF s.terminal THEN s
    ELSE [s EXCEPT !.terminal = TRUE, !.err = err, !.errLast = s.lastDelivered,
                   !.queue = <<>>, !.queuedBytes = 0, !.abort = TRUE]

\* Mutant of Offer: an event that does not fit is dropped and the consumer kept.
OfferDropsEvent(s, e) ==
    IF \/ s.terminal
       \/ Len(s.queue) >= SubscriberMaxEvents
       \/ s.queuedBytes > SubscriberMaxBytes - e.bytes
    THEN s
    ELSE [s EXCEPT !.queue = Append(@, e), !.queuedBytes = @ + e.bytes]

\* offer: enqueue, or disconnect a consumer whose queue is full.
Offer(s, e) ==
    IF s.terminal THEN s
    ELSE IF \/ Len(s.queue) >= SubscriberMaxEvents
            \/ s.queuedBytes > SubscriberMaxBytes - e.bytes
         THEN Terminate(s, "exhausted")
         ELSE [s EXCEPT !.queue = Append(@, e), !.queuedBytes = @ + e.bytes]

-----------------------------------------------------------------------------
(* Log: the operations that run under log.mu.                              *)

EventsAllowed(terminal) == IF terminal THEN MaxEvents ELSE MaxEvents - TerminalReserveEvents
BytesAllowed(terminal)  == IF terminal THEN MaxBytes ELSE MaxBytes - TerminalReserveBytes

\* The eviction loop of Append: the k oldest entries go, the fewest after which one more
\* entry of this size fits.
Evicts(k, size, terminal) ==
    LET fits(j) == /\ Len(entries) - j < EventsAllowed(terminal)
                   /\ bytes - Bytes(SubSeq(entries, 1, j)) <= BytesAllowed(terminal) - size
    IN  fits(k) /\ \A j \in 0 .. (k - 1) : ~fits(j)

\* Append: refused when closed, at the last sequence, or larger than the class of event
\* may ever be; otherwise evict, append and offer to every subscriber.
AppendEvent(size, terminal) ==
    /\ ~closed
    /\ lastSequence # MaxSequence
    /\ size <= BytesAllowed(terminal)
    /\ \E k \in 0 .. Len(entries) :
        LET e == [seq |-> lastSequence + 1, bytes |-> size, terminal |-> terminal]
        IN  /\ Evicts(k, size, terminal)
            /\ entries' = Append(SubSeq(entries, k + 1, Len(entries)), e)
            /\ bytes' = bytes - Bytes(SubSeq(entries, 1, k)) + size
            /\ sub' = [c \in Subscribers |-> IF Live(sub[c]) THEN Offer(sub[c], e) ELSE sub[c]]
    /\ lastSequence' = lastSequence + 1
    /\ UNCHANGED <<closed, received>>

\* boundsLocked.
Earliest == IF entries = <<>> THEN lastSequence + 1 ELSE entries[1].seq

\* replayCursorOutside.
CursorOutside(after) ==
    IF Earliest = lastSequence + 1 THEN after # lastSequence
    ELSE after > lastSequence \/ after < Earliest - 1

\* OutOfRangeError.RecoveryAfter: where the consumer may ask again.
RecoveryAfter(after) == IF after < Earliest THEN Earliest - 1 ELSE lastSequence

\* replayPageLocked: i entries are not after the cursor, and the page is the longest prefix
\* of the others within both bounds, n entries.
PageAt(i, n, after, maxEvents, maxBytes) ==
    LET fits(m) == m <= maxEvents /\ Bytes(SubSeq(entries, i + 1, i + m)) <= maxBytes
    IN  /\ i + n <= Len(entries)
        /\ \A j \in DOMAIN entries : entries[j].seq <= after <=> j <= i
        /\ fits(n) /\ \A m \in (n + 1) .. (Len(entries) - i) : ~fits(m)

PageLast(after, page) == IF page = <<>> THEN after ELSE page[Len(page)].seq

\* A cursor outside the window: the consumer adopts the recovery cursor of the error.
OutOfRange(c) ==
    /\ ~Live(sub[c])
    /\ CursorOutside(received[c])
    /\ received' = [received EXCEPT ![c] = RecoveryAfter(received[c])]
    /\ sub' = [sub EXCEPT ![c] = Idle]
    /\ UNCHANGED <<entries, bytes, lastSequence, closed>>

\* Replay without Tail, or of a page that is not the last one, or of a closed log: the
\* consumer holds the page.  A first entry larger than maxBytes is an error that changes
\* nothing.
ReplayPage(c, maxEvents, maxBytes, tail) ==
    /\ ~Live(sub[c])
    /\ ~CursorOutside(received[c])
    /\ \E i, n \in 0 .. Len(entries) :
        LET page == SubSeq(entries, i + 1, i + n)
            last == PageLast(received[c], page)
        IN  /\ PageAt(i, n, received[c], maxEvents, maxBytes)
            /\ received[c] < lastSequence => page # <<>>
            /\ received' = [received EXCEPT ![c] = last]
            /\ IF tail /\ last = lastSequence /\ ~closed
               THEN sub' = [sub EXCEPT ![c] = NewSubscription(last, <<>>)]
               ELSE sub' = [sub EXCEPT ![c] = Idle]
    /\ UNCHANGED <<entries, bytes, lastSequence, closed>>

\* Subscribe: the whole rest of the window must fit the subscriber's own bounds; on a
\* closed log the subscription is born finished.
Subscribe(c) ==
    /\ ~Live(sub[c])
    /\ ~CursorOutside(received[c])
    /\ \E i, n \in 0 .. Len(entries) :
        LET replay == SubSeq(entries, i + 1, i + n)
            new == NewSubscription(received[c], replay)
        IN  /\ PageAt(i, n, received[c], SubscriberMaxEvents, SubscriberMaxBytes)
            /\ PageLast(received[c], replay) = lastSequence
            /\ sub' = [sub EXCEPT ![c] = IF closed THEN Finish(new) ELSE new]
    /\ UNCHANGED <<entries, bytes, lastSequence, closed, received>>

\* Close: every live subscription finishes with its queue.
Close ==
    /\ ~closed
    /\ closed' = TRUE
    /\ sub' = [c \in Subscribers |-> IF Live(sub[c]) THEN Finish(sub[c]) ELSE sub[c]]
    /\ UNCHANGED <<entries, bytes, lastSequence, received>>

-----------------------------------------------------------------------------
(* The context of a subscription and its delivery goroutine.               *)

Log == <<entries, bytes, lastSequence, closed>>

\* The consumer's context ends.
CancelContext(c) ==
    /\ Live(sub[c])
    /\ ~sub[c].cancelled
    /\ sub' = [sub EXCEPT ![c].cancelled = TRUE]
    /\ UNCHANGED <<Log, received>>

\* context.AfterFunc runs terminate(ctx.Err()) on its own goroutine.
ContextFired(c) ==
    /\ Live(sub[c])
    /\ sub[c].cancelled /\ ~sub[c].terminal
    /\ sub' = [sub EXCEPT ![c] = Terminate(@, "cancelled")]
    /\ UNCHANGED <<Log, received>>

\* deliver, head of the loop: take the head of the queue into the select.
DeliverNext(c) ==
    /\ sub[c].pc = "loop"
    /\ sub[c].queue # <<>>
    /\ sub' = [sub EXCEPT ![c].pc = "select", ![c].entry = sub[c].queue[1]]
    /\ UNCHANGED <<Log, received>>

\* deliver, head of the loop: nothing left and terminal, so return and close done.
DeliverReturn(c) ==
    /\ sub[c].pc = "loop"
    /\ sub[c].queue = <<>> /\ sub[c].terminal
    /\ sub' = [sub EXCEPT ![c].pc = "done", ![c].entry = <<>>]
    /\ UNCHANGED <<Log, received>>

\* select: the abort channel is closed.
DeliverAbort(c) ==
    /\ sub[c].pc = "select"
    /\ sub[c].abort
    /\ sub' = [sub EXCEPT ![c].pc = "done", ![c].entry = <<>>]
    /\ UNCHANGED <<Log, received>>

\* select: ctx.Done, then terminate(ctx.Err()), which is a no-op once terminal.
DeliverCancelled(c) ==
    /\ sub[c].pc = "select"
    /\ sub[c].cancelled
    /\ sub' = [sub EXCEPT ![c] = [Terminate(@, "cancelled") EXCEPT !.pc = "done", !.entry = <<>>]]
    /\ UNCHANGED <<Log, received>>

\* select: the consumer takes the event from the unbuffered channel.
Receive(c) ==
    /\ sub[c].pc = "select"
    /\ received' = [received EXCEPT ![c] = sub[c].entry.seq]
    /\ sub' = [sub EXCEPT ![c].pc = "sent"]
    /\ UNCHANGED Log

\* After the send: pop the entry unless the queue was dropped meanwhile, record it as
\* delivered, and correct the cursor inside an exhaustion error.
Sent(s) ==
    LET popped == s.queue # <<>> /\ s.queue[1].seq = s.entry.seq
    IN  [s EXCEPT !.pc = "loop", !.entry = <<>>,
                  !.queue = IF popped THEN Tail(@) ELSE @,
                  !.queuedBytes = IF popped THEN @ - s.entry.bytes ELSE @,
                  !.lastDelivered = s.entry.seq,
                  !.errLast = IF s.err = "exhausted" THEN s.entry.seq ELSE @]

DeliverSent(c) ==
    /\ sub[c].pc = "sent"
    /\ sub' = [sub EXCEPT ![c] = Sent(@)]
    /\ UNCHANGED <<Log, received>>

-----------------------------------------------------------------------------

\* NewLogAfter, and consumers that ask from any cursor.
Init ==
    /\ ValidLimits
    /\ entries = <<>> /\ bytes = 0
    /\ lastSequence = AfterSequence
    /\ closed = FALSE
    /\ sub = [c \in Subscribers |-> Idle]
    /\ received \in [Subscribers -> 0 .. MaxSequence]

Deliver(c) ==
    \/ DeliverNext(c) \/ DeliverReturn(c) \/ DeliverAbort(c)
    \/ DeliverCancelled(c) \/ DeliverSent(c)

Next ==
    \/ \E size \in Sizes, terminal \in BOOLEAN : AppendEvent(size, terminal)
    \/ Close
    \/ \E c \in Subscribers :
        \/ OutOfRange(c)
        \/ \E maxEvents \in 1 .. SubscriberMaxEvents,
              maxBytes \in 1 .. SubscriberMaxBytes, tail \in BOOLEAN :
              ReplayPage(c, maxEvents, maxBytes, tail)
        \/ Subscribe(c)
        \/ CancelContext(c) \/ ContextFired(c)
        \/ Receive(c)
        \/ Deliver(c)

Spec == Init /\ [][Next]_vars

\* The Go scheduler runs every runnable goroutine: the delivery goroutine and the
\* AfterFunc of a cancelled context.  A consumer is not obliged to read.
Fairness == \A c \in Subscribers : WF_vars(Deliver(c)) /\ WF_vars(ContextFired(c))

FairSpec == Spec /\ Fairness

-----------------------------------------------------------------------------
(* Properties.                                                             *)

\* Types; a subscription that holds an undelivered event holds a real one.
TypeOK ==
    /\ entries \in Seq(Entry)
    /\ bytes \in Nat
    /\ lastSequence \in AfterSequence .. MaxSequence
    /\ closed \in BOOLEAN
    /\ received \in [Subscribers -> 0 .. MaxSequence]
    /\ \A c \in Subscribers :
        /\ DOMAIN sub[c] = DOMAIN Idle
        /\ sub[c].pc \in {"idle", "loop", "select", "sent", "done"}
        /\ sub[c].queue \in Seq(Entry)
        /\ sub[c].queuedBytes \in Nat
        /\ sub[c].pc \in {"select", "sent"} => sub[c].entry \in Entry
        /\ sub[c].terminal \in BOOLEAN /\ sub[c].abort \in BOOLEAN /\ sub[c].cancelled \in BOOLEAN
        /\ sub[c].err \in {"nil", "cancelled", "exhausted"}
        /\ sub[c].errLast \in 0 .. MaxSequence
        /\ sub[c].lastDelivered \in 0 .. MaxSequence

\* q holds the sequences after, without a gap, up to and including last.
Consecutive(q, after, last) ==
    /\ Len(q) = last - after
    /\ \A i \in DOMAIN q : q[i].seq = after + i

\* The retained window ends at lastSequence without a gap, log.bytes is the sum of its
\* sizes after any number of evictions, both limits hold, and after a non-terminal Append a
\* terminal event of at most TerminalReserveBytes still fits without evicting anything.
WindowSound ==
    /\ Consecutive(entries, lastSequence - Len(entries), lastSequence)
    /\ bytes = Bytes(entries)
    /\ Len(entries) <= MaxEvents /\ bytes <= MaxBytes
    /\ entries # <<>> /\ ~entries[Len(entries)].terminal =>
        \A size \in Sizes : size <= TerminalReserveBytes => Evicts(0, size, TRUE)

\* A subscription that was not cut off holds, in its queue, exactly the events between
\* what it delivered and the end of the log, within its own bounds (offer, deliver).
QueueIsTheRest ==
    \A c \in Subscribers : Live(sub[c]) /\ ~sub[c].abort =>
        /\ Consecutive(sub[c].queue, sub[c].lastDelivered, lastSequence)
        /\ sub[c].queuedBytes = Bytes(sub[c].queue)
        /\ Len(sub[c].queue) <= SubscriberMaxEvents
        /\ sub[c].queuedBytes <= SubscriberMaxBytes

\* The retained entries after a cursor.
RetainedAfter(after) == SelectSeq(entries, LAMBDA e : e.seq > after)

\* Every cursor is served.  Inside the window there is one page, it starts right after the
\* cursor, has no gap, and is empty only at the end or before an entry larger than the page;
\* outside it, the cursor of the OutOfRangeError is accepted at once, and a consumer that fell
\* behind misses nothing that is still retained (replayPageLocked, outOfRangeLocked).
CursorsAreServed ==
    \A after \in 0 .. MaxSequence :
        IF CursorOutside(after)
        THEN /\ ~CursorOutside(RecoveryAfter(after))
             /\ after < Earliest => RetainedAfter(RecoveryAfter(after)) = entries
        ELSE \A maxEvents \in 1 .. SubscriberMaxEvents, maxBytes \in 1 .. SubscriberMaxBytes :
                LET pages == {p \in (0 .. Len(entries)) \X (0 .. Len(entries)) :
                                 PageAt(p[1], p[2], after, maxEvents, maxBytes)}
                    page == LET p == CHOOSE p \in pages : TRUE IN SubSeq(entries, p[1] + 1, p[1] + p[2])
                IN  /\ Cardinality(pages) = 1
                    /\ Consecutive(page, after, PageLast(after, page))
                    /\ page = <<>> /\ after < lastSequence => RetainedAfter(after)[1].bytes > maxBytes

\* When the subscription is over, LastDelivered and the cursor inside an exhaustion error
\* name the last event the consumer really took, although the queue was dropped and the
\* error built while a send was in flight (offer, terminateLocked, deliver).
CursorExact ==
    \A c \in Subscribers : sub[c].pc = "done" =>
        /\ sub[c].lastDelivered = received[c]
        /\ sub[c].err = "exhausted" => sub[c].errLast = received[c]

\* The retained window, the queue of a subscription and every cursor a consumer is given are
\* exact under appends, evictions, slow and cancelled consumers (Append, offer, deliver,
\* replayPageLocked).
LogIsExact == TypeOK /\ WindowSound /\ QueueIsTheRest /\ CursorsAreServed /\ CursorExact

\* What the comments on Close and Wait say of every subscription: nil from Wait is the
\* completion of the log, after the queued tail was delivered.
CleanCompletion ==
    \A c \in Subscribers :
        sub[c].pc = "done" /\ sub[c].err = "nil" => received[c] = lastSequence

\* A cancelled or disconnected subscription ends although nobody reads it; and once the log
\* is closed, a consumer that keeps reading reaches the end of its stream.
LogSubscriptionsEnd ==
    \A c \in Subscribers :
        /\ []<>~(Live(sub[c]) /\ (sub[c].cancelled \/ sub[c].err = "exhausted"))
        /\ WF_vars(Receive(c)) => []<>~(closed /\ Live(sub[c]))

\* What a consumer can tell of its subscription.  A nil from Wait counts as a clean end
\* only when the consumer did not cancel.
StreamOf(s) ==
    CASE s.pc = "idle" -> "off"
      [] Live(s) -> "on"
      [] s.pc = "done" /\ s.err = "nil" /\ ~s.cancelled -> "clean"
      [] OTHER -> "broken"

Stream == INSTANCE EventStream WITH
    Consumers <- Subscribers, First <- AfterSequence, Top <- MaxSequence,
    latest <- lastSequence, closed <- closed, holds <- received,
    stream <- [c \in Subscribers |-> StreamOf(sub[c])]

\* The log with its subscriptions, goroutines and bounds implements the ordered stream.
LogImplementsStream == Stream!Spec
=============================================================================
