----------------------------- MODULE StreamLink -----------------------------
(***************************************************************************)
(* One observation stream of a client session, from the source in the      *)
(* daemon to the caller of Next: the StreamEvents and StreamInteractions   *)
(* handlers, the lease they hold against a reconnect, the frames on the    *)
(* wire, the goroutine of the client that receives them and the lifetime   *)
(* its session waits for.                                                  *)
(*                                                                         *)
(* A source is what the handlers use of a run's event log (EventLog) or of *)
(* the pending hub (PendingHub): numbered items, of which it retains a     *)
(* window, and a tail that starts at the end of the captured page.  What   *)
(* an item says is left out.  Sends block when Window frames are in        *)
(* flight, as under the flow control of gRPC.                              *)
(***************************************************************************)
EXTENDS Status, Sequences

CONSTANTS Top,          \* the last item number explored
          Limit,        \* the replay limit of a page of events
          Queue,        \* how many items a tail may hold unread
          Window,       \* how many frames fit on the wire
          MaxFaults     \* how many disturbances are explored

VARIABLES feed,         \* the source
          store,        \* the owner's epoch and the reconnect that fences it
          down,         \* the shutdown of the server
          srv,          \* the handler
          wire,         \* frames in flight
          cl,           \* the client's stream
          sess,         \* the client's session and its reconnect
          faults        \* disturbances so far

vars == <<feed, store, down, srv, wire, cl, sess, faults>>

NoFrame == [type |-> "none", n |-> 0, earliest |-> 0, latest |-> 0, more |-> FALSE, tailing |-> FALSE, status |-> OK]
Item(n) == [NoFrame EXCEPT !.type = "item", !.n = n]
Snapshot(n) == [NoFrame EXCEPT !.type = "snapshot", !.n = n]
Control(n, tailing) == [type |-> "control", n |-> n, earliest |-> feed.earliest, latest |-> feed.latest,
                        more |-> n < feed.latest, tailing |-> tailing, status |-> OK]
Failure(s) == [NoFrame EXCEPT !.type = "control", !.status = s]
End(code) == [NoFrame EXCEPT !.type = "end", !.status = Plain(code, FALSE)]

Result(type) == [type |-> type, code |-> "none", detail |-> NoDetail]
Nothing == Result("none")
Got(f) == [type |-> "frame", frame |-> f]

\* validateSuccessfulStreamControl.
ValidControl(c) ==
    /\ ValidStatus(c.status)
    /\ c.status = OK =>
          /\ c.earliest > 0 /\ (c.latest >= c.earliest \/ c.earliest = c.latest + 1)
          /\ c.n >= c.earliest - 1 /\ c.n <= c.latest
          /\ c.more = (c.n < c.latest)
          /\ c.tailing => ~c.more /\ c.n = c.latest

\* ValidateInteractionStreamControl.
ValidInteractionControl(c) ==
    /\ ValidStatus(c.status)
    /\ c.status = OK => c.n <= c.latest /\ c.more = (c.n < c.latest) /\ (c.tailing => ~c.more /\ c.n = c.latest)

\* ValidateInteractionStreamPage: exactly a snapshot and the control that captured it.
ValidInteractionPage(snapshot, c, tail) ==
    /\ snapshot.type = "snapshot" /\ c.type = "control"
    /\ ValidInteractionControl(c) /\ c.status = OK
    /\ c.latest = snapshot.n /\ c.n = snapshot.n /\ ~c.more /\ c.tailing = tail

(***************************************************************************)
(* The source, any window of which may be found when a stream is observed. *)
(* A tail whose reader is too slow is cut off.                             *)
(***************************************************************************)
Tailing == srv.at \in {"page", "tail"} /\ srv.tailing /\ srv.cut = "no"

Publish ==
    /\ srv.at \in {"page", "tail"} /\ ~feed.closed /\ feed.latest < Top
    /\ feed' = [feed EXCEPT !.latest = @ + 1]
    /\ srv' = IF ~Tailing THEN srv
              ELSE IF srv.queued - srv.taken = Queue THEN [srv EXCEPT !.cut = "overflow", !.queued = srv.taken]
              ELSE [srv EXCEPT !.queued = @ + 1]
    /\ UNCHANGED <<store, down, wire, cl, sess, faults>>

CloseFeed ==
    /\ srv.at \in {"page", "tail"} /\ ~feed.closed
    /\ feed' = [feed EXCEPT !.closed = TRUE]
    /\ srv' = IF Tailing THEN [srv EXCEPT !.cut = "clean"] ELSE srv
    /\ UNCHANGED <<store, down, wire, cl, sess, faults>>

(***************************************************************************)
(* The handler.  "fenced" is the observation's context, "rpc" the call's.  *)
(***************************************************************************)
NoHandler == [at |-> "none", kind |-> "none", tail |-> FALSE, after |-> 0, epoch |-> 0, found |-> FALSE, left |-> <<>>,
              tailing |-> FALSE, taken |-> 0, queued |-> 0, cut |-> "no", fenced |-> FALSE, rpc |-> TRUE,
              code |-> "OK"]

Leased == srv.at \in {"page", "tail", "close"} /\ srv.found

Ending(s, code) == [s EXCEPT !.at = "close", !.code = code, !.left = <<>>]

\* Whether the client still takes frames off the wire; gRPC drops the others.
Receiving == cl.at = "opening" \/ cl.reader = "on"

\* A send fails once the call's context has ended, and ends the handler.
Send(f, then) ==
    IF srv.rpc
    THEN /\ Receiving => Len(wire) < Window
         /\ wire' = IF Receiving THEN Append(wire, f) ELSE wire
         /\ srv' = then
    ELSE srv' = Ending(srv, "Canceled") /\ UNCHANGED wire

Quiet == UNCHANGED <<feed, store, down, cl, sess, faults>>

\* A status that does not validate is replaced, and ends the stream.
SendFailure(s) == Send(Failure(IF ValidStatus(s) THEN s ELSE Internal), Ending(srv, "OK"))

\* The session selected a protocol older than the stream of interactions.
InteractionVersionMismatch ==
    Detailed("INCOMPATIBLE_VERSION", FALSE, [kind |-> "version", client |-> [min |-> <<1, 1, 0>>, max |-> <<1, 1, 0>>],
                                             server |-> [min |-> <<1, 2, 0>>, max |-> <<1, 2, 0>>]])

\* requireAuthenticated and lifecycleSession; ValidateInteractionStreamProtocol.
Admit ==
    /\ srv.at = "admit" /\ Quiet
    /\ IF down # "no" THEN srv' = Ending(srv, "Unavailable") /\ UNCHANGED wire
       ELSE IF store.owner # srv.epoch THEN SendFailure(StaleClient(store.owner, srv.epoch))
       ELSE \/ SendFailure(Unavailable)
            \/ /\ srv.kind = "interactions"
               /\ SendFailure(InteractionVersionMismatch)
            \/ srv' = [srv EXCEPT !.at = "observe"] /\ UNCHANGED wire

\* prepareEventPage and the initial page of the interactions.
EventPage ==
    LET last == IF srv.after + Limit < feed.latest THEN srv.after + Limit ELSE feed.latest
        tailing == srv.tail /\ last = feed.latest
    IN  [left |-> [i \in 1..(last - srv.after) |-> Item(srv.after + i)] \o <<Control(last, tailing)>>,
         last |-> last, tailing |-> tailing]

InteractionPage ==
    [left |-> <<Snapshot(feed.latest), Control(feed.latest, srv.tail)>>, last |-> feed.latest, tailing |-> srv.tail]

\* The observation holds the lease, the page and the tail registered with it.
Observed(page) ==
    [srv EXCEPT !.at = "page", !.found = TRUE, !.after = 0, !.left = page.left, !.tailing = page.tailing,
                !.taken = page.last, !.queued = page.last,
                !.cut = IF feed.closed THEN "clean" ELSE "no"]

\* ErrHostClosed and an ended call are quiet, a stale owner is told.
Unobserved ==
    IF down # "no" \/ ~srv.rpc THEN srv' = Ending(srv, IF srv.rpc THEN "OK" ELSE "Canceled") /\ UNCHANGED wire
    ELSE SendFailure(StaleClient(store.owner, srv.epoch))
Observable == down = "no" /\ srv.rpc /\ store.owner = srv.epoch

\* sendReplayFailure: the cursor is outside the window, or the tail has no room.
ReplayFailures ==
    {Overload(1, 2, TRUE), Unavailable, Plain("NOT_FOUND", FALSE)}
        \cup (IF Holds(srv.after, feed.earliest, feed.latest) THEN {}
              ELSE {CheckReplayCursor(srv.after, feed.earliest, feed.latest)})

\* Mutant of ObserveEvents: the tail starts behind the page that was sent.
ObserveEventsBehind ==
    /\ srv.at = "observe" /\ srv.kind = "events" /\ ~store.fencing /\ Quiet
    /\ Observable /\ Holds(srv.after, feed.earliest, feed.latest)
    /\ srv' = [Observed(EventPage) EXCEPT !.taken = srv.after] /\ UNCHANGED wire
\* ReplayEvents.
ObserveEvents ==
    /\ srv.at = "observe" /\ srv.kind = "events" /\ ~store.fencing /\ Quiet
    /\ IF ~Observable THEN Unobserved
       ELSE \/ \E s \in ReplayFailures : SendFailure(s)
            \/ /\ Holds(srv.after, feed.earliest, feed.latest)
               /\ srv' = Observed(EventPage) /\ UNCHANGED wire

\* observeInteractions.
ObserveInteractions ==
    /\ srv.at = "observe" /\ srv.kind = "interactions" /\ ~store.fencing /\ Quiet
    /\ IF ~Observable THEN Unobserved
       ELSE \/ \E s \in {Overload(1, 2, TRUE), Unavailable} : SendFailure(s)
            \/ srv' = Observed(InteractionPage) /\ UNCHANGED wire

Observe == ObserveEvents \/ ObserveInteractions

PageSent == srv' = (IF srv.tailing THEN [srv EXCEPT !.at = "tail"] ELSE Ending(srv, "OK")) /\ UNCHANGED wire
NextOfPage == Send(Head(srv.left), [srv EXCEPT !.left = Tail(@)])

\* A page of events is sent whole.
SendEventPage ==
    /\ srv.at = "page" /\ srv.kind = "events" /\ Quiet
    /\ IF srv.left = <<>> THEN PageSent ELSE NextOfPage

\* sendInteractionFrame looks at the observation before each frame.
SendInteractionPage ==
    /\ srv.at = "page" /\ srv.kind = "interactions" /\ Quiet
    /\ IF srv.left = <<>> THEN PageSent
       ELSE IF srv.fenced
       THEN /\ srv' = Ending(srv, IF Head(srv.left).type = "snapshot" THEN "OK" ELSE "Unavailable")
            /\ UNCHANGED wire
       ELSE NextOfPage

SendPage == SendEventPage \/ SendInteractionPage

FenceNoticed == srv.fenced /\ srv' = Ending(srv, IF srv.rpc THEN "OK" ELSE "Canceled") /\ UNCHANGED wire
NextOfTail == srv.taken < srv.queued /\ ~srv.fenced /\ Send(Item(srv.taken + 1), [srv EXCEPT !.taken = @ + 1])
TailClosed == srv.taken = srv.queued /\ srv.cut = "clean" /\ srv' = Ending(srv, "OK") /\ UNCHANGED wire

\* streamEventTail; when the observation has ended and an item is there too,
\* either may be noticed, but the item is not sent then.
SendEventTail ==
    /\ srv.at = "tail" /\ srv.kind = "events" /\ Quiet
    /\ FenceNoticed \/ NextOfTail \/ TailClosed \/ (srv.cut = "overflow" /\ SendFailure(Overload(1, 2, TRUE)))

\* tailInteractionObservation; a fenced one ends quietly, whatever cut it off.
SendInteractionTail ==
    /\ srv.at = "tail" /\ srv.kind = "interactions" /\ Quiet
    /\ FenceNoticed \/ NextOfTail \/ TailClosed \/ (srv.cut = "overflow" /\ ~srv.fenced /\ SendFailure(Overload(1, 2, TRUE)))

SendTail == SendEventTail \/ SendInteractionTail

\* Mutant of CloseObservation: the lease is released while the handler still sends.
CloseObservationEarly ==
    /\ srv.at \in {"page", "tail"} /\ srv.fenced /\ srv.found
    /\ srv' = [srv EXCEPT !.found = FALSE]
    /\ UNCHANGED wire /\ Quiet
\* The observation is cancelled and its tail joined before the lease is
\* released; then the handler returns.
CloseObservation ==
    /\ srv.at = "close"
    /\ wire' = IF srv.rpc /\ Receiving THEN Append(wire, End(srv.code)) ELSE <<>>
    /\ srv' = [NoHandler EXCEPT !.at = "ended", !.fenced = srv.fenced, !.rpc = srv.rpc]
    /\ Quiet

\* The context of the observation ends with the call, a reconnect or the root.
Fence ==
    /\ srv.at \in {"page", "tail"} /\ ~srv.fenced
    /\ ~srv.rpc \/ store.fencing \/ down # "no"
    /\ srv' = [srv EXCEPT !.fenced = TRUE]
    /\ UNCHANGED wire /\ Quiet

\* External: gRPC tells the handler that the client cancelled, or is gone.
Hangup ==
    /\ srv.at \notin {"none", "ended"} /\ srv.rpc
    /\ cl.cancelled \/ cl.broken
    /\ srv' = [srv EXCEPT !.rpc = FALSE]
    /\ UNCHANGED wire /\ Quiet

(***************************************************************************)
(* The shutdown of the server, and a reconnect in the session store.       *)
(***************************************************************************)
Disturb == faults < MaxFaults /\ faults' = faults + 1

Shutdown ==
    /\ down = "no" /\ Disturb
    /\ down' = "graceful"
    /\ UNCHANGED <<feed, store, srv, wire, cl, sess>>

\* The caller of Shutdown waits no longer: connections are cut.
ForceStop ==
    /\ down = "graceful"
    /\ down' = "forced" /\ cl' = [cl EXCEPT !.broken = TRUE]
    /\ UNCHANGED <<feed, store, srv, wire, sess, faults>>

ShutdownDone ==
    /\ down \in {"graceful", "forced"} /\ srv.at \in {"none", "ended"}
    /\ down' = "done"
    /\ UNCHANGED <<feed, store, srv, wire, cl, sess, faults>>

BeginReconnect ==
    /\ ~store.fencing /\ store.owner = 1
    /\ \/ sess.phase = "ready" /\ UNCHANGED faults
       \/ sess.phase = "idle" /\ Disturb        \* a reconnect from another process
    /\ store' = [store EXCEPT !.fencing = TRUE]
    /\ sess' = IF sess.phase = "ready" THEN [sess EXCEPT !.phase = "sent"] ELSE sess
    /\ UNCHANGED <<feed, down, srv, wire, cl>>

\* The epoch advances when the leases of the fenced epoch are released.
CommitReconnect ==
    /\ store.fencing /\ ~Leased
    /\ store' = [fencing |-> FALSE, owner |-> 2]
    /\ sess' = IF sess.phase = "sent" THEN [sess EXCEPT !.phase = "installed"] ELSE sess
    /\ UNCHANGED <<feed, down, srv, wire, cl, faults>>

(***************************************************************************)
(* The client.                                                             *)
(***************************************************************************)
NoStream == [at |-> "idle", kind |-> "none", tail |-> FALSE, after |-> 0, next |-> 0, tailing |-> FALSE,
             initial |-> <<>>, buffer |-> <<>>, reader |-> "none", closer |-> "no", closed |-> FALSE,
             cancelled |-> FALSE, broken |-> FALSE, ended |-> FALSE, held |-> FALSE, joined |-> FALSE,
             got |-> 0, last |-> Nothing]

Still == UNCHANGED <<feed, store, down, faults>>

Open ==
    /\ cl.at = "idle" /\ ~sess.closed
    /\ \E kind \in {"events", "interactions"}, tail \in BOOLEAN, after \in 0..Top :
          /\ kind = "interactions" => after = 0
          /\ cl' = [NoStream EXCEPT !.at = "opening", !.kind = kind, !.tail = tail, !.after = after, !.next = after,
                                    !.held = TRUE, !.got = after, !.broken = cl.broken]
          /\ srv' = [NoHandler EXCEPT !.at = "admit", !.kind = kind, !.tail = tail, !.after = after, !.epoch = sess.epoch]
    /\ UNCHANGED <<wire, sess>> /\ Still

\* A failed opening closes the lifetime and then finishes it.
Failed(c, r) ==
    [NoStream EXCEPT !.at = "failed", !.last = r, !.closed = TRUE, !.cancelled = TRUE, !.held = c.held,
                     !.broken = c.broken, !.closer = IF c.closer = "no" THEN "stored" ELSE c.closer]

Expected == IF cl.kind = "events" THEN [Call EXCEPT !.run = TRUE, !.after = cl.after, !.readOnly = TRUE]
            ELSE [Call EXCEPT !.readOnly = TRUE]

\* What is on the wire is dropped when the client stops receiving.
Keep(frames) == wire' = IF cl'.at = "opening" \/ cl'.reader = "on" THEN frames ELSE <<>>

Opened(f) == [cl EXCEPT !.at = "open", !.after = 0, !.initial = IF cl.closed THEN <<>> ELSE Append(@, f),
                         !.tailing = f.tailing, !.reader = "on"]

\* acceptEvent and acceptControl: a failure may only come before the first event.
AcceptedEvent(f) ==
    CASE f.type = "end" -> Failed(cl, Result("status"))
      [] f.type = "control" /\ f.status # OK -> Failed(cl, IF cl.initial = <<>> THEN StatusToError(f.status, Expected) ELSE ProtocolError)
      [] f.type = "control" /\ f.status = OK /\ ValidControl(f) /\ f.n = cl.next /\ (f.tailing => cl.tail) -> Opened(f)
      [] f.type = "item" /\ f.n = cl.next + 1 /\ Len(cl.initial) < Limit -> [cl EXCEPT !.next = f.n, !.initial = Append(@, f)]
      [] OTHER -> Failed(cl, ProtocolError)

\* receiveInteractionPage: a failure, or a snapshot and its control.
AcceptedInteraction(f) ==
    CASE f.type = "end" -> Failed(cl, Result("status"))
      [] cl.initial = <<>> /\ f.type = "control" /\ f.status # OK -> Failed(cl, StatusToError(f.status, Expected))
      [] cl.initial = <<>> /\ f.type = "snapshot" -> [cl EXCEPT !.next = f.n, !.initial = <<f>>]
      [] cl.initial # <<>> /\ ValidInteractionPage(Head(cl.initial), f, cl.tail) -> Opened(f)
      [] OTHER -> Failed(cl, ProtocolError)

Accepted(f) == IF cl.kind = "events" THEN AcceptedEvent(f) ELSE AcceptedInteraction(f)

ReceivePage ==
    /\ cl.at = "opening"
    /\ \/ wire # <<>> /\ cl' = Accepted(Head(wire)) /\ Keep(Tail(wire))
       \/ /\ cl.cancelled \/ cl.broken
          /\ cl' = Failed(cl, IF cl.closed THEN Result("closed") ELSE Result("status")) /\ Keep(wire)
    /\ UNCHANGED <<srv, sess>> /\ Still

\* The context of the opening call ends.
CancelOpening ==
    /\ cl.at = "opening" /\ ~cl.cancelled /\ Disturb
    /\ cl' = [cl EXCEPT !.cancelled = TRUE]
    /\ UNCHANGED <<feed, store, down, srv, wire, sess>>

\* The reader ends: its channel is closed, and finishRPC begins.
Finishing(c, r) ==
    [c EXCEPT !.reader = "swapped", !.ended = TRUE, !.next = 0,
              !.buffer = IF c.buffer = <<>> /\ ~c.closed THEN Append(@, r) ELSE @]

\* receiveEventTail, one frame.
TailedEvent(f) ==
    CASE f.type = "item" /\ f.n = cl.next + 1 -> [cl EXCEPT !.next = f.n, !.buffer = <<Got(f)>>]
      [] f.type = "control" /\ f.status # OK -> Finishing(cl, StatusToError(f.status, [Expected EXCEPT !.after = NoCursor]))
      [] OTHER -> Finishing(cl, ProtocolError)

\* receiveInteractionTail with its InteractionTailValidator: revisions are contiguous.
TailedInteraction(f) ==
    CASE f.type = "item" /\ f.n = cl.next + 1 -> [cl EXCEPT !.next = f.n, !.buffer = <<Got(f)>>]
      [] f.type = "control" /\ f.status # OK -> Finishing(cl, StatusToError(f.status, Expected))
      [] OTHER -> Finishing(cl, ProtocolError)

Tailed(f) ==
    IF f.type = "end" THEN Finishing(cl, IF f.status.code = "OK" THEN Result("eof") ELSE Result("status"))
    ELSE IF ~cl.tailing THEN Finishing(cl, ProtocolError)
    ELSE IF f.type = "item" /\ f.n = cl.next + 1 /\ (cl.buffer # <<>> \/ cl.closed) THEN Finishing(cl, Nothing)
    ELSE IF cl.kind = "events" THEN TailedEvent(f) ELSE TailedInteraction(f)

\* A result waits for room in the channel, or for the end of the lifetime.
ReceiveTail ==
    /\ cl.at = "open" /\ cl.reader = "on"
    /\ \/ wire # <<>> /\ (cl.buffer = <<>> \/ cl.cancelled) /\ cl' = Tailed(Head(wire)) /\ Keep(Tail(wire))
       \/ /\ cl.cancelled \/ cl.broken
          /\ cl.buffer = <<>> \/ cl.cancelled
          /\ cl' = Finishing(cl, IF cl.closed THEN Result("closed") ELSE Result("status")) /\ Keep(wire)
    /\ UNCHANGED <<srv, sess>> /\ Still

\* finish and finishRPC: "ended" has been set; now "closed" is read.  In
\* releaseStream the last stream of a closed session takes it out of the connector.
FinishStream ==
    /\ cl.reader = "swapped"
    /\ cl' = [cl EXCEPT !.reader = "done", !.joined = TRUE, !.held = @ /\ ~cl.closed]
    /\ sess' = IF cl.closed /\ sess.closed THEN [sess EXCEPT !.listed = FALSE] ELSE sess
    /\ UNCHANGED <<srv, wire>> /\ Still

\* The opener of a failed stream finishes it after it closed it.
FinishFailed ==
    /\ cl.at = "failed" /\ cl.closer = "done" /\ cl.reader = "none"
    /\ cl' = [cl EXCEPT !.reader = "swapped", !.ended = TRUE]
    /\ UNCHANGED <<srv, wire, sess>> /\ Still

\* Mutant of Closing: the call is not cancelled.
ClosingOnly(c) ==
    IF c.closer # "no" THEN c ELSE [c EXCEPT !.closed = TRUE, !.closer = "stored", !.buffer = <<>>, !.initial = <<>>]
\* close: "closed" is set and the call cancelled, and then "ended" is read.
\* Next returns no frame any more.
Closing(c) ==
    IF c.closer # "no" THEN c
    ELSE [c EXCEPT !.closed = TRUE, !.cancelled = TRUE, !.closer = "stored", !.buffer = <<>>,
                   !.initial = IF c.at = "open" THEN <<>> ELSE @]

CloseStream ==
    /\ cl.at = "open" /\ cl.closer = "no"
    /\ cl' = Closing(cl)
    /\ UNCHANGED <<srv, wire, sess>> /\ Still

CloseStored ==
    /\ cl.closer = "stored"
    /\ LET release == cl.ended
       IN  /\ cl' = [cl EXCEPT !.closer = "done", !.held = @ /\ ~release]
           /\ sess' = IF release /\ sess.closed THEN [sess EXCEPT !.listed = FALSE] ELSE sess
    /\ UNCHANGED <<srv, wire>> /\ Still

\* Next, as long as no final result was returned.
TakeNext ==
    /\ cl.at = "open" /\ cl.last = Nothing
    /\ \/ cl.closed /\ cl' = [cl EXCEPT !.last = Result("closed")]
       \/ /\ ~cl.closed /\ cl.initial # <<>>
          /\ LET f == Head(cl.initial)
             IN  cl' = [cl EXCEPT !.initial = Tail(@),
                                  !.got = IF f.type = "control" THEN @ ELSE f.n]
       \/ /\ ~cl.closed /\ cl.initial = <<>> /\ cl.buffer # <<>>
          /\ LET r == Head(cl.buffer)
             IN  cl' = [cl EXCEPT !.buffer = Tail(@), !.last = IF r.type = "frame" THEN @ ELSE r,
                                  !.got = IF r.type = "frame" THEN r.frame.n ELSE @]
    /\ UNCHANGED <<srv, wire, sess>> /\ Still

\* The connection is lost.
Break ==
    /\ cl.at \in {"opening", "open"} /\ ~cl.broken /\ Disturb
    /\ cl' = [cl EXCEPT !.broken = TRUE]
    /\ UNCHANGED <<feed, store, down, srv, wire, sess>>

\* Session.Close, and the fence of the connector before a reconnect: the
\* session is closed and every stream it holds with it.
CloseSession ==
    /\ ~sess.closed
    /\ \E phase \in {"idle", "waiting"} :
          sess' = [sess EXCEPT !.closed = TRUE, !.listed = cl.held, !.phase = phase]
    /\ cl' = IF cl.held THEN Closing(cl) ELSE cl
    /\ UNCHANGED <<srv, wire>> /\ Still

\* fenceAndWait: close has returned for each stream, and each is joined.
Fenced ==
    /\ sess.phase = "waiting" /\ cl.closer # "stored" /\ (cl.at # "idle" => cl.joined \/ cl.closer = "no")
    /\ sess' = [sess EXCEPT !.phase = "ready"]
    /\ UNCHANGED <<srv, wire, cl>> /\ Still

Init ==
    /\ feed \in [earliest : 1..(Top + 1), latest : 0..Top, closed : BOOLEAN] /\ feed.earliest <= feed.latest + 1
    /\ store = [owner |-> 1, fencing |-> FALSE]
    /\ down = "no" /\ srv = NoHandler /\ wire = <<>> /\ cl = NoStream
    /\ sess = [closed |-> FALSE, listed |-> TRUE, phase |-> "idle", epoch |-> 1]
    /\ faults = 0

Handler == Admit \/ Observe \/ SendPage \/ SendTail \/ CloseObservation \/ Fence \/ Hangup
Receiver == ReceivePage \/ ReceiveTail \/ FinishStream \/ FinishFailed \/ CloseStored

Next ==
    \/ Publish \/ CloseFeed
    \/ Handler \/ Receiver
    \/ Shutdown \/ ForceStop \/ ShutdownDone \/ BeginReconnect \/ CommitReconnect
    \/ Open \/ CancelOpening \/ CloseStream \/ TakeNext \/ Break \/ CloseSession \/ Fenced

Fairness ==
    /\ WF_vars(Admit \/ Observe \/ SendPage \/ SendTail \/ CloseObservation) /\ WF_vars(Fence) /\ WF_vars(Hangup)
    /\ WF_vars(ReceivePage \/ ReceiveTail) /\ WF_vars(FinishStream) /\ WF_vars(FinishFailed) /\ WF_vars(CloseStored)
    /\ WF_vars(ForceStop) /\ WF_vars(ShutdownDone) /\ WF_vars(CommitReconnect) /\ WF_vars(Fenced)

Spec == Init /\ [][Next]_vars
FairSpec == Spec /\ Fairness

-----------------------------------------------------------------------------
Buffered == [i \in 1..Len(cl.buffer) |-> IF cl.buffer[i].type = "frame" THEN cl.buffer[i].frame ELSE NoFrame]

\* From the source to the caller nothing is lost, repeated or reordered: what the
\* client has buffered continues what its caller received and, while it still
\* receives, what is on the wire and what the handler still holds continues
\* that; no frame is taken for a protocol violation; and a tail that ends
\* without error, unless the daemon fenced it, has delivered every item.
DeliveryIsExact ==
    LET Follow(frames, first) ==
            LET snapshots == SelectSeq(frames, LAMBDA f : f.type = "snapshot")
                base == IF snapshots = <<>> THEN first ELSE snapshots[1].n
                items == SelectSeq(frames, LAMBDA f : f.type = "item")
            IN  \A i \in 1..Len(items) : items[i].n = base + i
    IN  /\ ~cl.closed => Follow(cl.initial \o Buffered, cl.got)
        /\ Receiving => Follow(wire \o srv.left, cl.next)
        /\ cl.last.type # "protocol"
        /\ cl.last.type = "eof" /\ cl.tailing /\ ~srv.fenced => feed.closed /\ cl.got = feed.latest

\* No frame of an old epoch's observation is sent once the new epoch is in force:
\* a reconnect is committed only after every handler of the fenced epoch has
\* stopped sending and returned its lease.
OldEpochStep == Len(wire') > Len(wire) /\ wire'[Len(wire')].type \in {"item", "snapshot"} => store.owner = srv.epoch
OldEpochIsSilent == [][OldEpochStep]_vars

\* A stream is released exactly when it is closed and finished, whichever comes
\* first, so that a reconnect that waited for the streams of its session finds
\* none left, and a closed session without streams is no longer listed.
StreamsAreReleased ==
    /\ cl.closer = "done" /\ cl.reader = "done" => ~cl.held
    /\ cl.at \in {"opening", "open"} /\ cl.closer = "no" => cl.held
    /\ sess.phase \in {"ready", "sent", "installed"} => ~cl.held /\ ~sess.listed
    /\ sess.closed /\ ~cl.held => ~sess.listed

\* Every stream that is closed, or whose session is, is joined; and a reconnect of
\* this client and the shutdown of the server come to their end.
StreamsEnd ==
    /\ []<>(cl.closed => cl.joined)
    /\ []<>(sess.phase # "sent")
    /\ []<>(down \in {"no", "done"})
=============================================================================
