------------------------- MODULE AgentLoggingProofs -------------------------
(***************************************************************************)
(* The accounts of the logging processor balance, for every capacity of    *)
(* the mailbox and any number of events, closes and snapshots.             *)
(***************************************************************************)
EXTENDS AgentLogging, SequenceTheorems, TLAPS

BoxType ==
    [queue : Seq(Kinds), dropped : Nat, filtered : Nat, closed : BOOLEAN, excluded : SUBSET Kinds]

StatsType ==
    [processed : Nat, handled : Nat, logFailures : Nat, decodeFailures : Nat, suppressed : Nat,
     closed : BOOLEAN, progress : BOOLEAN]

ConsType ==
    [at : {"receive", "count", "undecoded", "emit", "look", "warning", "lastlook", "lastwarning", "done"},
     event : Kinds \cup {None}, last : Nat]

SeenType == [offered : Nat, refused : Nat, reports : Nat, told : Nat, snapshots : Nat]

WatchType == [stats : StatsType, filtered : Nat, dropped : Nat \cup {None}]

Typed ==
    /\ box \in BoxType /\ stats \in StatsType /\ cons \in ConsType /\ seen \in SeenType
    /\ closing \in {"open", "closed", "done"}
    /\ watch \in [Watchers -> WatchType \cup {None}]
    /\ lock \in Watchers \cup {None}

\* The events that wait in the mailbox.
Waiting == Len(box.queue)

\* What of the accounts does not speak of snapshots.
Balance ==
    /\ seen.offered = seen.refused + box.filtered + box.dropped + Waiting + InHand
                        + stats.suppressed + stats.processed
    /\ stats.handled + stats.logFailures + Unwritten = stats.processed + seen.reports
    /\ seen.told = cons.last /\ cons.last <= box.dropped
    /\ cons.last = 0 => seen.reports = 0

\* The order of Close: the mailbox, the consumer, the accounts.
Order ==
    /\ box.closed <=> closing # "open"
    /\ cons.at \in {"lastlook", "lastwarning", "done"} => box.closed /\ box.queue = <<>>
    /\ cons.at \in {"lastwarning", "done"} => cons.last = box.dropped
    /\ closing = "done" => cons.at = "done"
    /\ stats.closed <=> closing = "done"

\* A snapshot that says closed has what will not change any more.
Final(w) ==
    (watch[w] # None \/ lock = w) /\ watch[w].stats.closed =>
        /\ watch[w].stats = stats /\ watch[w].filtered = box.filtered + stats.suppressed
        /\ lock # w => watch[w].dropped = box.dropped

IInv ==
    /\ Typed /\ Balance /\ Order
    /\ \A w \in Watchers : lock = w => watch[w] \in WatchType
    /\ \A w \in Watchers : Final(w)

\* The invariant holds of an empty mailbox.
LEMMA InitIInv ==
    ASSUME None \notin Watchers, Init
    PROVE  IInv
<1>1. /\ \A progress \in BOOLEAN : Mailbox(progress) \in BoxType
      /\ \A progress \in BOOLEAN : /\ Mailbox(progress).queue = <<>> /\ Mailbox(progress).dropped = 0
                                   /\ Mailbox(progress).filtered = 0 /\ ~Mailbox(progress).closed
  BY EmptySeq DEF Mailbox, BoxType, Kinds
<1>2. box \in BoxType /\ box.queue = <<>> /\ box.dropped = 0 /\ box.filtered = 0 /\ ~box.closed
  BY <1>1 DEF Init
<1>3. /\ stats \in StatsType /\ cons \in ConsType /\ seen \in SeenType
  BY DEF Init, StatsType, ConsType, SeenType
<1>4. Typed
  BY <1>2, <1>3 DEF Init, Typed
<1>5. Balance /\ Order
  BY <1>2, EmptySeq DEF Init, Balance, Order, InHand, Unwritten, Waiting
<1>6. \A w \in Watchers : (lock = w => watch[w] \in WatchType) /\ Final(w)
  BY DEF Init, Final
<1> QED  BY <1>4, <1>5, <1>6 DEF IInv

-----------------------------------------------------------------------------
(* Steps.                                                                  *)

\* What a step of the mailbox, the consumer or Close has to show: a closed account no longer
\* changes.
Frozen == stats.closed => stats' = stats /\ box'.filtered = box.filtered /\ box'.dropped = box.dropped

\* A step that leaves the watchers of Close alone keeps the snapshots they returned.
LEMMA SnapshotsKept ==
    ASSUME IInv, UNCHANGED <<watch, lock>>, Typed', Balance', Order', Frozen
    PROVE  IInv'
<1>1. ASSUME NEW w \in Watchers  PROVE Final(w)'
  BY SMTT(20) DEF IInv, Final, Frozen
<1>2. \A w \in Watchers : lock' = w => watch'[w] \in WatchType
  BY DEF IInv
<1> QED  BY <1>1, <1>2 DEF IInv

\* The accounts are numbers.
Numeric ==
    /\ box.dropped \in Nat /\ box.filtered \in Nat /\ Waiting \in Nat
    /\ stats.processed \in Nat /\ stats.handled \in Nat /\ stats.logFailures \in Nat
    /\ stats.decodeFailures \in Nat /\ stats.suppressed \in Nat /\ cons.last \in Nat
    /\ seen.offered \in Nat /\ seen.refused \in Nat /\ seen.reports \in Nat /\ seen.told \in Nat

\* They are, by their types.
LEMMA Numbers == Typed => Numeric
<1> SUFFICES ASSUME Typed PROVE Numeric
  OBVIOUS
<1>1. Waiting \in Nat /\ box.dropped \in Nat /\ box.filtered \in Nat
  BY LenProperties DEF Typed, BoxType, Waiting
<1> QED  BY <1>1 DEF Typed, StatsType, ConsType, SeenType, Numeric

\* An event is offered.
LEMMA TryPublishStep ==
    ASSUME IInv, NEW kind \in Kinds, TryPublish(kind)
    PROVE  IInv'
<1>0. Balance
  BY DEF IInv
<1>1. box \in BoxType /\ seen \in SeenType /\ stats \in StatsType /\ cons \in ConsType
  BY DEF IInv, Typed
<1>2. UNCHANGED <<stats, cons, closing, closer, watch, lock>>
  BY DEF TryPublish
<1>3. /\ seen' \in SeenType /\ seen'.offered = seen.offered + 1 /\ seen'.reports = seen.reports
      /\ seen'.told = seen.told
      /\ seen'.refused = IF box.closed THEN seen.refused + 1 ELSE seen.refused
  <2> DEFINE r == IF box.closed THEN seen.refused + 1 ELSE seen.refused
             o == seen.offered + 1
  <2>1. r \in Nat /\ o \in Nat
    BY <1>1 DEF SeenType
  <2>2. seen' = [seen EXCEPT !.offered = o, !.refused = r]
    BY DEF TryPublish
  <2> HIDE DEF r, o
  <2>3. seen' \in SeenType /\ seen'.offered = o /\ seen'.refused = r /\ seen'.reports = seen.reports /\ seen'.told = seen.told
    BY <1>1, <2>1, <2>2 DEF SeenType
  <2> QED  BY <2>3 DEF r, o
<1>6. Numeric
  BY Numbers DEF IInv
<1>4. CASE box.closed
  <2>1. box' = box /\ Waiting' = Waiting
    BY <1>4 DEF TryPublish, Waiting
  <2>2. Typed' /\ Order' /\ Frozen
    BY <1>2, <1>3, <2>1, SMTT(20) DEF IInv, Typed, Order, Frozen
  <2>3. Balance'
    BY <1>0, <1>2, <1>3, <1>4, <1>6, <2>1, SMTT(20) DEF Balance, InHand, Unwritten, Numeric
  <2> QED  BY <1>2, <2>2, <2>3, SnapshotsKept
<1>5. CASE ~box.closed
  <2>1. /\ box' \in BoxType /\ box'.closed = box.closed
        /\ box'.filtered + box'.dropped + Waiting' = box.filtered + box.dropped + Waiting + 1
        /\ box'.dropped >= box.dropped
    <3>1. CASE kind \in box.excluded
      <4>1. box' = [box EXCEPT !.filtered = box.filtered + 1]
        BY <1>5, <3>1, Zenon DEF TryPublish
      <4>2. box.filtered + 1 \in Nat
        BY <1>6 DEF Numeric
      <4>3. /\ box' \in BoxType /\ box'.queue = box.queue /\ box'.filtered = box.filtered + 1
            /\ box'.dropped = box.dropped /\ box'.closed = box.closed
        BY <1>1, <4>1, <4>2, Zenon DEF BoxType
      <4>4. Waiting' = Waiting
        BY <4>3 DEF Waiting
      <4> QED  BY <1>6, <4>3, <4>4 DEF Numeric
    <3>2. CASE kind \notin box.excluded /\ Len(box.queue) < Capacity
      <4>1. Append(box.queue, kind) \in Seq(Kinds) /\ Len(Append(box.queue, kind)) = Len(box.queue) + 1
        BY <1>1, AppendProperties DEF BoxType
      <4>2. box' = [box EXCEPT !.queue = Append(box.queue, kind)]
        BY <1>5, <3>2 DEF TryPublish
      <4> DEFINE q == Append(box.queue, kind)
      <4> HIDE DEF q
      <4>3. box' \in BoxType /\ box'.queue = q /\ box'.filtered = box.filtered /\ box'.dropped = box.dropped /\ box'.closed = box.closed
        BY <1>1, <4>1, <4>2, Zenon DEF BoxType, q
      <4>4. Waiting' = Waiting + 1
        BY <4>1, <4>3, Zenon DEF q, Waiting
      <4> QED  BY <1>6, <4>3, <4>4 DEF Numeric
    <3>3. CASE kind \notin box.excluded /\ ~(Len(box.queue) < Capacity)
      <4>1. box' = [box EXCEPT !.dropped = box.dropped + 1]
        BY <1>5, <3>3, Zenon DEF TryPublish
      <4>2. box.dropped + 1 \in Nat
        BY <1>6 DEF Numeric
      <4>3. /\ box' \in BoxType /\ box'.queue = box.queue /\ box'.filtered = box.filtered
            /\ box'.dropped = box.dropped + 1 /\ box'.closed = box.closed
        BY <1>1, <4>1, <4>2, Zenon DEF BoxType
      <4>4. Waiting' = Waiting
        BY <4>3 DEF Waiting
      <4> QED  BY <1>6, <4>3, <4>4 DEF Numeric
    <3> QED  BY <3>1, <3>2, <3>3
  <2>2. /\ closing = "open" /\ ~stats.closed
        /\ cons.at \notin {"lastlook", "lastwarning", "done"}
    BY <1>5 DEF IInv, Typed, Order
  <2>4. Typed'
    BY <1>2, <1>3, <2>1 DEF IInv, Typed
  <2>3. Numeric'
    BY <2>4, Numbers, PTL
  <2>5. Balance'
    BY <1>0, <1>2, <1>3, <1>5, <1>6, <2>1, <2>3, SMTT(20) DEF Balance, InHand, Unwritten, Numeric
  <2>6. Order' /\ Frozen
    BY <1>2, <1>5, <2>1, <2>2 DEF IInv, Order, Frozen
  <2> QED  BY <1>2, <2>4, <2>5, <2>6, SnapshotsKept
<1> QED  BY <1>4, <1>5

\* The consumer takes an event from the mailbox.
LEMMA ReceiveStep ==
    ASSUME IInv, Receive
    PROVE  IInv'
<1>0. Balance
  BY DEF IInv
<1>1. box \in BoxType /\ seen \in SeenType /\ stats \in StatsType /\ cons \in ConsType
  BY DEF IInv, Typed
<1>2. /\ Head(box.queue) \in Kinds /\ Tail(box.queue) \in Seq(Kinds) /\ Len(box.queue) \in Nat
      /\ Len(Tail(box.queue)) = Len(box.queue) - 1 /\ Len(Tail(box.queue)) \in Nat
  BY <1>1, HeadTailProperties, LenProperties DEF Receive, BoxType
<1>3. /\ cons.at = "receive" /\ UNCHANGED <<stats, closing, closer, watch, lock, seen>>
      /\ cons' = [cons EXCEPT !.at = "count", !.event = Head(box.queue)]
      /\ box' = [box EXCEPT !.queue = Tail(box.queue)]
  BY DEF Receive
<1>4. cons' \in ConsType /\ cons'.at = "count" /\ cons'.last = cons.last
  BY <1>1, <1>2, <1>3, Zenon DEF ConsType
<1>5. /\ box' \in BoxType /\ box'.queue = Tail(box.queue) /\ box'.dropped = box.dropped
      /\ box'.filtered = box.filtered /\ box'.closed = box.closed
  BY <1>1, <1>2, <1>3 DEF BoxType
<1>6. ~stats.closed /\ closing # "done"
  BY <1>3 DEF IInv, Order
<1>7. Typed'
  BY <1>3, <1>4, <1>5 DEF IInv, Typed
<1>10. Numeric
  BY Numbers DEF IInv
<1>11. Waiting' = Waiting - 1
  BY <1>2, <1>5 DEF Waiting
<1>12. InHand = 0 /\ InHand' = 1 /\ Unwritten = 0 /\ Unwritten' = 0
  BY <1>3, <1>4, Zenon DEF InHand, Unwritten
<1>8. Balance'
  <2>1. seen.offered = seen.refused + box.filtered + box.dropped + (Waiting - 1) + 1
                         + stats.suppressed + stats.processed
    <3>1. seen.offered = seen.refused + box.filtered + box.dropped + Waiting + 0
                           + stats.suppressed + stats.processed
      BY <1>0, <1>12, Zenon DEF Balance
    <3> QED  BY <1>10, <3>1 DEF Numeric
  <2>2. /\ seen'.offered = seen.offered /\ seen'.refused = seen.refused /\ stats' = stats
        /\ seen'.reports = seen.reports /\ seen'.told = seen.told
    BY <1>3, Zenon
  <2>3. seen'.offered = seen'.refused + box'.filtered + box'.dropped + Waiting' + InHand'
                          + stats'.suppressed + stats'.processed
    BY <1>5, <1>11, <1>12, <2>1, <2>2, Zenon
  <2>4. /\ stats'.handled + stats'.logFailures + Unwritten' = stats'.processed + seen'.reports
        /\ seen'.told = cons'.last /\ cons'.last <= box'.dropped
        /\ cons'.last = 0 => seen'.reports = 0
    BY <1>0, <1>4, <1>5, <1>12, <2>2, Zenon DEF Balance
  <2> QED  BY <2>3, <2>4, Zenon DEF Balance
<1>9. Order' /\ Frozen
  BY <1>3, <1>4, <1>5, <1>6 DEF IInv, Order, Frozen
<1> QED  BY <1>3, <1>7, <1>8, <1>9, SnapshotsKept

\* A step of the consumer that leaves the mailbox alone: what it changes in the accounts.
LEMMA ConsumerStep ==
    ASSUME IInv, UNCHANGED <<box, closing, watch, lock>>,
           cons' \in ConsType, stats' \in StatsType, seen' \in SeenType,
           cons.at # "done", Balance',
           stats'.closed = stats.closed,
           cons'.at \in {"lastlook", "lastwarning", "done"} => box.closed /\ box.queue = <<>>,
           cons'.at \in {"lastwarning", "done"} => cons'.last = box.dropped
    PROVE  IInv'
<1>1. Typed'
  BY DEF IInv, Typed
<1>2. ~stats.closed /\ closing # "done"
  BY DEF IInv, Order
<1>3. Order' /\ Frozen
  BY <1>2 DEF IInv, Order, Frozen
<1> QED  BY <1>1, <1>3, SnapshotsKept

\* The consumer counts the event in its hand.
LEMMA CountStep ==
    ASSUME IInv, Count
    PROVE  IInv'
<1>0. Balance
  BY DEF IInv
<1>1. seen \in SeenType /\ stats \in StatsType /\ cons \in ConsType /\ cons.at = "count"
  BY DEF IInv, Typed, Count
<1>2. UNCHANGED <<box, closing, closer, watch, lock, seen>>
  BY DEF Count
<1>3. Numeric /\ Waiting' = Waiting
  BY <1>2, Numbers DEF IInv, Waiting
<1>4. CASE cons.event = "delta" \/ (cons.event = "progress" /\ ~stats.progress)
  <2>1. /\ stats' = [stats EXCEPT !.suppressed = stats.suppressed + 1]
        /\ cons' = [cons EXCEPT !.at = "look", !.event = None]
    BY <1>4 DEF Count
  <2>2. stats.suppressed + 1 \in Nat
    BY <1>3 DEF Numeric
  <2>3. /\ stats' \in StatsType /\ stats'.suppressed = stats.suppressed + 1 /\ stats'.processed = stats.processed
        /\ stats'.handled = stats.handled /\ stats'.logFailures = stats.logFailures /\ stats'.closed = stats.closed
    BY <1>1, <2>1, <2>2, Zenon DEF StatsType
  <2>4. cons' \in ConsType /\ cons'.at = "look" /\ cons'.last = cons.last
    BY <1>1, <2>1, Zenon DEF ConsType
  <2>5. Balance'
    BY <1>0, <1>1, <1>2, <1>3, <2>3, <2>4, SMTT(20) DEF Balance, InHand, Unwritten, Numeric
  <2> QED  BY <1>1, <1>2, <2>3, <2>4, <2>5, ConsumerStep
<1>5. CASE ~(cons.event = "delta" \/ (cons.event = "progress" /\ ~stats.progress))
  <2> DEFINE a == IF cons.event = "bad" THEN "undecoded" ELSE "emit"
  <2>1. /\ stats' = [stats EXCEPT !.processed = stats.processed + 1]
        /\ cons' = [cons EXCEPT !.at = a]
    BY <1>5 DEF Count
  <2>6. a \in {"undecoded", "emit"}
    OBVIOUS
  <2> HIDE DEF a
  <2>2. stats.processed + 1 \in Nat
    BY <1>3 DEF Numeric
  <2>3. /\ stats' \in StatsType /\ stats'.suppressed = stats.suppressed /\ stats'.processed = stats.processed + 1
        /\ stats'.handled = stats.handled /\ stats'.logFailures = stats.logFailures /\ stats'.closed = stats.closed
    BY <1>1, <2>1, <2>2, Zenon DEF StatsType
  <2>4. cons' \in ConsType /\ cons'.at = a /\ cons'.last = cons.last
    BY <1>1, <2>1, <2>6, Zenon DEF ConsType
  <2>5. Balance'
    BY <1>0, <1>1, <1>2, <1>3, <2>3, <2>4, <2>6, SMTT(20) DEF Balance, InHand, Unwritten, Numeric
  <2> QED  BY <1>1, <1>2, <2>3, <2>4, <2>5, <2>6, ConsumerStep
<1> QED  BY <1>4, <1>5

\* A payload that cannot be decoded is counted, and its record is still written.
LEMMA DecodeFailureStep ==
    ASSUME IInv, RecordDecodeFailure
    PROVE  IInv'
<1>0. Balance
  BY DEF IInv
<1>1. seen \in SeenType /\ stats \in StatsType /\ cons \in ConsType /\ cons.at = "undecoded"
  BY DEF IInv, Typed, RecordDecodeFailure
<1>2. /\ UNCHANGED <<box, closing, closer, watch, lock, seen>>
      /\ stats' = [stats EXCEPT !.decodeFailures = stats.decodeFailures + 1]
      /\ cons' = [cons EXCEPT !.at = "emit"]
  BY DEF RecordDecodeFailure
<1>3. Numeric /\ Waiting' = Waiting
  BY <1>2, Numbers DEF IInv, Waiting
<1>4. stats.decodeFailures + 1 \in Nat
  BY <1>3 DEF Numeric
<1>5. /\ stats' \in StatsType /\ stats'.suppressed = stats.suppressed /\ stats'.processed = stats.processed
      /\ stats'.handled = stats.handled /\ stats'.logFailures = stats.logFailures /\ stats'.closed = stats.closed
  BY <1>1, <1>2, <1>4, Zenon DEF StatsType
<1>6. cons' \in ConsType /\ cons'.at = "emit" /\ cons'.last = cons.last
  BY <1>1, <1>2, Zenon DEF ConsType
<1>7. Balance'
  BY <1>0, <1>1, <1>2, <1>3, <1>5, <1>6, SMTT(20) DEF Balance, InHand, Unwritten, Numeric
<1> QED  BY <1>1, <1>2, <1>5, <1>6, <1>7, ConsumerStep

\* The logger took one record or failed on it.
LEMMA OneRecord ==
    ASSUME stats \in StatsType, Numeric, NEW fails \in BOOLEAN
    PROVE  /\ Emitted(fails) \in StatsType /\ Emitted(fails).handled \in Nat /\ Emitted(fails).logFailures \in Nat
           /\ Emitted(fails).handled + Emitted(fails).logFailures = stats.handled + stats.logFailures + 1
           /\ Emitted(fails).suppressed = stats.suppressed /\ Emitted(fails).processed = stats.processed
           /\ Emitted(fails).closed = stats.closed
<1> DEFINE f == IF fails THEN stats.logFailures + 1 ELSE stats.logFailures
           h == IF fails THEN stats.handled ELSE stats.handled + 1
<1>1. Emitted(fails) = [stats EXCEPT !.logFailures = f, !.handled = h]
  BY DEF Emitted
<1>2. f \in Nat /\ h \in Nat /\ h + f = stats.handled + stats.logFailures + 1
  BY DEF Numeric
<1> HIDE DEF f, h
<1>3. /\ Emitted(fails) \in StatsType /\ Emitted(fails).handled = h /\ Emitted(fails).logFailures = f
      /\ Emitted(fails).suppressed = stats.suppressed /\ Emitted(fails).processed = stats.processed
      /\ Emitted(fails).closed = stats.closed
  BY <1>1, <1>2, Zenon DEF StatsType
<1> QED  BY <1>2, <1>3

\* The record of an event is written.
LEMMA EmitStep ==
    ASSUME IInv, NEW fails \in BOOLEAN, Emit(fails)
    PROVE  IInv'
<1>0. Balance
  BY DEF IInv
<1>1. seen \in SeenType /\ stats \in StatsType /\ cons \in ConsType /\ cons.at = "emit"
  BY DEF IInv, Typed, Emit
<1>2. /\ UNCHANGED <<box, closing, closer, watch, lock, seen>>
      /\ stats' = Emitted(fails) /\ cons' = [cons EXCEPT !.at = "look", !.event = None]
  BY DEF Emit
<1>3. Numeric /\ Waiting' = Waiting
  BY <1>2, Numbers DEF IInv, Waiting
<1>5. /\ stats' \in StatsType /\ stats'.suppressed = stats.suppressed /\ stats'.processed = stats.processed
      /\ stats'.handled + stats'.logFailures = stats.handled + stats.logFailures + 1 /\ stats'.closed = stats.closed
      /\ stats'.handled \in Nat /\ stats'.logFailures \in Nat
  BY <1>1, <1>2, <1>3, OneRecord
<1>6. cons' \in ConsType /\ cons'.at = "look" /\ cons'.last = cons.last
  BY <1>1, <1>2, Zenon DEF ConsType
<1>7. Balance'
  BY <1>0, <1>1, <1>2, <1>3, <1>5, <1>6, SMTT(20) DEF Balance, InHand, Unwritten, Numeric
<1> QED  BY <1>1, <1>2, <1>5, <1>6, <1>7, ConsumerStep

\* The report of drops is written.
LEMMA WarnStep ==
    ASSUME IInv, NEW fails \in BOOLEAN, Warn(fails)
    PROVE  IInv'
<1> DEFINE a == IF cons.at = "warning" THEN "receive" ELSE "done"
<1>0. Balance
  BY DEF IInv
<1>1. seen \in SeenType /\ stats \in StatsType /\ cons \in ConsType /\ cons.at \in {"warning", "lastwarning"}
  BY DEF IInv, Typed, Warn
<1>2. /\ UNCHANGED <<box, closing, closer, watch, lock, seen>>
      /\ stats' = Emitted(fails) /\ cons' = [cons EXCEPT !.at = a]
  BY DEF Warn
<1>3. Numeric /\ Waiting' = Waiting
  BY <1>2, Numbers DEF IInv, Waiting
<1>4. a \in {"receive", "done"} /\ (a = "done" => cons.at = "lastwarning")
  BY <1>1
<1> HIDE DEF a
<1>5. /\ stats' \in StatsType /\ stats'.suppressed = stats.suppressed /\ stats'.processed = stats.processed
      /\ stats'.handled + stats'.logFailures = stats.handled + stats.logFailures + 1 /\ stats'.closed = stats.closed
      /\ stats'.handled \in Nat /\ stats'.logFailures \in Nat
  BY <1>1, <1>2, <1>3, OneRecord
<1>6. cons' \in ConsType /\ cons'.at = a /\ cons'.last = cons.last
  BY <1>1, <1>2, <1>4, Zenon DEF ConsType
<1>7. Balance'
  BY <1>0, <1>1, <1>2, <1>3, <1>4, <1>5, <1>6, SMTT(20) DEF Balance, InHand, Unwritten, Numeric
<1>8. cons'.at \in {"lastlook", "lastwarning", "done"} =>
        box.closed /\ box.queue = <<>> /\ cons'.last = box.dropped
  BY <1>4, <1>6 DEF IInv, Order
<1> QED  BY <1>1, <1>2, <1>5, <1>6, <1>7, <1>8, ConsumerStep

\* The consumer looks at the drops.
LEMMA LookStep ==
    ASSUME IInv, NEW at, NEW next, Look(at, next),
           (at = "look" /\ next = "receive") \/ (at = "lastlook" /\ next = "done")
    PROVE  IInv'
<1>0. Balance
  BY DEF IInv
<1>1. seen \in SeenType /\ stats \in StatsType /\ cons \in ConsType /\ cons.at = at
  BY DEF IInv, Typed, Look
<1>2. UNCHANGED <<box, stats, closing, closer, watch, lock>>
  BY DEF Look
<1>3. Numeric /\ Waiting' = Waiting
  BY <1>2, Numbers DEF IInv, Waiting
<1>4. cons.at = "lastlook" => box.closed /\ box.queue = <<>>
  BY DEF IInv, Order
<1>5. CASE box.dropped <= cons.last
  <2>1. cons' = [cons EXCEPT !.at = next] /\ seen' = seen
    BY <1>5 DEF Look
  <2>2. cons' \in ConsType /\ cons'.at = next /\ cons'.last = cons.last
    BY <1>1, <2>1, Zenon DEF ConsType
  <2>4. cons'.last = box.dropped
    BY <1>0, <1>3, <1>5, <2>2 DEF Balance, Numeric
  <2>5. InHand = 0 /\ Unwritten = 0 /\ InHand' = 0 /\ Unwritten' = 0
    BY <1>1, <2>2 DEF InHand, Unwritten
  <2>3. Balance' /\ cons'.last = box.dropped
    BY <1>0, <1>2, <1>3, <2>1, <2>2, <2>4, <2>5 DEF Balance
  <2> QED  BY <1>1, <1>2, <1>4, <2>1, <2>2, <2>3, ConsumerStep
<1>6. CASE ~(box.dropped <= cons.last)
  <2> DEFINE a == IF next = "done" THEN "lastwarning" ELSE "warning"
             t == seen.told + (box.dropped - cons.last)
             r == seen.reports + 1
  <2>1. cons' = [cons EXCEPT !.at = a, !.last = box.dropped] /\ seen' = [seen EXCEPT !.told = t, !.reports = r]
    BY <1>6 DEF Look
  <2>2. t \in Nat /\ r \in Nat /\ box.dropped \in Nat
    BY <1>3, <1>6 DEF Numeric
  <2>3. a \in {"warning", "lastwarning"} /\ (a = "lastwarning" => at = "lastlook")
    OBVIOUS
  <2> HIDE DEF a, t, r
  <2>4. cons' \in ConsType /\ cons'.at = a /\ cons'.last = box.dropped
    BY <1>1, <2>1, <2>2, <2>3, Zenon DEF ConsType
  <2>5. /\ seen' \in SeenType /\ seen'.told = t /\ seen'.reports = r /\ seen'.offered = seen.offered
        /\ seen'.refused = seen.refused
    BY <1>1, <2>1, <2>2, Zenon DEF SeenType
  <2>6. Balance'
    BY <1>0, <1>1, <1>2, <1>3, <1>6, <2>3, <2>4, <2>5, SMTT(20) DEF Balance, InHand, Unwritten, Numeric, t, r
  <2> QED  BY <1>1, <1>2, <1>4, <2>3, <2>4, <2>5, <2>6, ConsumerStep
<1> QED  BY <1>5, <1>6

\* The mailbox is closed and empty.
LEMMA DrainedStep ==
    ASSUME IInv, Drained
    PROVE  IInv'
<1>0. Balance
  BY DEF IInv
<1>1. seen \in SeenType /\ stats \in StatsType /\ cons \in ConsType /\ cons.at = "receive"
  BY DEF IInv, Typed, Drained
<1>2. /\ UNCHANGED <<box, stats, closing, closer, watch, lock, seen>> /\ box.closed /\ box.queue = <<>>
      /\ cons' = [cons EXCEPT !.at = "lastlook"]
  BY DEF Drained
<1>3. Numeric /\ Waiting' = Waiting
  BY <1>2, Numbers DEF IInv, Waiting
<1>6. cons' \in ConsType /\ cons'.at = "lastlook" /\ cons'.last = cons.last
  BY <1>1, <1>2, Zenon DEF ConsType
<1>7. Balance'
  BY <1>0, <1>1, <1>2, <1>3, <1>6, SMTT(20) DEF Balance, InHand, Unwritten, Numeric
<1> QED  BY <1>1, <1>2, <1>6, <1>7, ConsumerStep

-----------------------------------------------------------------------------
\* Close closes the mailbox, once.
LEMMA CloseStep ==
    ASSUME IInv, NEW c \in Closers, Close(c)
    PROVE  IInv'
<1>1. box \in BoxType /\ UNCHANGED <<stats, cons, watch, lock, seen>>
  BY DEF IInv, Typed, Close
<1>2. CASE closing = "open"
  <2>1. closing' = "closed" /\ box' = [box EXCEPT !.closed = TRUE]
    BY <1>2 DEF Close
  <2>2. /\ box' \in BoxType /\ box'.closed /\ box'.queue = box.queue /\ box'.dropped = box.dropped
        /\ box'.filtered = box.filtered
    BY <1>1, <2>1, Zenon DEF BoxType
  <2>3. Typed'
    BY <1>1, <2>1, <2>2 DEF IInv, Typed
  <2>4. Balance'
    BY <1>1, <2>2 DEF IInv, Balance, InHand, Unwritten, Waiting
  <2>5. Order' /\ Frozen
    BY <1>1, <1>2, <2>1, <2>2 DEF IInv, Order, Frozen
  <2> QED  BY <1>1, <2>3, <2>4, <2>5, SnapshotsKept
<1>3. CASE closing # "open"
  <2>1. UNCHANGED <<box, closing>>
    BY <1>3 DEF Close
  <2>2. Typed' /\ Balance' /\ Order' /\ Frozen
    BY <1>1, <2>1 DEF IInv, Typed, Balance, Order, Frozen, InHand, Unwritten, Waiting
  <2> QED  BY <1>1, <2>2, SnapshotsKept
<1> QED  BY <1>2, <1>3

\* The accounts are closed after the consumer has ended.
LEMMA FinishCloseStep ==
    ASSUME IInv, FinishClose
    PROVE  IInv'
<1>1. /\ stats \in StatsType /\ UNCHANGED <<box, cons, watch, lock, seen>> /\ closing = "closed" /\ cons.at = "done"
      /\ closing' = "done" /\ stats' = [stats EXCEPT !.closed = TRUE]
  BY DEF IInv, Typed, FinishClose
<1>2. /\ stats' \in StatsType /\ stats'.suppressed = stats.suppressed /\ stats'.processed = stats.processed
      /\ stats'.handled = stats.handled /\ stats'.logFailures = stats.logFailures /\ stats'.closed
  BY <1>1, Zenon DEF StatsType
<1>3. Typed'
  BY <1>1, <1>2 DEF IInv, Typed
<1>4. Balance'
  BY <1>1, <1>2 DEF IInv, Balance, InHand, Unwritten, Waiting
<1>5. Order' /\ Frozen
  BY <1>1, <1>2 DEF IInv, Order, Frozen
<1> QED  BY <1>1, <1>3, <1>4, <1>5, SnapshotsKept

\* A step that changes none of the accounts keeps them.
LEMMA AccountsKept ==
    ASSUME IInv, UNCHANGED <<box, stats, cons, closing, watch, lock, seen>>
    PROVE  IInv'
<1>1. Typed' /\ Balance' /\ Order' /\ Frozen
  BY DEF IInv, Typed, Balance, Order, Frozen, InHand, Unwritten, Waiting
<1> QED  BY <1>1, SnapshotsKept

\* The first half of a snapshot, under the processor's lock.
LEMMA FilteredStep ==
    ASSUME None \notin Watchers, IInv, NEW w \in Watchers, SnapshotFiltered(w)
    PROVE  IInv'
<1> DEFINE n == seen.snapshots + 1
           s == [stats |-> stats, filtered |-> stats.suppressed + box.filtered, dropped |-> None]
<1>1. /\ Typed /\ lock = None /\ lock' = w /\ watch' = [watch EXCEPT ![w] = s]
      /\ seen' = [seen EXCEPT !.snapshots = n] /\ UNCHANGED <<box, stats, cons, closing>>
  BY DEF IInv, SnapshotFiltered
<1>2. n \in Nat
  BY <1>1 DEF Typed, SeenType
<1>3. Numeric
  BY <1>1, Numbers
<1>4. s \in WatchType /\ s.stats = stats /\ s.filtered = box.filtered + stats.suppressed
  BY <1>1, <1>3 DEF Typed, WatchType, Numeric
<1> HIDE DEF n, s
<1>5. /\ seen' \in SeenType /\ seen'.offered = seen.offered /\ seen'.refused = seen.refused
      /\ seen'.reports = seen.reports /\ seen'.told = seen.told
  BY <1>1, <1>2, Zenon DEF Typed, SeenType
<1>6. watch' \in [Watchers -> WatchType \cup {None}] /\ watch'[w] = s
  BY <1>1, <1>4 DEF Typed
<1>7. Typed' /\ Balance' /\ Order'
  BY <1>1, <1>5, <1>6 DEF IInv, Typed, Balance, Order, InHand, Unwritten, Waiting
<1>8. ASSUME NEW v \in Watchers  PROVE (lock' = v => watch'[v] \in WatchType) /\ Final(v)'
  <2>1. CASE v = w
    BY <1>1, <1>4, <1>6, <2>1 DEF Final
  <2>2. CASE v # w
    <3>1. watch'[v] = watch[v]
      BY <1>1, <2>2 DEF Typed
    <3> QED  BY <1>1, <2>2, <3>1 DEF IInv, Final
  <2> QED  BY <2>1, <2>2
<1> QED  BY <1>7, <1>8 DEF IInv

\* The second half: the drops as they are now.
LEMMA DroppedStep ==
    ASSUME None \notin Watchers, IInv, NEW w \in Watchers, SnapshotDropped(w)
    PROVE  IInv'
<1> DEFINE s == [watch[w] EXCEPT !.dropped = box.dropped]
<1>1. /\ Typed /\ lock = w /\ lock' = None /\ UNCHANGED <<box, stats, cons, closing, seen>>
      /\ watch' = [watch EXCEPT ![w] = s]
  BY DEF IInv, SnapshotDropped, Typed
<1>2. watch[w] \in WatchType /\ box.dropped \in Nat
  BY <1>1, Numbers DEF IInv, Numeric
<1>3. /\ s \in WatchType /\ s.stats = watch[w].stats /\ s.filtered = watch[w].filtered /\ s.dropped = box.dropped
  BY <1>2 DEF WatchType
<1> HIDE DEF s
<1>4. watch' \in [Watchers -> WatchType \cup {None}] /\ watch'[w] = s
  BY <1>1, <1>3 DEF Typed
<1>5. Typed' /\ Balance' /\ Order'
  BY <1>1, <1>4 DEF IInv, Typed, Balance, Order, InHand, Unwritten, Waiting
<1>6. ASSUME NEW v \in Watchers  PROVE (lock' = v => watch'[v] \in WatchType) /\ Final(v)'
  <2>1. CASE v = w
    <3>1. Final(w)
      BY DEF IInv
    <3> QED  BY <1>1, <1>3, <1>4, <2>1, <3>1 DEF Final
  <2>2. CASE v # w
    <3>1. watch'[v] = watch[v]
      BY <1>1, <2>2 DEF Typed
    <3> QED  BY <1>1, <2>2, <3>1 DEF IInv, Final
  <2> QED  BY <2>1, <2>2
<1> QED  BY <1>5, <1>6 DEF IInv

\* A watcher is done with its snapshot.
LEMMA ForgetStep ==
    ASSUME None \notin Watchers, IInv, NEW w \in Watchers, Forget(w)
    PROVE  IInv'
<1>1. /\ Typed /\ lock = None /\ UNCHANGED <<box, stats, cons, closing, seen, lock>>
      /\ watch' = [watch EXCEPT ![w] = None]
  BY DEF IInv, Forget
<1>2. watch' \in [Watchers -> WatchType \cup {None}] /\ watch'[w] = None
  BY <1>1 DEF Typed
<1>3. Typed' /\ Balance' /\ Order'
  BY <1>1, <1>2 DEF IInv, Typed, Balance, Order, InHand, Unwritten, Waiting
<1>4. ASSUME NEW v \in Watchers  PROVE (lock' = v => watch'[v] \in WatchType) /\ Final(v)'
  <2>1. CASE v = w
    BY <1>1, <1>2, <2>1 DEF Final
  <2>2. CASE v # w
    <3>1. watch'[v] = watch[v]
      BY <1>1, <2>2 DEF Typed
    <3> QED  BY <1>1, <2>2, <3>1 DEF IInv, Final
  <2> QED  BY <2>1, <2>2
<1> QED  BY <1>3, <1>4 DEF IInv

-----------------------------------------------------------------------------
\* The invariant says that the accounts balance: an ended consumer has told every drop, so a
\* closed log with neither a failure nor a drop has written one record for each event.
LEMMA IInvBalances ==
    ASSUME IInv
    PROVE  LogAccountsBalance
<1>1. Numeric /\ Balance /\ Order
  BY Numbers DEF IInv
<1>2. ASSUME NEW w \in Watchers, watch[w] # None, watch[w].stats.closed
      PROVE  /\ watch[w].stats = stats /\ watch[w].filtered = box.filtered + stats.suppressed
             /\ lock # w => /\ watch[w].dropped = box.dropped
                            /\ HealthContribution(watch[w]) = "healthy" => stats.handled = stats.processed /\ box.dropped = 0
  <2>1. Final(w)
    BY DEF IInv
  <2>2. watch[w].stats = stats /\ (lock # w => watch[w].dropped = box.dropped)
    BY <1>2, <2>1 DEF Final
  <2>3. stats.closed /\ cons.at = "done" /\ cons.last = box.dropped
    BY <1>1, <1>2, <2>2 DEF Order
  <2>4. ASSUME lock # w, HealthContribution(watch[w]) = "healthy"
        PROVE  stats.logFailures = 0 /\ box.dropped = 0
    BY <2>2, <2>4 DEF HealthContribution
  <2>5. stats.logFailures = 0 /\ box.dropped = 0 => stats.handled = stats.processed
    BY <1>1, <2>3 DEF Balance, Unwritten, Numeric
  <2> QED  BY <1>2, <2>1, <2>2, <2>4, <2>5 DEF Final
<1> QED  BY <1>1, <1>2 DEF LogAccountsBalance, Balance, Order, Waiting

\* LogAccountsBalance for every capacity: every event that a run offers the logging mailbox is in
\* exactly one account, every report is told once, and a closed snapshot is final.
THEOREM AccountsBalance ==
    ASSUME None \notin Watchers
    PROVE  Spec => []LogAccountsBalance
<1>1. Init => IInv
  BY InitIInv
<1>2. IInv /\ [Next]_vars => IInv'
  <2> SUFFICES ASSUME IInv, [Next]_vars PROVE IInv'
    OBVIOUS
  <2>1. ASSUME NEW kind \in Kinds, TryPublish(kind)  PROVE IInv'
    BY <2>1, TryPublishStep
  <2>2. CASE Receive
    BY <2>2, ReceiveStep
  <2>3. CASE Count
    BY <2>3, CountStep
  <2>4. CASE RecordDecodeFailure
    BY <2>4, DecodeFailureStep
  <2>5. CASE Drained
    BY <2>5, DrainedStep
  <2>6. ASSUME NEW fails \in BOOLEAN, Emit(fails)  PROVE IInv'
    BY <2>6, EmitStep
  <2>7. ASSUME NEW fails \in BOOLEAN, Warn(fails)  PROVE IInv'
    BY <2>7, WarnStep
  <2>8. CASE Look("look", "receive")
    BY <2>8, LookStep
  <2>9. CASE Look("lastlook", "done")
    BY <2>9, LookStep
  <2>10. ASSUME NEW c \in Closers, Close(c)  PROVE IInv'
    BY <2>10, CloseStep
  <2>11. ASSUME NEW c \in Closers, CloseReturns(c) \/ CloseCancelled(c)  PROVE IInv'
    BY <2>11, AccountsKept DEF CloseReturns, CloseCancelled
  <2>12. CASE FinishClose
    BY <2>12, FinishCloseStep
  <2>13. ASSUME NEW w \in Watchers, SnapshotFiltered(w)  PROVE IInv'
    BY <2>13, FilteredStep
  <2>14. ASSUME NEW w \in Watchers, SnapshotDropped(w)  PROVE IInv'
    BY <2>14, DroppedStep
  <2>15. ASSUME NEW w \in Watchers, Forget(w)  PROVE IInv'
    BY <2>15, ForgetStep
  <2>16. CASE UNCHANGED vars
    BY <2>16, AccountsKept DEF vars
  <2> QED
    BY <2>1, <2>2, <2>3, <2>4, <2>5, <2>6, <2>7, <2>8, <2>9, <2>10, <2>11, <2>12, <2>13, <2>14, <2>15, <2>16
       DEF Next, Consume
<1>3. IInv => LogAccountsBalance
  BY IInvBalances
<1> QED  BY <1>1, <1>2, <1>3, PTL DEF Spec
=============================================================================
