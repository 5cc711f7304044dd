--------------------------- MODULE EventLogProofs ---------------------------
(***************************************************************************)
(* The event log implements the ordered stream, for every window, every    *)
(* bound and any number of consumers.  The sum of the encoded sizes is a   *)
(* fold over a sequence, of which nothing is needed here: which entries    *)
(* are evicted and how long a page is does not matter for their order.     *)
(***************************************************************************)
EXTENDS EventLog, SequenceTheorems, TLAPS

\* A subscription, up to the sum of its queued bytes.
SubType(b) ==
    [pc : {"idle", "loop", "select", "sent", "done"}, queue : Seq(Entry), queuedBytes : {b},
     entry : Entry \cup {<<>>}, terminal : BOOLEAN, abort : BOOLEAN, cancelled : BOOLEAN,
     err : {"nil", "cancelled", "exhausted"}, errLast : Nat, lastDelivered : Nat]

\* The retained window ends at lastSequence without a gap.
Window ==
    /\ AfterSequence \in Nat /\ MaxSequence \in Nat
    /\ lastSequence \in AfterSequence .. MaxSequence
    /\ entries \in Seq(Entry)
    /\ Len(entries) <= lastSequence - AfterSequence
    /\ \A i \in 1 .. Len(entries) : entries[i].seq = lastSequence - Len(entries) + i
    /\ closed \in BOOLEAN

\* What a live subscription s holds for a consumer that holds r, in a log that ends at last.
Holding(s, r, last, cl) ==
    /\ s.lastDelivered <= last
    /\ \A i \in 1 .. Len(s.queue) : s.queue[i].seq = s.lastDelivered + i
    /\ ~s.abort => s.lastDelivered + Len(s.queue) = last
    /\ s.abort => s.terminal /\ s.err # "nil" /\ s.queue = <<>>
    /\ ~s.abort => s.err = "nil"
    /\ s.terminal /\ ~s.abort => cl
    /\ s.err = "exhausted" /\ s.pc # "sent" => s.errLast = s.lastDelivered
    /\ s.pc \in {"loop", "select"} => s.lastDelivered = r
    /\ s.pc \in {"select", "sent"} =>
        /\ s.entry \in Entry /\ s.entry.seq = s.lastDelivered + 1 /\ s.entry.seq <= last
        /\ ~s.abort => s.queue # <<>>
    /\ s.pc = "sent" => r = s.entry.seq

\* A subscription in every state.
Sound(s, r, last, cl) ==
    /\ s \in SubType(s.queuedBytes)
    /\ Live(s) => Holding(s, r, last, cl)
    /\ s.pc = "done" => s.lastDelivered = r /\ (s.err = "exhausted" => s.errLast = r)

IInv ==
    /\ Window
    /\ DOMAIN sub = Subscribers /\ sub = [c \in Subscribers |-> sub[c]]
    /\ received \in [Subscribers -> 0 .. MaxSequence]
    /\ \A c \in Subscribers : Sound(sub[c], received[c], lastSequence, closed)

-----------------------------------------------------------------------------
(* Subscriptions.                                                          *)

\* An ended subscription does not depend on the log.
LEMMA EndedIsSound ==
    ASSUME NEW s, NEW r, NEW last, NEW cl, NEW last2, NEW cl2, Sound(s, r, last, cl), ~Live(s)
    PROVE  Sound(s, r, last2, cl2)
  BY DEF Sound

\* The fields of a subscription.
LEMMA SubFields ==
    ASSUME NEW s, s \in SubType(s.queuedBytes)
    PROVE  /\ s.pc \in {"idle", "loop", "select", "sent", "done"} /\ s.queue \in Seq(Entry) /\ Len(s.queue) \in Nat
           /\ s.entry \in Entry \cup {<<>>} /\ s.terminal \in BOOLEAN /\ s.abort \in BOOLEAN
           /\ s.cancelled \in BOOLEAN /\ s.err \in {"nil", "cancelled", "exhausted"}
           /\ s.errLast \in Nat /\ s.lastDelivered \in Nat
  BY LenProperties DEF SubType

\* A new subscription with a replayed page.
LEMMA NewSub ==
    ASSUME NEW after \in Nat, NEW q \in Seq(Entry)
    PROVE  LET s == NewSubscription(after, q)
           IN  /\ s \in SubType(s.queuedBytes) /\ s.pc = "loop" /\ s.queue = q /\ ~s.terminal /\ ~s.abort
               /\ s.err = "nil" /\ s.lastDelivered = after /\ ~s.cancelled
  BY DEF NewSubscription, SubType

\* A subscription that was never made.
LEMMA IdleIsSound ==
    ASSUME NEW r, NEW last, NEW cl, AfterSequence \in Nat
    PROVE  Sound(Idle, r, last, cl) /\ Idle.pc = "idle"
<1>1. <<>> \in Seq(Entry)
  BY EmptySeq
<1>2. Idle \in SubType(Idle.queuedBytes) /\ Idle.pc = "idle"
  BY <1>1 DEF Idle, NewSubscription, SubType
<1> QED  BY <1>2 DEF Sound, Live

\* terminateLocked drops the queue and keeps the cursor.
LEMMA Terminates ==
    ASSUME NEW s, NEW err \in {"cancelled", "exhausted"}, s \in SubType(s.queuedBytes), ~s.terminal
    PROVE  LET t == Terminate(s, err)
           IN  /\ t \in SubType(t.queuedBytes) /\ t.pc = s.pc /\ t.queue = <<>> /\ t.entry = s.entry
               /\ t.terminal /\ t.abort /\ t.cancelled = s.cancelled /\ t.err = err
               /\ t.errLast = s.lastDelivered /\ t.lastDelivered = s.lastDelivered
<1>1. <<>> \in Seq(Entry)
  BY EmptySeq
<1> QED  BY <1>1 DEF Terminate, SubType

\* A consumer that terminateLocked ends has lost nothing it had not been told of.
LEMMA TerminateIsSound ==
    ASSUME NEW s, NEW r, NEW last \in Nat, NEW cl, NEW err \in {"cancelled", "exhausted"}, NEW last2 \in Nat,
           last <= last2, Sound(s, r, last, cl), Live(s), ~s.terminal
    PROVE  Sound(Terminate(s, err), r, last2, cl)
<1> DEFINE t == Terminate(s, err)
<1>1. /\ t \in SubType(t.queuedBytes) /\ t.pc = s.pc /\ t.queue = <<>> /\ t.entry = s.entry
      /\ t.terminal /\ t.abort /\ t.err = err
      /\ t.errLast = s.lastDelivered /\ t.lastDelivered = s.lastDelivered
  BY Terminates DEF Sound
<1> HIDE DEF t
<1>2. Holding(s, r, last, cl) /\ s.pc # "done" /\ s.lastDelivered \in Nat
  BY SubFields DEF Sound, Live
<1>3. Len(t.queue) = 0
  BY <1>1, EmptySeq
<1>4. s.entry \in Entry => s.entry.seq \in Int
  BY DEF Entry
<1>5. Holding(t, r, last2, cl)
  BY <1>1, <1>2, <1>3, <1>4 DEF Holding
<1> QED  BY <1>1, <1>2, <1>5 DEF Sound, t

\* finish keeps the queue; it is called when the log is closed.
LEMMA FinishIsSound ==
    ASSUME NEW s, NEW r, NEW last \in Nat, NEW cl, Sound(s, r, last, cl), Live(s)
    PROVE  Sound(Finish(s), r, last, TRUE) /\ Finish(s).pc = s.pc
<1> DEFINE t == Finish(s)
<1>1. s \in SubType(s.queuedBytes) /\ Holding(s, r, last, cl) /\ s.pc # "done"
  BY DEF Sound, Live
<1>2. /\ t \in SubType(t.queuedBytes) /\ t.pc = s.pc /\ t.queue = s.queue /\ t.entry = s.entry
      /\ t.terminal /\ t.abort = s.abort /\ t.err = s.err
      /\ t.errLast = s.errLast /\ t.lastDelivered = s.lastDelivered
  BY <1>1 DEF Finish, SubType
<1> HIDE DEF t
<1>3. Holding(t, r, last, TRUE)
  BY <1>1, <1>2 DEF Holding
<1> QED  BY <1>1, <1>2, <1>3 DEF Sound, t

\* offer while the log is open: the next event is queued at the end, or the consumer is cut off.
LEMMA OfferIsSound ==
    ASSUME NEW s, NEW r, NEW last \in Nat, NEW e \in Entry, e.seq = last + 1,
           Sound(s, r, last, FALSE), Live(s)
    PROVE  Sound(Offer(s, e), r, last + 1, FALSE) /\ Offer(s, e).pc = s.pc
<1>1. s \in SubType(s.queuedBytes) /\ Holding(s, r, last, FALSE) /\ s.pc # "done"
  BY DEF Sound, Live
<1>2. s.lastDelivered \in Nat /\ Len(s.queue) \in Nat /\ s.queue \in Seq(Entry)
  BY <1>1, SubFields
<1>3. s.entry \in Entry => s.entry.seq \in Int
  BY DEF Entry
<1>4. CASE s.terminal
  <2>1. Offer(s, e) = s
    BY <1>4 DEF Offer
  <2>2. Holding(s, r, last + 1, FALSE)
    BY <1>1, <1>2, <1>3, <1>4 DEF Holding
  <2> QED  BY <2>1, <2>2, <1>1 DEF Sound
<1>5. CASE ~s.terminal /\ Offer(s, e) = Terminate(s, "exhausted")
  <2>1. Sound(Terminate(s, "exhausted"), r, last + 1, FALSE)
    <3>1. last + 1 \in Nat /\ last <= last + 1
      OBVIOUS
    <3> QED  BY <1>5, <3>1, TerminateIsSound, Zenon
  <2>2. Terminate(s, "exhausted").pc = s.pc
    BY <1>1, <1>5, Terminates
  <2> QED  BY <1>5, <2>1, <2>2
<1>6. CASE ~s.terminal /\ Offer(s, e) = [s EXCEPT !.queue = Append(@, e), !.queuedBytes = @ + e.bytes]
  <2> DEFINE t == Offer(s, e)
  <2>1. Append(s.queue, e) \in Seq(Entry)
    BY <1>2, AppendProperties
  <2>2. /\ t \in SubType(t.queuedBytes) /\ t.pc = s.pc /\ t.queue = Append(s.queue, e) /\ t.entry = s.entry
        /\ ~t.terminal /\ t.abort = s.abort /\ t.err = s.err
        /\ t.errLast = s.errLast /\ t.lastDelivered = s.lastDelivered
    BY <1>1, <1>6, <2>1 DEF SubType
  <2> HIDE DEF t
  <2>3. /\ Len(t.queue) = Len(s.queue) + 1 /\ t.queue # <<>>
        /\ \A i \in 1 .. Len(s.queue) : t.queue[i] = s.queue[i]
        /\ t.queue[Len(s.queue) + 1] = e
    BY <1>2, <2>2, AppendProperties
  <2>4. ~s.abort /\ s.lastDelivered + Len(s.queue) = last
    BY <1>1, <1>6 DEF Holding
  <2>5. ASSUME NEW i \in 1 .. Len(t.queue)  PROVE  t.queue[i].seq = t.lastDelivered + i
    <3>1. CASE i \in 1 .. Len(s.queue)
      BY <1>1, <2>2, <2>3, <3>1 DEF Holding
    <3>2. CASE i = Len(s.queue) + 1
      BY <1>2, <2>2, <2>3, <2>4, <3>2
    <3> QED  BY <1>2, <2>3, <3>1, <3>2
  <2>6. t.lastDelivered <= last + 1 /\ t.lastDelivered + Len(t.queue) = last + 1
    <3> DEFINE d == s.lastDelivered  n == Len(s.queue)  m == Len(t.queue)
    <3>1. d \in Nat /\ n \in Nat /\ m = n + 1 /\ d + n = last /\ t.lastDelivered = d
      BY <1>2, <2>2, <2>3, <2>4
    <3>2. t.lastDelivered + Len(t.queue) = d + m
      BY <3>1
    <3> HIDE DEF d, n, m
    <3>3. d <= last + 1 /\ d + m = last + 1
      BY <3>1
    <3> QED  BY <3>1, <3>2, <3>3
  <2>7. t.pc \in {"select", "sent"} =>
            t.entry \in Entry /\ t.entry.seq = t.lastDelivered + 1 /\ t.entry.seq <= last + 1
    BY <1>1, <1>2, <1>3, <2>2 DEF Holding
  <2>8. /\ ~t.abort /\ t.err = "nil" /\ ~t.terminal
        /\ t.pc \in {"loop", "select"} => t.lastDelivered = r
        /\ t.pc = "sent" => r = t.entry.seq
    BY <1>1, <2>2, <2>4 DEF Holding
  <2>9. Holding(t, r, last + 1, FALSE)
    BY <2>3, <2>5, <2>6, <2>7, <2>8 DEF Holding
  <2> QED  BY <1>1, <2>2, <2>9 DEF Sound, t
<1> QED  BY <1>4, <1>5, <1>6 DEF Offer

\* After the send: the cursor moves to the event that was taken, and the queue follows it.
LEMMA SentIsSound ==
    ASSUME NEW s, NEW r \in Nat, NEW last \in Nat, NEW cl, Sound(s, r, last, cl), s.pc = "sent"
    PROVE  Sound(Sent(s), r, last, cl) /\ Sent(s).pc = "loop"
<1>1. s \in SubType(s.queuedBytes) /\ Holding(s, r, last, cl)
  BY DEF Sound, Live
<1>2. s.lastDelivered \in Nat /\ Len(s.queue) \in Nat /\ s.queue \in Seq(Entry) /\ s.abort \in BOOLEAN
  BY <1>1, SubFields
<1>3. s.entry.seq = r /\ r = s.lastDelivered + 1 /\ r <= last /\ (~s.abort => s.queue # <<>>) /\ (s.abort => s.queue = <<>>)
  BY <1>1 DEF Holding
<1> DEFINE popped == s.queue # <<>> /\ s.queue[1].seq = s.entry.seq
           q == IF popped THEN Tail(s.queue) ELSE s.queue
           t == Sent(s)
<1>4. popped <=> ~s.abort
  <2>1. CASE s.abort
    BY <2>1, <1>3
  <2>2. CASE ~s.abort
    <3>1. 1 \in 1 .. Len(s.queue)
      BY <1>2, <1>3, <2>2, EmptySeq
    <3> QED  BY <1>1, <1>2, <1>3, <2>2, <3>1 DEF Holding
  <2> QED  BY <2>1, <2>2, <1>2
<1>5. q \in Seq(Entry) /\ Len(q) = (IF s.abort THEN 0 ELSE Len(s.queue) - 1)
      /\ \A i \in 1 .. Len(q) : i + 1 \in 1 .. Len(s.queue) /\ q[i] = s.queue[i + 1]
  <2>1. CASE s.abort
    BY <1>2, <1>3, <1>4, <2>1, EmptySeq
  <2>2. CASE ~s.abort
    BY <1>2, <1>3, <1>4, <2>2, HeadTailProperties, EmptySeq
  <2> QED  BY <2>1, <2>2, <1>2
<1> HIDE DEF popped
<1>6. /\ t \in SubType(t.queuedBytes) /\ t.pc = "loop" /\ t.queue = q
      /\ t.terminal = s.terminal /\ t.abort = s.abort /\ t.err = s.err
      /\ (s.err = "exhausted" => t.errLast = r) /\ t.lastDelivered = r
  <2>1. t = [s EXCEPT !.pc = "loop", !.entry = <<>>, !.queue = q,
                      !.queuedBytes = IF popped THEN @ - s.entry.bytes ELSE @,
                      !.lastDelivered = r,
                      !.errLast = IF s.err = "exhausted" THEN r ELSE @]
    BY <1>1, <1>3 DEF Sent, popped, SubType
  <2> HIDE DEF t, q
  <2> QED  BY <1>1, <1>5, <2>1 DEF SubType
<1> HIDE DEF t, q
<1>7. \A i \in 1 .. Len(t.queue) : t.queue[i].seq = t.lastDelivered + i
  <2>1. \A j \in 1 .. Len(s.queue) : s.queue[j].seq = s.lastDelivered + j
    BY <1>1 DEF Holding
  <2>2. ASSUME NEW i \in 1 .. Len(q)  PROVE  q[i].seq = r + i
    <3>1. i + 1 \in 1 .. Len(s.queue) /\ q[i] = s.queue[i + 1]
      BY <1>5
    <3>2. s.queue[i + 1].seq = s.lastDelivered + (i + 1)
      BY <2>1, <3>1
    <3>3. i \in Int
      BY <1>5
    <3> DEFINE d == s.lastDelivered
    <3>4. d \in Nat /\ r = d + 1
      BY <1>2, <1>3
    <3>5. q[i].seq = d + (i + 1)
      BY <3>1, <3>2
    <3> HIDE DEF d
    <3>6. d + (i + 1) = r + i
      BY <3>3, <3>4
    <3> QED  BY <3>5, <3>6
  <2> QED  BY <1>6, <2>2
<1>8. ~t.abort => t.lastDelivered + Len(t.queue) = last
  BY <1>1, <1>2, <1>3, <1>5, <1>6 DEF Holding
<1>9. t.abort => t.terminal /\ t.err # "nil" /\ t.queue = <<>>
  BY <1>1, <1>2, <1>5, <1>6, EmptySeq DEF Holding
<1>10. Holding(t, r, last, cl)
  BY <1>1, <1>3, <1>6, <1>7, <1>8, <1>9 DEF Holding
<1> QED  BY <1>6, <1>10 DEF Sound, t

-----------------------------------------------------------------------------
(* The retained window and its pages.                                      *)

\* The sequence before the window.
Base == lastSequence - Len(entries)

\* The numbers of the window.
LEMMA WindowNumbers ==
    ASSUME Window
    PROVE  /\ Len(entries) \in Nat /\ lastSequence \in Nat /\ Base \in Nat
           /\ lastSequence = Base + Len(entries) /\ AfterSequence <= Base
           /\ \A i \in 1 .. Len(entries) : entries[i] \in Entry /\ entries[i].seq = Base + i
<1>1. Len(entries) \in Nat
  BY LenProperties DEF Window
<1> DEFINE n == Len(entries)
<1>2. /\ n \in Nat /\ AfterSequence \in Nat /\ lastSequence \in Int /\ AfterSequence <= lastSequence
      /\ n <= lastSequence - AfterSequence
  BY <1>1 DEF Window
<1>3. Base = lastSequence - n
  BY DEF Base
<1>4. \A i \in 1 .. Len(entries) : entries[i] \in Entry /\ entries[i].seq = Base + i
  BY ElementOfSeq DEF Window, Base
<1> HIDE DEF n
<1>5. lastSequence \in Nat /\ Base \in Nat /\ lastSequence = Base + n /\ AfterSequence <= Base
  BY <1>2, <1>3
<1> QED  BY <1>1, <1>4, <1>5 DEF n

\* A part of the window has no gap either.
LEMMA WindowPart ==
    ASSUME Window, NEW i \in Nat, NEW n \in Nat, i + n <= Len(entries)
    PROVE  /\ SubSeq(entries, i + 1, i + n) \in Seq(Entry)
           /\ Len(SubSeq(entries, i + 1, i + n)) = n
           /\ \A j \in 1 .. n : SubSeq(entries, i + 1, i + n)[j].seq = Base + i + j
<1> DEFINE p == SubSeq(entries, i + 1, i + n)
           size == Len(entries)
<1>1. size \in Nat /\ Base \in Nat /\ i + n <= size
  BY WindowNumbers
<1>2. \A j \in 1 .. size : entries[j] \in Entry /\ entries[j].seq = Base + j
  BY WindowNumbers
<1> HIDE DEF size
<1>3. (i + 1) .. (i + n) \subseteq 1 .. size
  BY <1>1
<1>4. \A j \in (i + 1) .. (i + n) : entries[j] \in Entry
  BY <1>2, <1>3
<1>5. i + 1 \in Int /\ i + n \in Int
  OBVIOUS
<1>6. /\ p \in Seq(Entry)
      /\ Len(p) = IF i + 1 <= i + n THEN (i + n) - (i + 1) + 1 ELSE 0
      /\ \A j \in 1 .. (i + n) - (i + 1) + 1 : p[j] = entries[(i + 1) + j - 1]
  BY <1>4, <1>5, SubSeqProperties
<1> HIDE DEF p
<1>7. Len(p) = n
  BY <1>6
<1>8. ASSUME NEW j \in 1 .. n  PROVE  p[j].seq = Base + i + j
  <2>1. p[j] = entries[i + j] /\ i + j \in 1 .. size
    BY <1>1, <1>6
  <2>2. entries[i + j].seq = Base + (i + j)
    BY <1>2, <2>1
  <2> QED  BY <1>1, <2>1, <2>2
<1> QED  BY <1>6, <1>7, <1>8 DEF p

\* A cursor that is not outside stands in the window, from before its first entry to its end.
LEMMA CursorInWindow ==
    ASSUME Window, NEW after \in Nat, ~CursorOutside(after)
    PROVE  Base <= after /\ after <= lastSequence
<1>1. CASE entries = <<>>
  <2>1. Len(entries) = 0
    BY <1>1, EmptySeq
  <2>2. Base = lastSequence /\ lastSequence \in Nat
    BY <2>1, WindowNumbers DEF Base
  <2> QED  BY <1>1, <2>2 DEF CursorOutside, Earliest
<1>2. CASE entries # <<>>
  <2>1. 1 \in 1 .. Len(entries)
    BY <1>2, EmptySeq, WindowNumbers DEF Window
  <2>2. Earliest = Base + 1
    BY <1>2, <2>1, WindowNumbers DEF Earliest
  <2> QED  BY <2>2, WindowNumbers DEF CursorOutside
<1> QED  BY <1>1, <1>2

\* A page starts right after its cursor, has no gap and stays within the log.
LEMMA PageFollows ==
    ASSUME Window, NEW after \in Nat, ~CursorOutside(after), NEW maxEvents, NEW maxBytes,
           NEW i \in 0 .. Len(entries), NEW n \in 0 .. Len(entries), PageAt(i, n, after, maxEvents, maxBytes)
    PROVE  LET page == SubSeq(entries, i + 1, i + n)
           IN  /\ page \in Seq(Entry) /\ Len(page) = n
               /\ \A j \in 1 .. n : page[j].seq = after + j
               /\ PageLast(after, page) = after + n
               /\ after + n <= lastSequence
<1> DEFINE page == SubSeq(entries, i + 1, i + n)
           size == Len(entries)
<1>1. /\ size \in Nat /\ Base \in Nat /\ lastSequence = Base + size /\ lastSequence \in Nat
      /\ i \in 0 .. size /\ n \in 0 .. size
  BY WindowNumbers
<1>2. i + n <= size /\ \A j \in 1 .. size : entries[j].seq = Base + j /\ (entries[j].seq <= after <=> j <= i)
  <2>1. i + n <= size /\ \A j \in DOMAIN entries : entries[j].seq <= after <=> j <= i
    BY Zenon DEF PageAt
  <2>2. DOMAIN entries = 1 .. size
    BY LenProperties DEF Window
  <2>3. \A j \in 1 .. size : entries[j].seq = Base + j
    BY WindowNumbers
  <2> QED  BY <2>1, <2>2, <2>3, Zenon
<1>3. Base <= after /\ after <= lastSequence
  BY CursorInWindow
<1>4. /\ page \in Seq(Entry) /\ Len(page) = n
      /\ \A j \in 1 .. n : page[j].seq = Base + i + j
  <2>1. i \in Nat /\ n \in Nat
    BY <1>1
  <2>2. i + n <= Len(entries)
    BY <1>2
  <2> QED  BY <2>1, <2>2, WindowPart, Zenon
<1> HIDE DEF page, size
<1>5. \A j \in 1 .. size : Base + j <= after <=> j <= i
  BY <1>2
<1>6. after = Base + i
  <2>1. i > 0 => Base + i <= after
    BY <1>1, <1>5
  <2>2. i < size => ~(Base + (i + 1) <= after)
    BY <1>1, <1>5
  <2> QED  BY <1>1, <1>3, <2>1, <2>2
<1>7. \A j \in 1 .. n : page[j].seq = after + j
  BY <1>4, <1>6
<1>8. PageLast(after, page) = after + n
  <2>1. CASE n = 0
    <3>1. page = <<>>
      BY <1>4, <2>1, EmptySeq
    <3> QED  BY <2>1, <3>1 DEF PageLast
  <2>2. CASE n # 0
    <3>1. page # <<>> /\ n \in 1 .. n
      BY <1>1, <1>4, <2>2, EmptySeq
    <3> QED  BY <1>4, <1>7, <3>1 DEF PageLast
  <2> QED  BY <2>1, <2>2
<1>9. after + n <= lastSequence
  BY <1>1, <1>2, <1>6
<1> QED  BY <1>4, <1>7, <1>8, <1>9 DEF page

\* The cursor of an OutOfRangeError lies in the log.
LEMMA RecoveryInLog ==
    ASSUME Window, NEW after \in Nat
    PROVE  RecoveryAfter(after) \in 0 .. lastSequence
<1>1. CASE entries = <<>>
  BY <1>1, WindowNumbers DEF RecoveryAfter, Earliest
<1>2. CASE entries # <<>>
  <2>1. 1 \in 1 .. Len(entries)
    BY <1>2, EmptySeq, WindowNumbers DEF Window
  <2>2. Earliest = Base + 1
    BY <1>2, <2>1, WindowNumbers DEF Earliest
  <2> DEFINE size == Len(entries)
  <2>3. size \in Nat /\ Base \in Nat /\ lastSequence = Base + size
    BY WindowNumbers
  <2> HIDE DEF size
  <2> QED  BY <2>2, <2>3 DEF RecoveryAfter
<1> QED  BY <1>1, <1>2

-----------------------------------------------------------------------------
(* The steps of one subscription.                                          *)

\* A new subscription whose replay reaches the end of the log.
LEMMA NewIsSound ==
    ASSUME NEW after \in Nat, NEW q \in Seq(Entry), NEW last \in Nat, NEW cl, after + Len(q) = last,
           \A j \in 1 .. Len(q) : q[j].seq = after + j
    PROVE  Sound(NewSubscription(after, q), after, last, cl) /\ NewSubscription(after, q).pc = "loop"
<1> DEFINE s == NewSubscription(after, q)
<1>1. /\ s \in SubType(s.queuedBytes) /\ s.pc = "loop" /\ s.queue = q /\ ~s.terminal /\ ~s.abort
      /\ s.err = "nil" /\ s.lastDelivered = after
  BY NewSub
<1> HIDE DEF s
<1>2. after <= last
  <2> DEFINE n == Len(q)
  <2>1. n \in Nat /\ after + n = last
    BY LenProperties
  <2> HIDE DEF n
  <2> QED  BY <2>1
<1>3. Holding(s, after, last, cl)
  BY <1>1, <1>2 DEF Holding
<1> QED  BY <1>1, <1>3 DEF Sound, s

\* The end of the consumer's context alone.
LEMMA CancelIsSound ==
    ASSUME NEW s, NEW r, NEW last, NEW cl, Sound(s, r, last, cl), Live(s)
    PROVE  LET t == [s EXCEPT !.cancelled = TRUE]
           IN  Sound(t, r, last, cl) /\ t.pc = s.pc
<1> DEFINE t == [s EXCEPT !.cancelled = TRUE]
<1>1. s \in SubType(s.queuedBytes) /\ Holding(s, r, last, cl) /\ s.pc # "done"
  BY DEF Sound, Live
<1>2. /\ t \in SubType(t.queuedBytes) /\ t.pc = s.pc /\ t.queue = s.queue /\ t.entry = s.entry
      /\ t.terminal = s.terminal /\ t.abort = s.abort /\ t.err = s.err
      /\ t.errLast = s.errLast /\ t.lastDelivered = s.lastDelivered
  BY <1>1 DEF SubType
<1> HIDE DEF t
<1>3. Holding(t, r, last, cl)
  BY <1>1, <1>2 DEF Holding
<1> QED  BY <1>1, <1>2, <1>3 DEF Sound, t

\* The head of the queue goes into the select.
LEMMA SelectIsSound ==
    ASSUME NEW s, NEW r, NEW last \in Nat, NEW cl, Sound(s, r, last, cl), s.pc = "loop", s.queue # <<>>
    PROVE  LET t == [s EXCEPT !.pc = "select", !.entry = s.queue[1]]
           IN  Sound(t, r, last, cl) /\ t.pc = "select"
<1> DEFINE e == s.queue[1]
           t == [s EXCEPT !.pc = "select", !.entry = e]
<1>1. s \in SubType(s.queuedBytes) /\ Holding(s, r, last, cl)
  BY DEF Sound, Live
<1>2. s.queue \in Seq(Entry) /\ Len(s.queue) \in Nat /\ s.lastDelivered \in Nat
  BY <1>1, SubFields
<1>3. 1 \in 1 .. Len(s.queue)
  BY <1>2, EmptySeq
<1>4. e \in Entry /\ e.seq = s.lastDelivered + 1
  BY <1>1, <1>2, <1>3, ElementOfSeq DEF Holding
<1> HIDE DEF e
<1>5. /\ t \in SubType(t.queuedBytes) /\ t.pc = "select" /\ t.queue = s.queue /\ t.entry = e
      /\ t.terminal = s.terminal /\ t.abort = s.abort /\ t.err = s.err
      /\ t.errLast = s.errLast /\ t.lastDelivered = s.lastDelivered
  BY <1>1, <1>4 DEF SubType
<1> HIDE DEF t
<1>6. ~s.abort
  BY <1>1 DEF Holding
<1>7. s.lastDelivered + 1 <= last
  <2> DEFINE n == Len(s.queue)  d == s.lastDelivered
  <2>1. n \in Nat /\ n >= 1 /\ d \in Nat /\ d + n = last
    BY <1>1, <1>2, <1>3, <1>6 DEF Holding
  <2> HIDE DEF n, d
  <2>2. d + 1 <= last
    BY <2>1
  <2> QED  BY <2>2 DEF d
<1>8. Holding(t, r, last, cl)
  BY <1>1, <1>4, <1>5, <1>6, <1>7 DEF Holding
<1> QED  BY <1>5, <1>8 DEF Sound, t, e

\* The consumer takes the selected event: it is the next one.
LEMMA TakenIsNext ==
    ASSUME NEW s, NEW r, NEW last \in Nat, NEW cl, Sound(s, r, last, cl), s.pc = "select"
    PROVE  LET t == [s EXCEPT !.pc = "sent"]
           IN  /\ Sound(t, s.entry.seq, last, cl) /\ t.pc = "sent"
               /\ s.entry \in Entry /\ s.entry.seq = r + 1 /\ r < last /\ r \in Nat
<1> DEFINE t == [s EXCEPT !.pc = "sent"]
<1>1. s \in SubType(s.queuedBytes) /\ Holding(s, r, last, cl)
  BY DEF Sound, Live
<1>2. /\ t \in SubType(t.queuedBytes) /\ t.pc = "sent" /\ t.queue = s.queue /\ t.entry = s.entry
      /\ t.terminal = s.terminal /\ t.abort = s.abort /\ t.err = s.err
      /\ t.errLast = s.errLast /\ t.lastDelivered = s.lastDelivered
  BY <1>1 DEF SubType
<1> HIDE DEF t
<1>3. s.entry \in Entry /\ s.entry.seq = r + 1 /\ s.entry.seq <= last /\ r = s.lastDelivered
  BY <1>1 DEF Holding
<1>4. r \in Nat
  BY <1>1, <1>3, SubFields
<1>5. Holding(t, s.entry.seq, last, cl)
  BY <1>1, <1>2 DEF Holding
<1>6. r < last
  BY <1>3, <1>4
<1> QED  BY <1>2, <1>3, <1>4, <1>5, <1>6 DEF Sound, t

\* The delivery goroutine returns at the head of its loop or from the select.
LEMMA DoneIsSound ==
    ASSUME NEW s, NEW r, NEW last, NEW cl, Sound(s, r, last, cl), s.pc \in {"loop", "select"}
    PROVE  LET t == [s EXCEPT !.pc = "done", !.entry = <<>>]
           IN  Sound(t, r, last, cl) /\ t.pc = "done" /\ t.err = s.err /\ t.cancelled = s.cancelled
<1> DEFINE t == [s EXCEPT !.pc = "done", !.entry = <<>>]
<1>1. s \in SubType(s.queuedBytes) /\ Holding(s, r, last, cl)
  BY DEF Sound, Live
<1>2. /\ t \in SubType(t.queuedBytes) /\ t.pc = "done" /\ t.err = s.err /\ t.cancelled = s.cancelled
      /\ t.errLast = s.errLast /\ t.lastDelivered = s.lastDelivered
  BY <1>1 DEF SubType
<1> HIDE DEF t
<1> QED  BY <1>1, <1>2 DEF Sound, Holding, Live, t

-----------------------------------------------------------------------------
(* Steps of the log.                                                       *)

\* What a consumer can tell, for all of them.
StreamMap == [c \in Subscribers |-> StreamOf(sub[c])]

\* StreamOf of each pc.
LEMMA StreamCases ==
    ASSUME NEW s
    PROVE  /\ s.pc = "idle" => StreamOf(s) = "off"
           /\ Live(s) => StreamOf(s) = "on"
           /\ s.pc = "done" => StreamOf(s) \in {"clean", "broken"}
           /\ s.pc = "done" /\ StreamOf(s) = "clean" => s.err = "nil" /\ ~s.cancelled
  BY DEF StreamOf, Live

\* A consumer without a live subscription is not "on".
LEMMA NotLiveNotOn ==
    ASSUME NEW s, NEW r, NEW last, NEW cl, Sound(s, r, last, cl), ~Live(s)
    PROVE  StreamOf(s) # "on"
<1>1. s.pc \in {"idle", "loop", "select", "sent", "done"}
  BY SubFields DEF Sound
<1> QED  BY <1>1, StreamCases DEF Live

\* One subscription changes.
LEMMA StreamStep ==
    ASSUME IInv, NEW c \in Subscribers, NEW t, sub' = [sub EXCEPT ![c] = t]
    PROVE  /\ StreamMap' = [StreamMap EXCEPT ![c] = StreamOf(t)]
           /\ StreamMap[c] = StreamOf(sub[c])
           /\ StreamOf(t) = StreamOf(sub[c]) => StreamMap' = StreamMap
  BY DEF IInv, StreamMap

\* A step of one consumer, and what it was sent ...
LEMMA OneSub ==
    ASSUME IInv, NEW c \in Subscribers, NEW t, NEW r \in 0 .. MaxSequence,
           Sound(t, r, lastSequence, closed), sub' = [sub EXCEPT ![c] = t],
           received' = [received EXCEPT ![c] = r], UNCHANGED <<entries, lastSequence, closed>>
    PROVE  IInv'
<1>1. Window'
  BY DEF IInv, Window
<1>2. received' \in [Subscribers -> 0 .. MaxSequence] /\ received'[c] = r /\ sub'[c] = t
  BY DEF IInv
<1>3. DOMAIN sub' = Subscribers /\ sub' = [d \in Subscribers |-> sub'[d]]
  BY DEF IInv
<1>4. ASSUME NEW d \in Subscribers  PROVE  Sound(sub'[d], received'[d], lastSequence', closed')
  <2>1. CASE d = c
    BY <1>2, <2>1
  <2>2. CASE d # c
    <3>1. sub'[d] = sub[d] /\ received'[d] = received[d]
      BY <2>2 DEF IInv
    <3> QED  BY <3>1 DEF IInv
  <2> QED  BY <2>1, <2>2
<1> QED  BY <1>1, <1>2, <1>3, <1>4 DEF IInv

\* ... or of the consumer alone.
LEMMA OneSubOnly ==
    ASSUME IInv, NEW c \in Subscribers, NEW t, Sound(t, received[c], lastSequence, closed),
           sub' = [sub EXCEPT ![c] = t], UNCHANGED <<entries, lastSequence, closed, received>>
    PROVE  IInv'
<1>1. received[c] \in 0 .. MaxSequence /\ received = [received EXCEPT ![c] = received[c]]
  BY DEF IInv
<1> QED  BY <1>1, OneSub, Zenon

\* What the steps of one consumer start from.
LEMMA SubOf ==
    ASSUME IInv, NEW c \in Subscribers
    PROVE  /\ Sound(sub[c], received[c], lastSequence, closed)
           /\ received[c] \in 0 .. MaxSequence /\ received[c] \in Nat
           /\ lastSequence \in Nat /\ lastSequence <= MaxSequence /\ AfterSequence \in Nat /\ MaxSequence \in Nat
           /\ closed \in BOOLEAN /\ Window
<1>1. /\ Window /\ Sound(sub[c], received[c], lastSequence, closed) /\ received[c] \in 0 .. MaxSequence
  BY DEF IInv
<1> QED  BY <1>1 DEF Window

\* Append publishes the next event of the stream.
LEMMA AppendStep ==
    ASSUME IInv, NEW size \in Sizes, NEW terminal \in BOOLEAN, AppendEvent(size, terminal)
    PROVE  IInv' /\ Stream!Publish
<1> DEFINE e == [seq |-> lastSequence + 1, bytes |-> size, terminal |-> terminal]
           n == Len(entries)
<1>1. PICK k \in 0 .. Len(entries) :
        /\ entries' = Append(SubSeq(entries, k + 1, Len(entries)), e)
        /\ sub' = [c \in Subscribers |-> IF Live(sub[c]) THEN Offer(sub[c], e) ELSE sub[c]]
  BY Zenon DEF AppendEvent
<1>2. Window /\ closed = FALSE /\ closed' = FALSE /\ lastSequence' = lastSequence + 1 /\ received' = received
  BY DEF AppendEvent, IInv, Window
<1>3. /\ n \in Nat /\ lastSequence \in Nat /\ lastSequence' \in AfterSequence .. MaxSequence
      /\ Base \in Nat /\ lastSequence = Base + n /\ AfterSequence \in Nat /\ AfterSequence <= Base
      /\ k \in 0 .. n /\ e.seq = lastSequence + 1
  BY <1>2, WindowNumbers DEF Window, AppendEvent
<1>4. e \in Entry
  <2>1. lastSequence + 1 \in AfterSequence + 1 .. MaxSequence
    BY SMTT(30), <1>2, <1>3 DEF Window
  <2> QED  BY <2>1 DEF Entry
<1> DEFINE kept == SubSeq(entries, k + 1, Len(entries))
<1>5. kept \in Seq(Entry) /\ Len(kept) = n - k /\ \A j \in 1 .. n - k : kept[j].seq = Base + k + j
  <2>1. k \in Nat /\ n - k \in Nat /\ k + (n - k) = n
    BY <1>3
  <2>2. k + (n - k) <= Len(entries)
    BY <1>3, <2>1
  <2> HIDE DEF n
  <2>3. /\ SubSeq(entries, k + 1, k + (n - k)) \in Seq(Entry)
        /\ Len(SubSeq(entries, k + 1, k + (n - k))) = n - k
        /\ \A j \in 1 .. n - k : SubSeq(entries, k + 1, k + (n - k))[j].seq = Base + k + j
    BY <1>2, <2>1, <2>2, WindowPart, Zenon
  <2> QED  BY <2>1, <2>3 DEF n
<1> HIDE DEF e, n, kept
<1>6. /\ entries' \in Seq(Entry) /\ Len(entries') = Len(kept) + 1
      /\ \A j \in 1 .. Len(kept) : entries'[j] = kept[j]
      /\ entries'[Len(kept) + 1] = e
  <2>1. entries' = Append(kept, e)
    BY <1>1 DEF kept
  <2> QED  BY <1>4, <1>5, <2>1, AppendProperties
<1>7. Window'
  <2>1. ASSUME NEW j \in 1 .. Len(entries')  PROVE  entries'[j].seq = lastSequence' - Len(entries') + j
    <3>1. Len(entries') = n - k + 1
      BY <1>5, <1>6
    <3>2. CASE j \in 1 .. n - k
      <4>1. entries'[j].seq = Base + k + j
        BY <1>5, <1>6, <3>2
      <4> QED  BY <1>2, <1>3, <3>1, <4>1
    <3>3. CASE j = n - k + 1
      <4>1. entries'[j].seq = lastSequence + 1
        BY <1>3, <1>5, <1>6, <3>3
      <4> QED  BY <1>2, <1>3, <3>1, <3>3, <4>1
    <3>4. j \in 1 .. n - k + 1
      BY <3>1
    <3>5. n - k \in Nat
      BY <1>3
    <3>6. j \in 1 .. n - k \/ j = n - k + 1
      <4> HIDE DEF n
      <4> QED  BY <3>4, <3>5
    <3> QED  BY <3>2, <3>3, <3>6, Zenon
  <2>2. Len(entries') <= lastSequence' - AfterSequence
    <3>1. Len(entries') = n - k + 1
      BY <1>5, <1>6
    <3> QED  BY <1>2, <1>3, <3>1
  <2> QED  BY <1>2, <1>3, <1>6, <2>1, <2>2 DEF Window
<1>8. ASSUME NEW c \in Subscribers
      PROVE  Sound(sub'[c], received'[c], lastSequence', closed') /\ StreamOf(sub'[c]) = StreamOf(sub[c])
  <2>1. Sound(sub[c], received[c], lastSequence, FALSE)
    BY <1>2 DEF IInv
  <2>2. CASE Live(sub[c])
    <3>1. sub'[c] = Offer(sub[c], e)
      BY <1>1, <2>2
    <3>2. Sound(Offer(sub[c], e), received[c], lastSequence + 1, FALSE) /\ Offer(sub[c], e).pc = sub[c].pc
      BY <1>3, <1>4, <2>1, <2>2, OfferIsSound
    <3>3. StreamOf(sub[c]) = "on" /\ StreamOf(sub'[c]) = "on"
      BY <2>2, <3>1, <3>2, StreamCases DEF Live
    <3> QED  BY <1>2, <3>1, <3>2, <3>3
  <2>3. CASE ~Live(sub[c])
    <3>1. sub'[c] = sub[c]
      BY <1>1, <2>3
    <3> QED  BY <1>2, <2>1, <2>3, <3>1, EndedIsSound
  <2> QED  BY <2>2, <2>3
<1>9. DOMAIN sub' = Subscribers /\ sub' = [c \in Subscribers |-> sub'[c]]
  BY <1>1
<1>10. IInv'
  BY <1>2, <1>7, <1>8, <1>9 DEF IInv
<1>11. StreamMap' = StreamMap
  BY <1>8 DEF StreamMap
<1> QED  BY <1>2, <1>10, <1>11 DEF Stream!Publish, StreamMap

\* Close closes the stream and cuts nobody off.
LEMMA CloseStep ==
    ASSUME IInv, Close
    PROVE  IInv' /\ Stream!Close
<1>1. /\ closed' = TRUE /\ UNCHANGED <<entries, lastSequence, received>>
      /\ sub' = [c \in Subscribers |-> IF Live(sub[c]) THEN Finish(sub[c]) ELSE sub[c]]
  BY DEF Close
<1>2. Window' /\ lastSequence \in Nat
  BY <1>1 DEF IInv, Window
<1>3. ASSUME NEW c \in Subscribers
      PROVE  Sound(sub'[c], received'[c], lastSequence', closed') /\ StreamOf(sub'[c]) = StreamOf(sub[c])
  <2>1. Sound(sub[c], received[c], lastSequence, closed)
    BY DEF IInv
  <2>2. CASE Live(sub[c])
    <3>1. sub'[c] = Finish(sub[c])
      BY <1>1, <2>2
    <3>2. Sound(Finish(sub[c]), received[c], lastSequence, TRUE) /\ Finish(sub[c]).pc = sub[c].pc
      BY <1>2, <2>1, <2>2, FinishIsSound
    <3>3. StreamOf(sub[c]) = "on" /\ StreamOf(sub'[c]) = "on"
      BY <2>2, <3>1, <3>2, StreamCases DEF Live
    <3> QED  BY <1>1, <3>1, <3>2, <3>3
  <2>3. CASE ~Live(sub[c])
    <3>1. sub'[c] = sub[c]
      BY <1>1, <2>3
    <3> QED  BY <1>1, <2>1, <2>3, <3>1, EndedIsSound
  <2> QED  BY <2>2, <2>3
<1>4. DOMAIN sub' = Subscribers /\ sub' = [c \in Subscribers |-> sub'[c]]
  BY <1>1
<1>5. IInv'
  BY <1>1, <1>2, <1>3, <1>4 DEF IInv
<1>6. StreamMap' = StreamMap
  BY <1>3 DEF StreamMap
<1> QED  BY <1>1, <1>5, <1>6 DEF Stream!Close, StreamMap

\* A cursor outside the window: the consumer starts again inside the log.
LEMMA OutOfRangeStep ==
    ASSUME IInv, NEW c \in Subscribers, OutOfRange(c)
    PROVE  IInv' /\ Stream!Reset(c)
<1> DEFINE r == RecoveryAfter(received[c])
<1>1. /\ ~Live(sub[c]) /\ received' = [received EXCEPT ![c] = r] /\ sub' = [sub EXCEPT ![c] = Idle]
      /\ UNCHANGED <<entries, lastSequence, closed>>
  BY DEF OutOfRange
<1>2. r \in 0 .. lastSequence
  BY SubOf, RecoveryInLog
<1> HIDE DEF r
<1>3. r \in 0 .. MaxSequence
  BY <1>2, SubOf
<1>4. Sound(Idle, r, lastSequence, closed) /\ Idle.pc = "idle"
  BY SubOf, IdleIsSound
<1>5. IInv'
  BY <1>1, <1>3, <1>4, OneSub
<1>6. StreamMap[c] # "on" /\ StreamMap' = [StreamMap EXCEPT ![c] = "off"]
  <2>1. StreamOf(Idle) = "off"
    BY <1>4, StreamCases
  <2>2. StreamOf(sub[c]) # "on"
    BY <1>1, SubOf, NotLiveNotOn
  <2> QED  BY <1>1, <2>1, <2>2, StreamStep
<1> QED  BY <1>1, <1>2, <1>5, <1>6 DEF Stream!Reset, StreamMap

\* A page of Replay, and perhaps a subscription from its end.
LEMMA ReplayStep ==
    ASSUME IInv, NEW c \in Subscribers, NEW maxEvents, NEW maxBytes, NEW tail \in BOOLEAN,
           ReplayPage(c, maxEvents, maxBytes, tail)
    PROVE  IInv' /\ Stream!CatchUp(c)
<1> DEFINE after == received[c]
<1>1. PICK i \in 0 .. Len(entries), n \in 0 .. Len(entries) :
        LET last == PageLast(after, SubSeq(entries, i + 1, i + n))
        IN  /\ PageAt(i, n, after, maxEvents, maxBytes)
            /\ received' = [received EXCEPT ![c] = last]
            /\ IF tail /\ last = lastSequence /\ ~closed
               THEN sub' = [sub EXCEPT ![c] = NewSubscription(last, <<>>)]
               ELSE sub' = [sub EXCEPT ![c] = Idle]
  BY Zenon DEF ReplayPage
<1>2. ~Live(sub[c]) /\ ~CursorOutside(after) /\ UNCHANGED <<entries, lastSequence, closed>>
  BY DEF ReplayPage
<1> DEFINE last == PageLast(after, SubSeq(entries, i + 1, i + n))
<1>3. Window /\ after \in Nat
  BY SubOf
<1>4. last = after + n /\ after + n <= lastSequence
  <2>1. PageAt(i, n, after, maxEvents, maxBytes)
    BY <1>1, Zenon
  <2> HIDE DEF after
  <2> QED  BY <1>2, <1>3, <2>1, PageFollows
<1>5. n \in Nat
  BY <1>3, WindowNumbers
<1> DEFINE new == IF tail /\ last = lastSequence /\ ~closed THEN NewSubscription(last, <<>>) ELSE Idle
<1>6. received' = [received EXCEPT ![c] = last] /\ sub' = [sub EXCEPT ![c] = new]
  BY <1>1
<1> HIDE DEF last
<1>7. last \in Nat /\ last \in after .. lastSequence /\ last \in 0 .. MaxSequence
  BY <1>3, <1>4, <1>5, SubOf
<1>8. Sound(new, last, lastSequence, closed) /\ StreamOf(new) \in {"off", "on"}
  <2>1. CASE tail /\ last = lastSequence /\ ~closed
    <3>1. <<>> \in Seq(Entry) /\ Len(<<>>) = 0
      BY EmptySeq
    <3>2. last + Len(<<>>) = lastSequence /\ lastSequence \in Nat
      BY <1>7, <2>1, <3>1
    <3>3. \A j \in 1 .. Len(<<>>) : <<>>[j].seq = last + j
      BY <3>1
    <3>4. Sound(NewSubscription(last, <<>>), last, lastSequence, closed) /\ NewSubscription(last, <<>>).pc = "loop"
      BY <1>7, <3>1, <3>2, <3>3, NewIsSound, Zenon
    <3> QED  BY <2>1, <3>4, StreamCases DEF Live
  <2>2. CASE ~(tail /\ last = lastSequence /\ ~closed)
    <3>1. Sound(Idle, last, lastSequence, closed) /\ Idle.pc = "idle"
      BY SubOf, IdleIsSound
    <3> QED  BY <2>2, <3>1, StreamCases
  <2> QED  BY <2>1, <2>2
<1> HIDE DEF new
<1>9. IInv'
  BY <1>2, <1>6, <1>7, <1>8, OneSub
<1>10. StreamMap[c] # "on" /\ StreamMap' = [StreamMap EXCEPT ![c] = StreamOf(new)]
  <2>1. StreamOf(sub[c]) # "on"
    BY <1>2, SubOf, NotLiveNotOn
  <2> QED  BY <1>6, <2>1, StreamStep
<1> QED  BY <1>2, <1>6, <1>7, <1>8, <1>9, <1>10 DEF Stream!CatchUp, StreamMap

\* Subscribe queues the whole rest of the window.
LEMMA SubscribeStep ==
    ASSUME IInv, NEW c \in Subscribers, Subscribe(c)
    PROVE  IInv' /\ Stream!CatchUp(c)
<1> DEFINE after == received[c]
<1>1. PICK i \in 0 .. Len(entries), n \in 0 .. Len(entries) :
        LET replay == SubSeq(entries, i + 1, i + n)
            new == NewSubscription(after, replay)
        IN  /\ PageAt(i, n, after, SubscriberMaxEvents, SubscriberMaxBytes)
            /\ PageLast(after, replay) = lastSequence
            /\ sub' = [sub EXCEPT ![c] = IF closed THEN Finish(new) ELSE new]
  BY Zenon DEF Subscribe
<1>2. ~Live(sub[c]) /\ ~CursorOutside(after) /\ UNCHANGED <<entries, lastSequence, closed, received>>
  BY DEF Subscribe
<1> DEFINE replay == SubSeq(entries, i + 1, i + n)
           new == NewSubscription(after, replay)
           t == IF closed THEN Finish(new) ELSE new
<1>3. Window /\ after \in Nat /\ after \in 0 .. MaxSequence /\ lastSequence \in Nat
  BY SubOf
<1>4. /\ replay \in Seq(Entry) /\ Len(replay) = n /\ \A j \in 1 .. n : replay[j].seq = after + j
      /\ PageLast(after, replay) = after + n /\ after + n <= lastSequence
  <2>1. PageAt(i, n, after, SubscriberMaxEvents, SubscriberMaxBytes)
    BY <1>1
  <2>2. LET page == SubSeq(entries, i + 1, i + n)
        IN  /\ page \in Seq(Entry) /\ Len(page) = n
            /\ \A j \in 1 .. n : page[j].seq = after + j
            /\ PageLast(after, page) = after + n
            /\ after + n <= lastSequence
    BY <1>2, <1>3, <2>1, PageFollows, ZenonT(30)
  <2> QED  BY <2>2, Zenon
<1>5. sub' = [sub EXCEPT ![c] = t] /\ PageLast(after, replay) = lastSequence
  BY <1>1
<1>6. n \in Nat
  BY <1>3, WindowNumbers
<1> HIDE DEF replay
<1>7. after + Len(replay) = lastSequence /\ after \in after .. lastSequence
  BY <1>3, <1>4, <1>5, <1>6
<1>8. Sound(new, after, lastSequence, closed) /\ new.pc = "loop"
  BY <1>3, <1>4, <1>7, NewIsSound
<1> HIDE DEF new
<1>9. Sound(t, after, lastSequence, closed) /\ StreamOf(t) = "on"
  <2>1. CASE closed
    <3>1. Sound(Finish(new), after, lastSequence, TRUE) /\ Finish(new).pc = "loop"
      BY <1>3, <1>8, FinishIsSound DEF Live
    <3>2. closed = TRUE
      BY <2>1, SubOf
    <3> QED  BY <2>1, <3>1, <3>2, StreamCases DEF Live
  <2>2. CASE ~closed
    BY <2>2, <1>8, StreamCases DEF Live
  <2> QED  BY <2>1, <2>2
<1> HIDE DEF t
<1>10. IInv'
  BY <1>2, <1>5, <1>9, OneSubOnly
<1>11. StreamMap[c] # "on" /\ StreamMap' = [StreamMap EXCEPT ![c] = "on"]
  <2>1. StreamOf(sub[c]) # "on"
    BY <1>2, SubOf, NotLiveNotOn
  <2> QED  BY <1>5, <1>9, <2>1, StreamStep
<1>12. received' = [received EXCEPT ![c] = after]
  BY <1>2 DEF IInv
<1> QED  BY <1>2, <1>7, <1>10, <1>11, <1>12 DEF Stream!CatchUp, StreamMap

\* The context of a consumer ends; nothing is told yet.
LEMMA CancelStep ==
    ASSUME IInv, NEW c \in Subscribers, CancelContext(c)
    PROVE  IInv' /\ UNCHANGED <<lastSequence, closed, received, StreamMap>>
<1> DEFINE t == [sub[c] EXCEPT !.cancelled = TRUE]
<1>1. Live(sub[c]) /\ sub' = [sub EXCEPT ![c] = t] /\ UNCHANGED <<entries, lastSequence, closed, received>>
  BY DEF CancelContext, Log
<1>2. Sound(t, received[c], lastSequence, closed) /\ t.pc = sub[c].pc
  BY <1>1, SubOf, CancelIsSound
<1> HIDE DEF t
<1>3. IInv'
  BY <1>1, <1>2, OneSubOnly
<1>4. StreamOf(t) = "on" /\ StreamOf(sub[c]) = "on"
  BY <1>1, <1>2, StreamCases DEF Live
<1> QED  BY <1>1, <1>3, <1>4, StreamStep

\* AfterFunc terminates the subscription; its goroutine has not returned.
LEMMA ContextStep ==
    ASSUME IInv, NEW c \in Subscribers, ContextFired(c)
    PROVE  IInv' /\ UNCHANGED <<lastSequence, closed, received, StreamMap>>
<1> DEFINE t == Terminate(sub[c], "cancelled")
<1>1. /\ Live(sub[c]) /\ ~sub[c].terminal /\ sub' = [sub EXCEPT ![c] = t]
      /\ UNCHANGED <<entries, lastSequence, closed, received>>
  BY DEF ContextFired, Log
<1>2. Sound(t, received[c], lastSequence, closed) /\ t.pc = sub[c].pc
  <2>1. Sound(sub[c], received[c], lastSequence, closed) /\ lastSequence \in Nat /\ lastSequence <= lastSequence
    BY SubOf
  <2>2. Sound(t, received[c], lastSequence, closed)
    BY <1>1, <2>1, TerminateIsSound
  <2>3. t.pc = sub[c].pc
    BY <1>1, <2>1, Terminates DEF Sound
  <2> QED  BY <2>2, <2>3
<1> HIDE DEF t
<1>3. IInv'
  BY <1>1, <1>2, OneSubOnly
<1>4. StreamOf(t) = "on" /\ StreamOf(sub[c]) = "on"
  BY <1>1, <1>2, StreamCases DEF Live
<1> QED  BY <1>1, <1>3, <1>4, StreamStep

\* The delivery goroutine takes the head of the queue.
LEMMA NextStep ==
    ASSUME IInv, NEW c \in Subscribers, DeliverNext(c)
    PROVE  IInv' /\ UNCHANGED <<lastSequence, closed, received, StreamMap>>
<1> DEFINE t == [sub[c] EXCEPT !.pc = "select", !.entry = sub[c].queue[1]]
<1>1. /\ sub[c].pc = "loop" /\ sub[c].queue # <<>> /\ UNCHANGED <<entries, lastSequence, closed, received>>
      /\ sub' = [sub EXCEPT ![c].pc = "select", ![c].entry = sub[c].queue[1]]
  BY DEF DeliverNext, Log
<1>2. sub' = [sub EXCEPT ![c] = t]
  BY <1>1 DEF IInv
<1>3. Sound(t, received[c], lastSequence, closed) /\ t.pc = "select"
  BY <1>1, SubOf, SelectIsSound
<1> HIDE DEF t
<1>4. IInv'
  BY <1>1, <1>2, <1>3, OneSubOnly
<1>5. StreamOf(t) = "on" /\ StreamOf(sub[c]) = "on"
  BY <1>1, <1>3, StreamCases DEF Live
<1> QED  BY <1>1, <1>2, <1>4, <1>5, StreamStep

\* The delivery goroutine records what was sent.
LEMMA SentStep ==
    ASSUME IInv, NEW c \in Subscribers, DeliverSent(c)
    PROVE  IInv' /\ UNCHANGED <<lastSequence, closed, received, StreamMap>>
<1> DEFINE t == Sent(sub[c])
<1>1. /\ sub[c].pc = "sent" /\ sub' = [sub EXCEPT ![c] = t] /\ UNCHANGED <<entries, lastSequence, closed, received>>
  BY DEF DeliverSent, Log
<1>2. Sound(t, received[c], lastSequence, closed) /\ t.pc = "loop"
  BY <1>1, SubOf, SentIsSound
<1> HIDE DEF t
<1>3. IInv'
  BY <1>1, <1>2, OneSubOnly
<1>4. StreamOf(t) = "on" /\ StreamOf(sub[c]) = "on"
  BY <1>1, <1>2, StreamCases DEF Live
<1> QED  BY <1>1, <1>3, <1>4, StreamStep

\* The consumer takes the next event, and no other.
LEMMA ReceiveStep ==
    ASSUME IInv, NEW c \in Subscribers, Receive(c)
    PROVE  IInv' /\ Stream!Take(c)
<1> DEFINE t == [sub[c] EXCEPT !.pc = "sent"]
           r == sub[c].entry.seq
<1>1. /\ sub[c].pc = "select" /\ sub' = [sub EXCEPT ![c] = t] /\ UNCHANGED <<entries, lastSequence, closed>>
      /\ received' = [received EXCEPT ![c] = r]
  BY DEF Receive, Log
<1>2. /\ Sound(t, r, lastSequence, closed) /\ t.pc = "sent" /\ sub[c].entry \in Entry
      /\ r = received[c] + 1 /\ received[c] < lastSequence
  BY <1>1, SubOf, TakenIsNext
<1> HIDE DEF t, r
<1>3. r \in 0 .. MaxSequence
  BY <1>2, SubOf
<1>4. IInv'
  BY <1>1, <1>2, <1>3, OneSub
<1>5. StreamOf(t) = "on" /\ StreamOf(sub[c]) = "on"
  BY <1>1, <1>2, StreamCases DEF Live
<1>6. StreamMap' = StreamMap /\ StreamMap[c] = "on"
  BY <1>1, <1>5, StreamStep
<1>7. received' = [received EXCEPT ![c] = @ + 1]
  BY <1>1, <1>2
<1> QED  BY <1>1, <1>2, <1>4, <1>6, <1>7 DEF Stream!Take, StreamMap

\* A subscription ends: cleanly only at the end of a closed log.
LEMMA EndStep ==
    ASSUME IInv, NEW c \in Subscribers, NEW s, Sound(s, received[c], lastSequence, closed),
           s.pc \in {"loop", "select"}, Live(sub[c]),
           s.err # "nil" \/ s.cancelled \/ (s.queue = <<>> /\ s.terminal),
           sub' = [sub EXCEPT ![c] = [s EXCEPT !.pc = "done", !.entry = <<>>]],
           UNCHANGED <<entries, lastSequence, closed, received>>
    PROVE  IInv' /\ Stream!End(c)
<1> DEFINE t == [s EXCEPT !.pc = "done", !.entry = <<>>]
<1>1. Sound(t, received[c], lastSequence, closed) /\ t.pc = "done" /\ t.err = s.err /\ t.cancelled = s.cancelled
  BY DoneIsSound
<1>2. sub' = [sub EXCEPT ![c] = t]
  OBVIOUS
<1> HIDE DEF t
<1>3. IInv'
  BY <1>1, <1>2, OneSubOnly
<1>4. StreamMap[c] = "on" /\ StreamMap' = [StreamMap EXCEPT ![c] = StreamOf(t)]
  BY <1>2, StreamStep, StreamCases
<1>5. StreamOf(t) \in {"clean", "broken"}
  BY <1>1, StreamCases
<1>6. ASSUME StreamOf(t) = "clean"  PROVE  closed /\ received[c] = lastSequence
  <2>1. s.err = "nil" /\ s.queue = <<>> /\ s.terminal
    BY <1>1, <1>6, StreamCases
  <2>2. Holding(s, received[c], lastSequence, closed) /\ s \in SubType(s.queuedBytes)
    BY DEF Sound, Live
  <2>3. ~s.abort /\ closed /\ s.lastDelivered = received[c]
    BY <2>1, <2>2 DEF Holding
  <2>4. s.lastDelivered + Len(s.queue) = lastSequence
    BY <2>2, <2>3 DEF Holding
  <2>5. Len(s.queue) = 0
    BY <2>1, EmptySeq
  <2> DEFINE n == Len(s.queue)
  <2>6. received[c] + n = lastSequence /\ n = 0 /\ received[c] \in Nat
    BY <2>3, <2>4, <2>5, SubOf
  <2> HIDE DEF n
  <2>7. received[c] = lastSequence
    BY <2>6
  <2> QED  BY <2>3, <2>7
<1> QED  BY <1>3, <1>4, <1>5, <1>6 DEF Stream!End, StreamMap

\* Returning from the loop, on abort, and on the end of the context.
LEMMA DeliveryEnds ==
    ASSUME IInv, NEW c \in Subscribers, DeliverReturn(c) \/ DeliverAbort(c) \/ DeliverCancelled(c)
    PROVE  IInv' /\ Stream!End(c)
<1>1. Sound(sub[c], received[c], lastSequence, closed) /\ lastSequence \in Nat
  BY SubOf
<1>2. sub[c].pc \in {"loop", "select"} /\ Live(sub[c]) /\ UNCHANGED <<entries, lastSequence, closed, received>>
  BY SMTT(30) DEF DeliverReturn, DeliverAbort, DeliverCancelled, Live, Log
<1>3. CASE DeliverReturn(c)
  <2>1. sub[c].queue = <<>> /\ sub[c].terminal
        /\ sub' = [sub EXCEPT ![c] = [sub[c] EXCEPT !.pc = "done", !.entry = <<>>]]
    BY <1>3 DEF DeliverReturn, IInv
  <2> QED  BY <1>1, <1>2, <2>1, EndStep
<1>4. CASE DeliverAbort(c)
  <2>1. sub[c].abort /\ sub' = [sub EXCEPT ![c] = [sub[c] EXCEPT !.pc = "done", !.entry = <<>>]]
    BY <1>4 DEF DeliverAbort, IInv
  <2>2. sub[c].err # "nil"
    <3>1. Holding(sub[c], received[c], lastSequence, closed)
      BY <1>1, <1>2 DEF Sound
    <3> QED  BY <2>1, <3>1 DEF Holding
  <2> QED  BY <1>1, <1>2, <2>1, <2>2, EndStep
<1>5. CASE DeliverCancelled(c)
  <2> DEFINE s == Terminate(sub[c], "cancelled")
  <2>1. sub[c].pc = "select" /\ sub[c].cancelled
        /\ sub' = [sub EXCEPT ![c] = [s EXCEPT !.pc = "done", !.entry = <<>>]]
    BY <1>5 DEF DeliverCancelled, IInv
  <2>2. Sound(s, received[c], lastSequence, closed) /\ s.pc = "select" /\ s.cancelled
    <3>1. CASE sub[c].terminal
      BY <1>1, <2>1, <3>1 DEF Terminate
    <3>2. CASE ~sub[c].terminal
      <4>1. lastSequence <= lastSequence
        BY <1>1
      <4>2. Sound(s, received[c], lastSequence, closed)
        BY <1>1, <1>2, <3>2, <4>1, TerminateIsSound
      <4>3. s.pc = sub[c].pc /\ s.cancelled = sub[c].cancelled
        BY <1>1, <3>2, Terminates DEF Sound
      <4> QED  BY <2>1, <4>2, <4>3
    <3> QED  BY <3>1, <3>2
  <2> HIDE DEF s
  <2> QED  BY <1>2, <2>1, <2>2, EndStep
<1> QED  BY <1>3, <1>4, <1>5

-----------------------------------------------------------------------------
(* Theorems.                                                               *)

\* A new log satisfies the invariant.
LEMMA Initially ==
    ASSUME Init
    PROVE  IInv /\ Stream!Init
<1>1. /\ AfterSequence \in Nat /\ MaxSequence \in Nat /\ AfterSequence < MaxSequence
      /\ entries = <<>> /\ lastSequence = AfterSequence /\ closed = FALSE
      /\ sub = [c \in Subscribers |-> Idle] /\ received \in [Subscribers -> 0 .. MaxSequence]
  BY DEF Init, ValidLimits
<1>2. Len(entries) = 0 /\ entries \in Seq(Entry)
  BY <1>1, EmptySeq
<1>3. Window
  <2>1. 1 .. Len(entries) = {} /\ Len(entries) <= lastSequence - AfterSequence
        /\ lastSequence \in AfterSequence .. MaxSequence
    BY <1>1, <1>2
  <2> QED  BY <1>1, <1>2, <2>1, Zenon DEF Window
<1>4. \A c \in Subscribers : Sound(sub[c], received[c], lastSequence, closed) /\ sub[c].pc = "idle"
  BY <1>1, IdleIsSound
<1>5. DOMAIN sub = Subscribers /\ sub = [c \in Subscribers |-> sub[c]]
  BY <1>1
<1>6. IInv
  BY <1>1, <1>3, <1>4, <1>5 DEF IInv
<1>7. StreamMap = [c \in Subscribers |-> "off"]
  BY <1>4, StreamCases DEF StreamMap
<1> QED  BY <1>1, <1>6, <1>7 DEF Stream!Init, StreamMap

\* Every step keeps the invariant and is a step of the stream or invisible to consumers.
LEMMA Steps ==
    ASSUME IInv, [Next]_vars
    PROVE  IInv' /\ [Stream!Next]_(Stream!vars)
<1>1. CASE \E size \in Sizes, terminal \in BOOLEAN : AppendEvent(size, terminal)
  BY <1>1, AppendStep DEF Stream!Next
<1>2. CASE Close
  BY <1>2, CloseStep DEF Stream!Next
<1>3. ASSUME NEW c \in Subscribers, OutOfRange(c)
      PROVE  IInv' /\ Stream!Next
  BY <1>3, OutOfRangeStep DEF Stream!Next
<1>4. ASSUME NEW c \in Subscribers, NEW maxEvents, NEW maxBytes, NEW tail \in BOOLEAN,
             ReplayPage(c, maxEvents, maxBytes, tail)
      PROVE  IInv' /\ Stream!Next
  BY <1>4, ReplayStep DEF Stream!Next
<1>5. ASSUME NEW c \in Subscribers, Subscribe(c)
      PROVE  IInv' /\ Stream!Next
  BY <1>5, SubscribeStep DEF Stream!Next
<1>6. ASSUME NEW c \in Subscribers, Receive(c)
      PROVE  IInv' /\ Stream!Next
  BY <1>6, ReceiveStep DEF Stream!Next
<1>7. ASSUME NEW c \in Subscribers, DeliverReturn(c) \/ DeliverAbort(c) \/ DeliverCancelled(c)
      PROVE  IInv' /\ Stream!Next
  BY <1>7, DeliveryEnds DEF Stream!Next
<1>8. ASSUME NEW c \in Subscribers, CancelContext(c) \/ ContextFired(c) \/ DeliverNext(c) \/ DeliverSent(c)
      PROVE  IInv' /\ UNCHANGED Stream!vars
  <2>1. IInv' /\ UNCHANGED <<lastSequence, closed, received, StreamMap>>
    BY <1>8, CancelStep, ContextStep, NextStep, SentStep
  <2> QED  BY <2>1 DEF Stream!vars, StreamMap
<1>9. CASE UNCHANGED vars
  <2>1. UNCHANGED <<entries, lastSequence, closed, sub, received>>
    BY <1>9 DEF vars
  <2>2. IInv'
    BY <2>1 DEF IInv, Window
  <2> QED  BY <2>1, <2>2 DEF Stream!vars
<1> QED  BY <1>1, <1>2, <1>3, <1>4, <1>5, <1>6, <1>7, <1>8, <1>9 DEF Next, Deliver

\* Every reachable state of the log satisfies the inductive invariant.
LEMMA Invariance == Spec => []IInv
  BY Initially, Steps, PTL DEF Spec

\* The log with its eviction, its bounded queues and its delivery goroutines implements the
\* ordered stream: whatever is evicted, offered, cancelled or cut off, and in whatever order, a
\* consumer takes the next number or none, and a clean end is the end of a closed log.
THEOREM LogIsStream == Spec => LogImplementsStream
<1>1. Init => Stream!Init
  BY Initially
<1>2. IInv /\ [Next]_vars => [Stream!Next]_(Stream!vars)
  BY Steps
<1> QED  BY <1>1, <1>2, Invariance, PTL DEF Spec, LogImplementsStream, Stream!Spec

\* When a subscription is over, LastDelivered and the cursor of an exhaustion error name the
\* last event that its consumer took (offer, terminateLocked, deliver).
THEOREM CursorsStayExact == Spec => []CursorExact
<1>1. IInv => CursorExact
  BY DEF IInv, Sound, CursorExact
<1> QED  BY <1>1, Invariance, PTL

\* The retained window has no gap and ends at lastSequence, and a live subscription that was not
\* cut off queues exactly the events after its cursor (Append, offer, deliver).
THEOREM NothingIsSkipped ==
    Spec => [](/\ \A i \in 1 .. Len(entries) : entries[i].seq = lastSequence - Len(entries) + i
               /\ \A c \in Subscribers : Live(sub[c]) /\ ~sub[c].abort =>
                    /\ sub[c].lastDelivered + Len(sub[c].queue) = lastSequence
                    /\ \A i \in 1 .. Len(sub[c].queue) : sub[c].queue[i].seq = sub[c].lastDelivered + i)
<1> DEFINE Exact == /\ \A i \in 1 .. Len(entries) : entries[i].seq = lastSequence - Len(entries) + i
                    /\ \A c \in Subscribers : Live(sub[c]) /\ ~sub[c].abort =>
                         /\ sub[c].lastDelivered + Len(sub[c].queue) = lastSequence
                         /\ \A i \in 1 .. Len(sub[c].queue) : sub[c].queue[i].seq = sub[c].lastDelivered + i
<1>1. IInv => Exact
  BY Zenon DEF IInv, Window, Sound, Holding
<1> QED  BY <1>1, Invariance, PTL
=============================================================================
