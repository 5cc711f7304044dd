------------------------- MODULE SessionStoreProofs -------------------------
(***************************************************************************)
(* For any number of clients, callers, waiters, streams and epochs: leases *)
(* belong to the current epoch, commits exclude each other, no wakeup is   *)
(* lost and no drain is reported early.                                    *)
(***************************************************************************)
EXTENDS SessionStore, SequenceTheorems, TLAPS

\* Removing a token from a queue keeps it a queue and keeps every other token.
LEMMA DequeueKeeps ==
  ASSUME NEW S, NEW q \in Seq(S), NEW e
  PROVE  /\ Dequeue(q, e) \in Seq(S)
         /\ \A x \in Range(q) : x # e => x \in Range(Dequeue(q, e))
<1>1. CASE ~ \E i \in DOMAIN q : q[i] = e
  BY <1>1 DEF Dequeue
<1>2. CASE \E i \in DOMAIN q : q[i] = e
  <2> DEFINE k == CHOOSE i \in DOMAIN q : q[i] = e
             a == SubSeq(q, 1, k - 1)
             b == SubSeq(q, k + 1, Len(q))
  <2>1. k \in 1 .. Len(q) /\ q[k] = e
    BY <1>2
  <2>2. Dequeue(q, e) = a \o b
    BY Zenon, <1>2 DEF Dequeue
  <2> HIDE DEF k
  <2>3. /\ a \in Seq(S) /\ Len(a) = k - 1
        /\ \A i \in 1 .. k - 1 : a[i] = q[i]
    BY <2>1, ElementOfSeq, SubSeqProperties, k - 1 \in Int
  <2>4. /\ b \in Seq(S) /\ Len(b) = Len(q) - k
        /\ \A i \in 1 .. Len(q) - k : b[i] = q[k + i]
    BY <2>1, ElementOfSeq, SubSeqProperties, k + 1 \in Int, Len(q) \in Int
  <2> HIDE DEF a, b
  <2>5. Len(q) \in Nat /\ Len(a) + Len(b) = Len(q) - 1
    BY <2>1, <2>3, <2>4
  <2>6. /\ a \o b \in Seq(S) /\ Len(a \o b) = Len(a) + Len(b)
        /\ \A i \in 1 .. Len(a) + Len(b) :
              (a \o b)[i] = IF i <= Len(a) THEN a[i] ELSE b[i - Len(a)]
    BY Zenon, <2>3, <2>4, ConcatProperties
  <2>7. /\ a \o b \in Seq(S) /\ DOMAIN (a \o b) = 1 .. Len(q) - 1
        /\ \A i \in 1 .. Len(q) - 1 : (a \o b)[i] = IF i <= k - 1 THEN a[i] ELSE b[i - (k - 1)]
    BY <2>3, <2>5, <2>6, LenProperties
  <2>8. ASSUME NEW x \in Range(q), x # e
        PROVE  x \in Range(a \o b)
    <3>1. PICK j \in 1 .. Len(q) : q[j] = x
      BY <2>8 DEF Range
    <3>2. j # k
      BY <2>1, <2>8, <3>1
    <3>3. CASE j < k
      <4>1. j \in 1 .. Len(q) - 1 /\ (a \o b)[j] = x
        BY <2>1, <2>3, <2>5, <2>7, <3>1, <3>3
      <4>2. QED
        BY Zenon, <4>1, <2>7 DEF Range
    <3>4. CASE j > k
      <4>1. j - 1 \in 1 .. Len(q) - 1 /\ ~(j - 1 <= k - 1) /\ (j - 1) - (k - 1) = j - k
        BY <2>1, <2>5, <3>1, <3>4
      <4>2. (a \o b)[j - 1] = b[j - k]
        BY Zenon, <4>1, <2>7
      <4>3. j - k \in 1 .. Len(q) - k /\ k + (j - k) = j
        BY <2>1, <2>5, <3>1, <3>4
      <4>4. b[j - k] = x
        BY <4>3, <2>4, <3>1
      <4>5. j - 1 \in DOMAIN (a \o b) /\ (a \o b)[j - 1] = x
        BY Zenon, <4>1, <4>2, <4>4, <2>7
      <4>6. QED
        BY Zenon, <4>5 DEF Range
    <3>5. QED
      BY <2>1, <3>1, <3>2, <3>3, <3>4
  <2>9. QED
    BY <2>2, <2>7, <2>8
<1>3. QED
  BY <1>1, <1>2

\* Joining a queue keeps every token and adds the new one.
LEMMA AppendKeeps ==
  ASSUME NEW S, NEW q \in Seq(S), NEW e \in S
  PROVE  /\ Append(q, e) \in Seq(S)
         /\ Range(q) \subseteq Range(Append(q, e))
         /\ e \in Range(Append(q, e))
  BY AppendProperties, LenProperties DEF Range

\* Serving the head keeps every other token.
LEMMA TailKeeps ==
  ASSUME NEW S, NEW q \in Seq(S), q # <<>>
  PROVE  /\ Tail(q) \in Seq(S)
         /\ \A x \in Range(q) : x # Head(q) => x \in Range(Tail(q))
<1>1. Tail(q) \in Seq(S) /\ DOMAIN Tail(q) = 1 .. Len(q) - 1 /\ \A i \in 1 .. Len(q) - 1 : Tail(q)[i] = q[i + 1]
  BY HeadTailProperties, LenProperties
<1>2. ASSUME NEW x \in Range(q), x # Head(q)
      PROVE  x \in Range(Tail(q))
  <2>1. PICK j \in 1 .. Len(q) : q[j] = x
    BY LenProperties DEF Range
  <2>2. j # 1
    BY <1>2, <2>1
  <2>3. j - 1 \in 1 .. Len(q) - 1 /\ (j - 1) + 1 = j
    BY <2>1, <2>2
  <2>4. QED
    BY Zenon, <1>1, <2>1, <2>3 DEF Range
<1>3. QED
  BY <1>1, <1>2

-----------------------------------------------------------------------------
(* The inductive invariant.                                                *)

\* Whoever waits has its token in the queue of its kind, and whoever holds a lease is
\* recorded in the gate: the half of GateMatchesCallers the other facts rest on.
Fits(p, k, g) ==
    /\ k.pc # "idle" => k.client \in Clients /\ k.epoch # 0
    /\ k.waiting => k.pc \in {"run", "asleep", "checked"}
    /\ k.pc \in {"asleep", "checked"} => k.waiting
    /\ k.pc = "checked" => k.kind = "reconnect"
    /\ k.waiting /\ k.kind = "mutation" => p \in Range(g.mutations)
    /\ k.waiting /\ k.kind = "reconnect" => p \in Range(g.reconnects) /\ k.epoch # MaxEpoch
    /\ k.waiting /\ k.kind = "stream" => p \in g.streamWaiters
    /\ k.waiting => k.kind # "none"
    /\ k.pc = "commit" => g.active = p
    /\ k.pc = "stream" => p \in g.streams

Registered == \A p \in Callers : Fits(p, call[p], gate[call[p].client])

\* A reported drain: closed, and nothing in any gate.
DrainIsQuiet == drained => closed /\ \A c \in Clients : Quiet(gate[c])

IInv == TypeOK /\ Registered /\ LeasesAreCurrent /\ NoMissedSignal /\ DrainIsQuiet

\* The empty store satisfies the inductive invariant.
LEMMA InitIInv == Init => IInv
<1> SUFFICES ASSUME Init PROVE IInv
  OBVIOUS
<1> USE BoundsAssumption DEF Init
<1>1. NoSession \in SessionType /\ IdleCall \in CallType
  BY EmptySeq DEF NoSession, IdleCall, SessionType, CallType
<1>2. TypeOK
  BY Zenon, <1>1 DEF TypeOK
<1>3. Registered /\ LeasesAreCurrent /\ NoMissedSignal /\ DrainIsQuiet
  BY DEF Registered, Fits, LeasesAreCurrent, NoMissedSignal, DrainIsQuiet, IdleCall
<1>4. QED
  BY <1>2, <1>3 DEF IInv

\* What signalling a client does to a caller: it wakes it if it sleeps there, and no more.
Woken(k, l, c) ==
    /\ l.kind = k.kind /\ l.client = k.client /\ l.epoch = k.epoch /\ l.waiting = k.waiting
    /\ l.fencing = k.fencing /\ l.ctxDone = k.ctxDone /\ l.cancelled = k.cancelled
    /\ IF k.pc = "asleep" /\ k.client = c THEN l.pc = "run" ELSE l.pc = k.pc

\* A session stays a session when one of its fields is given a value of that field's type.
LEMMA SessionUpdates ==
  ASSUME NEW g \in SessionType
  PROVE  /\ \A e \in 0 .. MaxEpoch : [g EXCEPT !.epoch = e] \in SessionType
         /\ \A a \in Callers \cup {None} : [g EXCEPT !.active = a] \in SessionType
         /\ \A q \in Seq(Callers) : [g EXCEPT !.mutations = q] \in SessionType
         /\ \A q \in Seq(Callers) : [g EXCEPT !.reconnects = q] \in SessionType
         /\ \A w \in SUBSET Callers : [g EXCEPT !.streamWaiters = w] \in SessionType
         /\ \A s \in SUBSET Callers : [g EXCEPT !.streams = s] \in SessionType
  BY Zenon DEF SessionType

\* The same for a call.
LEMMA CallUpdates ==
  ASSUME NEW k \in CallType
  PROVE  /\ [k EXCEPT !.pc = "run"] \in CallType
         /\ [k EXCEPT !.pc = "checked"] \in CallType
         /\ [k EXCEPT !.waiting = TRUE] \in CallType
         /\ [k EXCEPT !.ctxDone = TRUE] \in CallType
         /\ [k EXCEPT !.cancelled = TRUE] \in CallType
         /\ [k EXCEPT !.pc = "asleep", !.waiting = TRUE] \in CallType
         /\ [k EXCEPT !.pc = "commit", !.waiting = FALSE] \in CallType
         /\ [k EXCEPT !.pc = "stream", !.waiting = FALSE] \in CallType
         /\ [k EXCEPT !.pc = "run", !.fencing = TRUE] \in CallType
  BY Zenon DEF CallType

\* Signalling a client wakes its sleepers and changes nothing else.
LEMMA SignalWakes ==
  ASSUME NEW calls \in [Callers -> CallType], NEW c
  PROVE  /\ Signal(calls, c) \in [Callers -> CallType]
         /\ \A q \in Callers : Woken(calls[q], Signal(calls, c)[q], c)
<1>1. ASSUME NEW q \in Callers
      PROVE  Signal(calls, c)[q] \in CallType /\ Woken(calls[q], Signal(calls, c)[q], c)
  <2>1. calls[q] \in CallType
    OBVIOUS
  <2>2. CASE calls[q].pc = "asleep" /\ calls[q].client = c
    <3>1. Signal(calls, c)[q] = [calls[q] EXCEPT !.pc = "run"]
      BY Zenon, <2>2 DEF Signal
    <3>2. [calls[q] EXCEPT !.pc = "run"] \in CallType
      BY Zenon, <2>1, CallUpdates
    <3>3. Woken(calls[q], [calls[q] EXCEPT !.pc = "run"], c)
      BY <2>1, <2>2 DEF CallType, Woken
    <3>4. QED
      BY <3>1, <3>2, <3>3
  <2>3. CASE ~(calls[q].pc = "asleep" /\ calls[q].client = c)
    BY <2>1, <2>3 DEF Signal, Woken
  <2>4. QED
    BY <2>2, <2>3
<1>2. Signal(calls, c) = [q \in Callers |-> Signal(calls, c)[q]]
  BY DEF Signal
<1>3. QED
  BY <1>1, <1>2

\* A gate that still has everything a caller has in it.
Keeps(q, g, h) ==
    /\ q \in Range(g.mutations) => q \in Range(h.mutations)
    /\ q \in Range(g.reconnects) => q \in Range(h.reconnects)
    /\ q \in g.streamWaiters => q \in h.streamWaiters
    /\ q \in g.streams => q \in h.streams
    /\ g.active = q => h.active = q

\* What a caller's state says of its gate survives a wakeup and a gate that keeps its tokens.
LEMMA FitsKept ==
  ASSUME NEW q, NEW k, NEW l, NEW c, NEW g, NEW h, Fits(q, k, g), Woken(k, l, c), Keeps(q, g, h)
  PROVE  Fits(q, l, h)
  BY DEF Fits, Woken, Keeps

\* So it does for a caller that is not touched, and for one that names no client it says
\* nothing of a gate.
LEMMA FitsStill ==
  ASSUME NEW q, NEW k, NEW g, NEW h, Fits(q, k, g), Keeps(q, g, h)
  PROVE  Fits(q, k, h)
  BY Zenon DEF Fits, Keeps

\* A sleeper that is signalled fits the same gate.
LEMMA FitsWoken ==
  ASSUME NEW q, NEW k, NEW l, NEW c, NEW g, Fits(q, k, g), Woken(k, l, c)
  PROVE  Fits(q, l, g)
<1>1. Keeps(q, g, g)
  BY Zenon DEF Keeps
<1> QED
  BY <1>1, FitsKept

\* A call of no client is idle, and fits any gate.
LEMMA FitsNowhere ==
  ASSUME NEW q, NEW k, NEW g, NEW h, Fits(q, k, g), k.client \notin Clients
  PROVE  Fits(q, k, h)
<1>1. k.pc = "idle" /\ ~k.waiting
  BY DEF Fits
<1> QED
  BY <1>1 DEF Fits

\* An idle call fits any gate.
LEMMA IdleFits == \A q, g : Fits(q, IdleCall, g)
  BY DEF Fits, IdleCall

\* A step of caller p under the lock of client c: what is to be shown is about p and about the
\* sleepers of c that are not signalled.
LEMMA OthersFollow ==
  ASSUME IInv, NEW p \in Callers, NEW c \in Clients,
         UNCHANGED <<closed, rootDone>>,
         \A d \in Clients \ {c} : gate'[d] = gate[d],
         \/ gate'[c].epoch = gate[c].epoch
         \/ \A q \in Callers \ {p} : call[q].client = c => call[q].pc \notin {"commit", "stream"},
         \A q \in Callers \ {p} : call'[q] = call[q] \/ Woken(call[q], call'[q], c),
         \A q \in Callers \ {p} : Keeps(q, gate[c], gate'[c]),
         \A q \in Callers \ {p} : call[q].client = c /\ call'[q].pc = "asleep" =>
               gate'[c].epoch = gate[c].epoch /\ Blocked(q, call[q], gate'[c]),
         Fits(p, call'[p], gate'[call'[p].client]),
         call'[p].pc \in {"commit", "stream"} => call'[p].epoch = gate'[call'[p].client].epoch,
         call'[p].pc = "asleep" /\ ~Closed =>
               Owns(p)' /\ Blocked(p, call'[p], gate'[call'[p].client])
  PROVE  Registered' /\ LeasesAreCurrent' /\ NoMissedSignal'
<1> USE DEF IInv
<1>1. ASSUME NEW q \in Callers \ {p}
      PROVE  /\ call'[q].client = call[q].client /\ call'[q].epoch = call[q].epoch
             /\ call'[q].kind = call[q].kind /\ call'[q].fencing = call[q].fencing
             /\ call'[q].pc # "run" => call'[q].pc = call[q].pc
             /\ Fits(q, call[q], gate[call[q].client])
  BY DEF Woken, Registered
<1>2. ASSUME NEW q \in Callers \ {p}
      PROVE  Fits(q, call'[q], gate'[call'[q].client])
  <2>0. Fits(q, call'[q], gate[call[q].client])
    <3>1. CASE call'[q] = call[q]
      BY Zenon, <1>1, <3>1
    <3>2. CASE Woken(call[q], call'[q], c)
      <4>1. Fits(q, call[q], gate[call[q].client])
        BY Zenon, <1>1
      <4>2. QED
        BY Zenon, <3>2, <4>1, FitsWoken
    <3>3. QED
      BY Zenon, <1>2, <3>1, <3>2
  <2>1. CASE call[q].client = c
    <3>1. Woken(call[q], call'[q], c) => Fits(q, call'[q], gate'[c])
      BY SMTT(40), <1>1, <2>1, FitsKept
    <3>2. call'[q] = call[q] => Fits(q, call'[q], gate'[c])
      BY Zenon, <1>1, <2>1, FitsStill
    <3>3. QED
      BY SMTT(40), <1>1, <2>1, <3>1, <3>2
  <2>2. CASE call[q].client \in Clients \ {c}
    <3>1. gate'[call[q].client] = gate[call[q].client]
      BY Zenon, <2>2
    <3>2. QED
      BY Zenon, <1>1, <2>0, <3>1
  <2>3. CASE call[q].client \notin Clients
    BY Zenon, <1>1, <2>0, <2>3, FitsNowhere
  <2>4. QED
    BY SMTT(40), <2>1, <2>2, <2>3
<1>3. Registered'
  BY <1>2 DEF Registered
<1>4. LeasesAreCurrent'
  <2>1. ASSUME NEW q \in Callers \ {p}, call'[q].pc \in {"commit", "stream"}
        PROVE  call'[q].epoch = gate'[call'[q].client].epoch
    <3>1. call[q].pc \in {"commit", "stream"} /\ call[q].client \in Clients
      BY Zenon, <1>1, <2>1 DEF Fits
    <3>2. call[q].epoch = gate[call[q].client].epoch
      BY Zenon, <3>1 DEF LeasesAreCurrent
    <3>3. gate'[call[q].client].epoch = gate[call[q].client].epoch
      BY Zenon, <3>1
    <3>4. QED
      BY Zenon, <1>1, <3>2, <3>3
  <2>2. QED
    BY Zenon, <2>1 DEF LeasesAreCurrent
<1>5. NoMissedSignal'
  <2>1. ASSUME NEW q \in Callers \ {p}, call'[q].pc = "asleep", ~Closed
        PROVE  Owns(q)' /\ Blocked(q, call'[q], gate'[call'[q].client])
    <3>1. call[q].pc = "asleep" /\ call[q].client \in Clients
      BY Zenon, <1>1, <2>1 DEF Fits
    <3>2. Owns(q) /\ Blocked(q, call[q], gate[call[q].client])
      BY Zenon, <2>1, <3>1 DEF NoMissedSignal
    <3>3. gate'[call[q].client].epoch = gate[call[q].client].epoch
      BY Zenon, <2>1, <3>1
    <3>4. Blocked(q, call[q], gate'[call[q].client])
      BY SMTT(40), <2>1, <3>1, <3>2
    <3>5. Blocked(q, call'[q], gate'[call[q].client])
      BY Zenon, <1>1, <3>4 DEF Blocked
    <3>6. Owns(q)'
      BY SMTT(40), <1>1, <3>2, <3>3 DEF Owns, Closed
    <3>7. QED
      BY SMTT(40), <1>1, <3>5, <3>6
  <2>2. QED
    BY Zenon, <2>1 DEF NoMissedSignal, Closed
<1>6. QED
  BY SMTT(40), <1>3, <1>4, <1>5

\* A step that signals nobody: whoever of its client sleeps is still blocked.
LEMMA UnsignalledStep ==
  ASSUME IInv, NEW p \in Callers, NEW c \in Clients, NEW l, NEW h,
         UNCHANGED <<closed, rootDone>>,
         gate'[c] = h, \A d \in Clients \ {c} : gate'[d] = gate[d],
         call'[p] = l, \A q \in Callers \ {p} : call'[q] = call[q],
         l.client = c, h.epoch = gate[c].epoch,
         \A q \in Callers \ {p} : Keeps(q, gate[c], h),
         \A q \in Callers \ {p} : call[q].client = c /\ call[q].pc = "asleep" => Blocked(q, call[q], h),
         Fits(p, l, h), l.pc \in {"commit", "stream"} => l.epoch = h.epoch,
         l.pc = "asleep" => Owns(p)' /\ Blocked(p, l, h)
  PROVE  Registered' /\ LeasesAreCurrent' /\ NoMissedSignal'
<1>1. /\ gate'[c].epoch = gate[c].epoch /\ Fits(p, call'[p], gate'[call'[p].client])
      /\ \A q \in Callers \ {p} : call'[q] = call[q] \/ Woken(call[q], call'[q], c)
      /\ \A q \in Callers \ {p} : Keeps(q, gate[c], gate'[c])
      /\ \A q \in Callers \ {p} : call[q].client = c /\ call'[q].pc = "asleep" =>
            gate'[c].epoch = gate[c].epoch /\ Blocked(q, call[q], gate'[c])
      /\ call'[p].pc \in {"commit", "stream"} => call'[p].epoch = gate'[call'[p].client].epoch
      /\ call'[p].pc = "asleep" /\ ~Closed => Owns(p)' /\ Blocked(p, call'[p], gate'[call'[p].client])
  OBVIOUS
<1>2. QED
  BY Zenon, <1>1, OthersFollow

\* Fresh installs a session nobody has named yet.
LEMMA FreshStep ==
  ASSUME IInv, NEW c \in Clients, Fresh(c)
  PROVE  IInv'
<1> USE BoundsAssumption DEF IInv
<1>1. /\ gate' = [gate EXCEPT ![c].epoch = 1] /\ UNCHANGED <<call, closed, rootDone, drained>>
      /\ gate[c].epoch = 0 /\ ~Closed
  BY DEF Fresh, Store
<1>2. TypeOK'
  <2>1. [gate[c] EXCEPT !.epoch = 1] \in SessionType
    BY SessionUpdates DEF TypeOK
  <2>2. QED
    BY <1>1, <2>1 DEF TypeOK
<1>3. \A d \in Clients : /\ gate'[d].active = gate[d].active
                         /\ gate'[d].mutations = gate[d].mutations
                         /\ gate'[d].reconnects = gate[d].reconnects
                         /\ gate'[d].streamWaiters = gate[d].streamWaiters
                         /\ gate'[d].streams = gate[d].streams
                         /\ d # c => gate'[d].epoch = gate[d].epoch
  BY Zenon, <1>1 DEF TypeOK, SessionType
<1>4. Registered'
  BY SMTT(40), <1>1, <1>3 DEF Registered, Fits, TypeOK
<1>5. LeasesAreCurrent'
  BY SMTT(40), <1>1, <1>3 DEF LeasesAreCurrent, Registered, Fits, TypeOK
<1>6. NoMissedSignal'
  <2>1. ASSUME NEW p \in Callers, call[p].pc = "asleep"
        PROVE  Owns(p) /\ call[p].client \in Clients /\ call[p].client # c
    BY <2>1, <1>1 DEF NoMissedSignal, Registered, Fits, Owns
  <2>2. QED
    BY SMTT(40), <1>1, <1>3, <2>1 DEF NoMissedSignal, Blocked, Owns, Closed, MutationTurn, ReconnectTurn
<1>7. DrainIsQuiet'
  BY <1>1, <1>3 DEF DrainIsQuiet, TypeOK, Quiet, Closed
<1>8. QED
  BY SMTT(40), <1>2, <1>4, <1>5, <1>6, <1>7

\* A call that returns an error leaves no token behind and wakes the others.
LEMMA LeaveStep ==
  ASSUME IInv, NEW p \in Callers, call[p].pc \in {"run", "checked"}, Leave(p)
  PROVE  IInv'
<1> DEFINE c == call[p].client
           left == [call EXCEPT ![p] = IdleCall]
<1> USE BoundsAssumption DEF IInv
<1>1. c \in Clients /\ gate[c] \in SessionType
  BY DEF Registered, Fits, TypeOK
<1>2. IdleCall \in CallType
  BY DEF IdleCall, CallType
<1>3. left \in [Callers -> CallType]
  BY <1>2 DEF TypeOK
<1>4. UNCHANGED <<closed, rootDone>>
  BY DEF Leave
<1>5. CASE ~call[p].waiting
  <2>1. call' = left /\ UNCHANGED <<gate, drained>>
    BY <1>5 DEF Leave
  <2>2. call'[p] = IdleCall /\ \A q \in Callers \ {p} : call'[q] = call[q]
    BY <2>1 DEF TypeOK
  <2>3. TypeOK'
    BY SMTT(40), <1>3, <1>4, <2>1 DEF TypeOK
  <2>4. Registered'
    BY Zenon, <2>1, <2>2, IdleFits DEF Registered
  <2>5. LeasesAreCurrent' /\ DrainIsQuiet'
    BY SMTT(40), <1>4, <2>1, <2>2 DEF LeasesAreCurrent, DrainIsQuiet, IdleCall, Quiet
  <2>6. NoMissedSignal'
    BY SMTT(40), <1>4, <2>1, <2>2 DEF NoMissedSignal, IdleCall, Owns, Closed
  <2>7. QED
    BY SMTT(40), <2>3, <2>4, <2>5, <2>6
<1>6. CASE call[p].waiting
  <2>1. gate' = [gate EXCEPT ![c] = Without(@, p)] /\ call' = Signal(left, c) /\ MaybeDrained
    BY Zenon, <1>6 DEF Leave
  <2> DEFINE g == gate[c]
  <2>2. /\ Dequeue(g.mutations, p) \in Seq(Callers) /\ Dequeue(g.reconnects, p) \in Seq(Callers)
        /\ \A q \in Callers \ {p} :
              /\ q \in Range(g.mutations) => q \in Range(Dequeue(g.mutations, p))
              /\ q \in Range(g.reconnects) => q \in Range(Dequeue(g.reconnects, p))
    BY Zenon, <1>1, DequeueKeeps DEF SessionType
  <2>3. /\ Without(g, p) \in SessionType
        /\ Without(g, p).mutations = Dequeue(g.mutations, p)
        /\ Without(g, p).reconnects = Dequeue(g.reconnects, p)
        /\ Without(g, p).streamWaiters = g.streamWaiters \ {p}
        /\ Without(g, p).streams = g.streams
        /\ Without(g, p).active = g.active
        /\ Without(g, p).epoch = g.epoch
    BY Zenon, <1>1, <2>2 DEF SessionType, Without
  <2>4. gate'[c] = Without(g, p) /\ \A d \in Clients \ {c} : gate'[d] = gate[d]
    BY <1>1, <2>1 DEF TypeOK
  <2>5. call' \in [Callers -> CallType] /\ \A q \in Callers : Woken(left[q], call'[q], c)
    BY Zenon, <1>3, <2>1, SignalWakes
  <2>6. /\ call'[p].pc = "idle" /\ ~call'[p].waiting
        /\ \A q \in Callers \ {p} : Woken(call[q], call'[q], c)
    BY ZenonT(60), <2>5 DEF Woken, IdleCall, TypeOK
  <2>7. TypeOK'
    BY Zenon, <1>1, <1>4, <2>1, <2>3, <2>5 DEF TypeOK, MaybeDrained
  <2>8. \A q \in Callers \ {p} : Keeps(q, g, gate'[c])
    BY Zenon, <2>2, <2>3, <2>4 DEF Keeps
  <2>9. \A q \in Callers \ {p} : call[q].client = c => call'[q].pc # "asleep"
    BY SMTT(40), <2>6 DEF Woken
  <2>10. Registered' /\ LeasesAreCurrent' /\ NoMissedSignal'
    <3>1. Fits(p, call'[p], gate'[call'[p].client])
      BY <2>6 DEF Fits
    <3>2. /\ gate'[c].epoch = gate[c].epoch
          /\ \A q \in Callers \ {p} : call'[q] = call[q] \/ Woken(call[q], call'[q], c)
          /\ \A q \in Callers \ {p} : Keeps(q, gate[c], gate'[c])
          /\ \A q \in Callers \ {p} : call[q].client = c /\ call'[q].pc = "asleep" =>
                gate'[c].epoch = gate[c].epoch /\ Blocked(q, call[q], gate'[c])
          /\ call'[p].pc \notin {"commit", "stream", "asleep"}
      BY Zenon, <2>3, <2>4, <2>6, <2>8, <2>9
    <3>3. QED
      BY ZenonT(40), <1>1, <1>4, <2>4, <3>1, <3>2, OthersFollow
  <2>11. DrainIsQuiet'
    <3>1. CASE drained
      BY SMTT(40), <1>1, <1>6, <3>1 DEF DrainIsQuiet, Registered, Fits, Quiet, Range, TypeOK, CallType
    <3>2. CASE ~drained
      BY Zenon, <2>1, <3>2 DEF DrainIsQuiet, MaybeDrained
    <3>3. QED
      BY SMTT(40), <3>1, <3>2
  <2>12. QED
    BY Zenon, <2>7, <2>10, <2>11
<1>7. QED
  BY Zenon, <1>5, <1>6

-----------------------------------------------------------------------------
(* Steps that change only the caller.                                      *)

\* A change of one caller that leaves every gate as it is.
LEMMA CallerStep ==
  ASSUME IInv, NEW p \in Callers, NEW l \in CallType,
         call' = [call EXCEPT ![p] = l], UNCHANGED <<gate, closed, rootDone, drained>>,
         l.client \in Clients, l.pc \notin {"commit"},
         l.pc = "stream" => call[p].pc = "stream" /\ l.epoch = call[p].epoch /\ l.client = call[p].client,
         Fits(p, l, gate[l.client]),
         l.pc = "asleep" /\ ~Closed => /\ gate[l.client].epoch = l.epoch
                                      /\ Blocked(p, l, gate[l.client])
  PROVE  IInv'
<1> USE DEF IInv
<1>1. TypeOK'
  BY DEF TypeOK
<1>2. call'[p] = l /\ \A q \in Callers \ {p} : call'[q] = call[q]
  BY DEF TypeOK
<1>3. \A q \in Callers : call[q].client = l.client /\ call[q].pc = "asleep" /\ ~Closed =>
         Blocked(q, call[q], gate[l.client])
  BY DEF NoMissedSignal
<1>4. Registered'
  BY <1>2 DEF Registered
<1>5. LeasesAreCurrent'
  BY <1>2 DEF LeasesAreCurrent
<1>6. NoMissedSignal'
  BY <1>2 DEF NoMissedSignal, Owns, Closed
<1>7. DrainIsQuiet'
  BY DEF DrainIsQuiet, Quiet
<1>8. QED
  BY <1>1, <1>4, <1>5, <1>6, <1>7

\* A call begins: nothing is registered, nothing can sleep.
LEMMA EnterStep ==
  ASSUME IInv, NEW p \in Callers, NEW c \in Clients, NEW kind \in {"mutation", "stream", "reconnect"},
         NEW e \in 1 .. MaxEpoch, Enter(p, kind, c, e)
  PROVE  IInv'
<1> DEFINE l == [IdleCall EXCEPT !.pc = "run", !.kind = kind, !.client = c, !.epoch = e]
<1>1. l \in CallType /\ l.client = c /\ l.pc = "run" /\ l.epoch = e /\ ~l.waiting
  <2>1. IdleCall \in CallType /\ ~IdleCall.waiting
    BY BoundsAssumption DEF IdleCall, CallType
  <2>2. e \in 0 .. MaxEpoch
    BY BoundsAssumption
  <2>3. QED
    BY Zenon, <2>1, <2>2 DEF CallType
<1>2. call' = [call EXCEPT ![p] = l] /\ UNCHANGED <<gate, closed, rootDone, drained>>
  BY DEF Enter, Store
<1> HIDE DEF l
<1>3. Fits(p, l, gate[l.client])
  BY SMTT(40), <1>1 DEF Fits
<1>4. QED
  BY Zenon, <1>1, <1>2, <1>3, CallerStep

\* The end of a context changes no token and wakes nobody by itself.
LEMMA CancelCallStep ==
  ASSUME IInv, NEW p \in Callers, CancelCall(p)
  PROVE  IInv'
<1> DEFINE k == call[p]
           l == [k EXCEPT !.ctxDone = TRUE]
<1>1. k \in CallType /\ Fits(p, k, gate[k.client]) /\ k.client \in Clients
  BY DEF IInv, TypeOK, Registered, CancelCall, Fits
<1>2. /\ l \in CallType /\ l.pc = k.pc /\ l.kind = k.kind /\ l.client = k.client /\ l.epoch = k.epoch
      /\ l.waiting = k.waiting /\ l.fencing = k.fencing
  BY Zenon, <1>1 DEF CallType
<1>3. call' = [call EXCEPT ![p] = l] /\ UNCHANGED <<gate, closed, rootDone, drained>> /\ k.pc # "commit"
  BY DEF CancelCall, Store, IInv, TypeOK
<1>4. k.pc = "asleep" /\ ~Closed => gate[k.client].epoch = k.epoch /\ Blocked(p, k, gate[k.client])
  BY DEF IInv, NoMissedSignal, Owns
<1> HIDE DEF l
<1>5. Fits(p, l, gate[l.client])
  BY <1>1, <1>2 DEF Fits
<1>6. l.pc = "asleep" /\ ~Closed => gate[l.client].epoch = l.epoch /\ Blocked(p, l, gate[l.client])
  BY <1>2, <1>4 DEF Blocked
<1>7. QED
  BY Zenon, <1>1, <1>2, <1>3, <1>5, <1>6, CallerStep

\* Wake and the unlocked check of a reconnect.
LEMMA UnlockedSteps ==
  ASSUME IInv, NEW p \in Callers, Wake(p) \/ ReconnectChecks(p)
  PROVE  IInv'
<1> DEFINE k == call[p]
<1>1. k \in CallType /\ Fits(p, k, gate[k.client]) /\ k.client \in Clients
  BY DEF IInv, TypeOK, Registered, Wake, ReconnectChecks, ReconnectRuns, Fits
<1>2. ASSUME NEW pc \in {"run", "checked"}, call' = [call EXCEPT ![p].pc = pc], k.waiting,
             pc = "checked" => k.kind = "reconnect", UNCHANGED <<gate, Store>>
      PROVE  IInv'
  <2> DEFINE l == [k EXCEPT !.pc = pc]
  <2>1. /\ l \in CallType /\ l.pc = pc /\ l.kind = k.kind /\ l.client = k.client /\ l.epoch = k.epoch
        /\ l.waiting = k.waiting
    BY <1>1 DEF CallType
  <2>2. call' = [call EXCEPT ![p] = l] /\ UNCHANGED <<gate, closed, rootDone, drained>>
    BY <1>2 DEF Store, IInv, TypeOK
  <2> HIDE DEF l
  <2>3. k.pc # "idle"
    BY SMTT(40), <1>1, <1>2 DEF Fits
  <2>4. Fits(p, l, gate[l.client])
    BY SMTT(40), <1>1, <1>2, <2>1, <2>3 DEF Fits
  <2>5. QED
    BY Zenon, <1>1, <1>2, <2>1, <2>2, <2>4, CallerStep
<1>3. CASE Wake(p)
  BY SMTT(40), <1>1, <1>2, <1>3 DEF Wake, Fits
<1>4. CASE ReconnectChecks(p)
  BY SMTT(40), <1>1, <1>2, <1>4 DEF ReconnectChecks, ReconnectRuns
<1>5. QED
  BY SMTT(40), <1>3, <1>4

\* A reconnect sleeps only after it saw why it must.
LEMMA ReconnectWaitsStep ==
  ASSUME IInv, NEW p \in Callers, ReconnectWaits(p)
  PROVE  IInv'
<1> DEFINE k == call[p]
           l == [k EXCEPT !.pc = "asleep", !.waiting = TRUE]
<1>1. k \in CallType /\ Fits(p, k, gate[k.client]) /\ k.client \in Clients
  BY DEF IInv, TypeOK, Registered, ReconnectWaits, Fits
<1>2. /\ l \in CallType /\ l.pc = "asleep" /\ l.kind = k.kind /\ l.client = k.client /\ l.epoch = k.epoch
      /\ l.waiting /\ l.fencing = k.fencing
  BY Zenon, <1>1 DEF CallType
<1>3. call' = [call EXCEPT ![p] = l] /\ UNCHANGED <<gate, closed, rootDone, drained>>
  BY Zenon DEF ReconnectWaits, Sleep, Store, IInv, TypeOK
<1> HIDE DEF l
<1>4. k.pc = "checked" /\ k.kind = "reconnect" /\ k.waiting
  BY <1>1 DEF ReconnectWaits, Fits
<1>5. Fits(p, l, gate[l.client])
  BY SMTT(40), <1>1, <1>2, <1>4 DEF Fits
<1>6. gate[l.client].epoch = l.epoch /\ Blocked(p, l, gate[l.client])
  BY <1>2, <1>4 DEF ReconnectWaits, Blocked, Owns
<1>7. QED
  BY Zenon, <1>1, <1>2, <1>3, <1>5, <1>6, CallerStep

\* Steps that cancel streams, or wake everybody: no caller moves between holding, waiting and
\* idle, so only sleepers that stay asleep need an argument.
LEMMA BroadcastStep ==
  ASSUME IInv, UNCHANGED gate,
         call' \in [Callers -> CallType], closed' \in BOOLEAN, rootDone' \in BOOLEAN, drained' \in BOOLEAN,
         \A q \in Callers :
            /\ call'[q].kind = call[q].kind /\ call'[q].client = call[q].client
            /\ call'[q].epoch = call[q].epoch /\ call'[q].waiting = call[q].waiting
            /\ call[q].pc = call'[q].pc \/ (call[q].pc \in {"asleep", "checked"} /\ call'[q].pc = "run"),
         Closed => Closed',
         \A q \in Callers : call'[q].pc = "asleep" => call'[q].fencing = call[q].fencing,
         \/ UNCHANGED <<closed, drained>>
         \/ drained' = (drained \/ (closed' /\ \A c \in Clients : Quiet(gate[c]))) /\ closed'
  PROVE  IInv'
<1> USE DEF IInv
<1>1. TypeOK'
  BY DEF TypeOK
<1>2. Registered'
  <2>1. ASSUME NEW q \in Callers
        PROVE  Fits(q, call'[q], gate[call[q].client])
    <3>1. Fits(q, call[q], gate[call[q].client])
      BY DEF Registered
    <3>2. QED
      BY <3>1 DEF Fits
  <2>2. QED
    BY SMTT(40), <2>1 DEF Registered
<1>3. LeasesAreCurrent'
  BY DEF LeasesAreCurrent
<1>4. NoMissedSignal'
  <2>1. ASSUME NEW q \in Callers, call'[q].pc = "asleep", ~Closed'
        PROVE  Owns(q)' /\ Blocked(q, call'[q], gate[call[q].client])
    <3>1. Owns(q) /\ Blocked(q, call[q], gate[call[q].client])
      BY Zenon, <2>1 DEF NoMissedSignal
    <3>2. Owns(q)'
      BY SMTT(40), <2>1, <3>1 DEF Owns
    <3>3. Blocked(q, call'[q], gate[call[q].client])
      BY Zenon, <2>1, <3>1 DEF Blocked
    <3>4. QED
      BY SMTT(40), <3>2, <3>3
  <2>2. QED
    BY Zenon, <2>1 DEF NoMissedSignal
<1>5. DrainIsQuiet'
  BY Zenon DEF DrainIsQuiet
<1>6. QED
  BY SMTT(40), <1>1, <1>2, <1>3, <1>4, <1>5

\* Fencing marks the streams; their tokens stay until they are closed.
LEMMA ReconnectFencesStep ==
  ASSUME IInv, NEW p \in Callers, ReconnectFences(p)
  PROVE  IInv'
<1> DEFINE c == call[p].client
<1>1. /\ call[p].pc = "checked" /\ UNCHANGED <<gate, closed, rootDone, drained>>
      /\ call' = [q \in Callers |->
                     IF q = p THEN [call[q] EXCEPT !.pc = "run", !.fencing = TRUE]
                     ELSE IF q \in gate[c].streams THEN [call[q] EXCEPT !.cancelled = TRUE]
                     ELSE call[q]]
  BY Zenon DEF ReconnectFences, Store
<1>2. ASSUME NEW q \in Callers
      PROVE  /\ call'[q] \in CallType
             /\ call'[q].kind = call[q].kind /\ call'[q].client = call[q].client
             /\ call'[q].epoch = call[q].epoch /\ call'[q].waiting = call[q].waiting
             /\ call[q].pc = call'[q].pc \/ (call[q].pc = "checked" /\ call'[q].pc = "run")
             /\ call'[q].pc = "asleep" => call'[q].fencing = call[q].fencing
  <2>1. call[q] \in CallType
    BY Zenon DEF IInv, TypeOK
  <2>2. CASE q = p
    <3>1. call'[q] = [call[q] EXCEPT !.pc = "run", !.fencing = TRUE]
      BY ZenonT(60), <1>1, <2>2
    <3>2. QED
      BY ZenonT(60), <1>1, <2>1, <2>2, <3>1 DEF CallType
  <2>3. CASE q # p /\ q \in gate[c].streams
    <3>1. call'[q] = [call[q] EXCEPT !.cancelled = TRUE]
      BY ZenonT(60), <1>1, <2>3
    <3>2. QED
      BY ZenonT(60), <1>1, <2>1, <3>1 DEF CallType
  <2>4. CASE q # p /\ q \notin gate[c].streams
    BY ZenonT(60), <1>1, <2>1, <2>4
  <2>5. QED
    BY <2>2, <2>3, <2>4
<1>3. call' \in [Callers -> CallType] /\ closed' \in BOOLEAN /\ rootDone' \in BOOLEAN /\ drained' \in BOOLEAN
  BY Zenon, <1>1, <1>2 DEF IInv, TypeOK
<1>4. QED
  BY ZenonT(60), <1>1, <1>2, <1>3, BroadcastStep DEF Closed

\* Close wakes every sleeper, and an ended root makes the store closed for all of them.
LEMMA ClosingSteps ==
  ASSUME IInv, CloseStore \/ CancelRoot
  PROVE  IInv'
<1>1. /\ UNCHANGED gate /\ closed' \in BOOLEAN /\ rootDone' /\ rootDone' \in BOOLEAN /\ drained' \in BOOLEAN
      /\ \/ UNCHANGED <<closed, drained>>
         \/ drained' = (drained \/ (closed' /\ \A c \in Clients : Quiet(gate[c]))) /\ closed'
  BY Zenon DEF CloseStore, CancelRoot, MaybeDrained, IInv, TypeOK
<1>2. ASSUME NEW q \in Callers
      PROVE  \/ call'[q] = call[q]
             \/ call[q].pc = "asleep" /\ call'[q] = [call[q] EXCEPT !.pc = "run"]
             \/ call'[q] = [call[q] EXCEPT !.cancelled = TRUE]
  BY Zenon DEF CloseStore, CancelRoot
<1>3. ASSUME NEW q \in Callers
      PROVE  /\ call'[q] \in CallType
             /\ call'[q].kind = call[q].kind /\ call'[q].client = call[q].client
             /\ call'[q].epoch = call[q].epoch /\ call'[q].waiting = call[q].waiting
             /\ call[q].pc = call'[q].pc \/ (call[q].pc = "asleep" /\ call'[q].pc = "run")
             /\ call'[q].pc = "asleep" => call'[q].fencing = call[q].fencing
  <2>1. call[q] \in CallType
    BY DEF IInv, TypeOK
  <2>2. CASE call'[q] = call[q]
    BY <2>1, <2>2
  <2>3. CASE call[q].pc = "asleep" /\ call'[q] = [call[q] EXCEPT !.pc = "run"]
    BY <2>1, <2>3 DEF CallType
  <2>4. CASE call'[q] = [call[q] EXCEPT !.cancelled = TRUE]
    BY Zenon, <2>1, <2>4 DEF CallType
  <2>5. QED
    BY <1>2, <2>2, <2>3, <2>4
<1>4. call' = [q \in Callers |-> call'[q]]
  BY DEF CloseStore, CancelRoot
<1>5. call' \in [Callers -> CallType]
  BY <1>3, <1>4
<1>6. QED
  BY SMTT(40), <1>1, <1>3, <1>5, BroadcastStep DEF Closed

-----------------------------------------------------------------------------
(* Steps that change the gate.                                             *)

\* The state a caller inside its call is in.
LEMMA InCallFacts ==
  ASSUME IInv, NEW p \in Callers, call[p].pc # "idle"
  PROVE  /\ call[p].client \in Clients /\ call[p] \in CallType /\ gate[call[p].client] \in SessionType
         /\ Fits(p, call[p], gate[call[p].client]) /\ call[p].epoch # 0
         /\ call \in [Callers -> CallType] /\ gate \in [Clients -> SessionType]
         /\ closed \in BOOLEAN /\ rootDone \in BOOLEAN /\ drained \in BOOLEAN
  BY DEF IInv, TypeOK, Registered, Fits

\* The fast path of AcquireMutationCommit: the gate was free, so nobody sleeps for it.
LEMMA MutationFastStep ==
  ASSUME IInv, NEW p \in Callers, MutationFast(p)
  PROVE  IInv'
<1> DEFINE c == call[p].client
           k == call[p]
           l == [k EXCEPT !.pc = "commit", !.waiting = FALSE]
           g == gate[c]
           h == [g EXCEPT !.active = p]
<1>1. /\ c \in Clients /\ k \in CallType /\ g \in SessionType /\ Fits(p, k, g) /\ k.epoch # 0
      /\ call \in [Callers -> CallType] /\ gate \in [Clients -> SessionType]
      /\ closed \in BOOLEAN /\ rootDone \in BOOLEAN /\ drained \in BOOLEAN
  BY InCallFacts DEF MutationFast, MutationRuns
<1>2. /\ Owns(p) /\ GateFree(g) /\ UNCHANGED <<closed, rootDone, drained>>
      /\ gate' = [gate EXCEPT ![c] = h] /\ call' = [call EXCEPT ![p] = l]
  BY Zenon, <1>1 DEF MutationFast, Grant, Store
<1>3. /\ h \in SessionType /\ h.active = p /\ h.mutations = g.mutations /\ h.reconnects = g.reconnects
      /\ h.streams = g.streams /\ h.streamWaiters = g.streamWaiters /\ h.epoch = g.epoch
  BY Zenon, <1>1 DEF SessionType
<1>4. /\ l \in CallType /\ l.pc = "commit" /\ l.waiting = FALSE /\ l.client = c /\ l.epoch = k.epoch
  BY ZenonT(60), <1>1 DEF CallType
<1> HIDE DEF l, h
<1>5. /\ gate'[c] = h /\ call'[p] = l /\ \A q \in Callers \ {p} : call'[q] = call[q]
      /\ \A d \in Clients \ {c} : gate'[d] = gate[d]
  BY <1>1, <1>2
<1>6. TypeOK'
  BY <1>1, <1>2, <1>3, <1>4 DEF TypeOK
<1>7. \A q \in Callers \ {p} : Keeps(q, g, h)
  BY Zenon, <1>2, <1>3, BoundsAssumption DEF Keeps, GateFree
<1>8. ASSUME NEW q \in Callers \ {p}, call[q].client = c, call[q].pc = "asleep"
      PROVE  FALSE
  <2>1. Fits(q, call[q], g) /\ Blocked(q, call[q], g) /\ call[q] \in CallType
    BY SMTT(40), <1>2, <1>8 DEF IInv, TypeOK, Registered, NoMissedSignal, Owns
  <2>2. Range(g.mutations) = {} /\ Range(g.reconnects) = {} /\ g.reconnects = <<>>
    BY SMTT(40), <1>2 DEF GateFree, Range
  <2>3. QED
    BY Zenon, <1>8, <2>1, <2>2 DEF Fits, Blocked, CallType
<1>9. Registered' /\ LeasesAreCurrent' /\ NoMissedSignal'
  <2>1. Fits(p, l, h)
    BY Zenon, <1>1, <1>3, <1>4 DEF Fits
  <2>2. l.epoch = h.epoch
    BY <1>2, <1>3, <1>4 DEF Owns
  <2>3. /\ \A q \in Callers \ {p} : call[q].client = c /\ call[q].pc = "asleep" => Blocked(q, call[q], h)
        /\ l.pc \in {"commit", "stream"} => l.epoch = h.epoch
        /\ l.pc = "asleep" => Owns(p)' /\ Blocked(p, l, h)
    BY Zenon, <1>4, <1>8, <2>2
  <2>4. QED
    BY Zenon, <1>1, <1>2, <1>3, <1>4, <1>5, <1>7, <2>1, <2>3, UnsignalledStep
<1>10. DrainIsQuiet'
  BY Zenon, <1>2 DEF IInv, DrainIsQuiet, Owns, Closed
<1>11. QED
  BY SMTT(40), <1>6, <1>9, <1>10 DEF IInv

\* A caller that goes to sleep with its token in the queue of its kind.
LEMMA SleeperFits ==
  ASSUME NEW p, NEW l, NEW h, l.pc = "asleep", l.waiting, l.client \in Clients, l.epoch # 0,
         \/ l.kind = "mutation" /\ p \in Range(h.mutations)
         \/ l.kind = "stream" /\ p \in h.streamWaiters
  PROVE  Fits(p, l, h)
  BY Zenon DEF Fits

\* Going to sleep keeps the session the caller's, and what it found stands in its way.
LEMMA SleeperOwns ==
  ASSUME NEW p \in Callers, NEW c, NEW l, NEW h, Owns(p), UNCHANGED <<closed, rootDone>>,
         call[p].client = c, call'[p] = l, gate'[c] = h, l.client = c, l.epoch = call[p].epoch,
         h.epoch = gate[c].epoch
  PROVE  Owns(p)'
  BY Zenon DEF Owns, Closed

\* A mutation queues, or stays queued, behind whoever is first.
LEMMA MutationWaitsStep ==
  ASSUME IInv, NEW p \in Callers, MutationWaits(p)
  PROVE  IInv'
<1> DEFINE c == call[p].client
           k == call[p]
           l == [k EXCEPT !.pc = "asleep", !.waiting = TRUE]
           g == gate[c]
           h == IF k.waiting THEN g ELSE [g EXCEPT !.mutations = Append(@, p)]
<1>1. /\ c \in Clients /\ k \in CallType /\ g \in SessionType /\ Fits(p, k, g) /\ k.epoch # 0
      /\ call \in [Callers -> CallType] /\ gate \in [Clients -> SessionType]
      /\ closed \in BOOLEAN /\ rootDone \in BOOLEAN /\ drained \in BOOLEAN
  BY InCallFacts DEF MutationWaits, MutationRuns
<1>2. /\ Owns(p) /\ k.kind = "mutation" /\ ~MutationTurn(h, p) /\ UNCHANGED <<closed, rootDone, drained>>
      /\ gate' = [gate EXCEPT ![c] = h] /\ call' = [call EXCEPT ![p] = l]
  BY Zenon, <1>1 DEF MutationWaits, MutationRuns, Sleep, Store
<1>3. /\ g.mutations \in Seq(Callers)
      /\ Append(g.mutations, p) \in Seq(Callers)
      /\ Range(g.mutations) \subseteq Range(Append(g.mutations, p)) /\ p \in Range(Append(g.mutations, p))
  BY <1>1, AppendKeeps DEF SessionType
<1>4. /\ h \in SessionType /\ h.active = g.active /\ h.reconnects = g.reconnects
      /\ h.streams = g.streams /\ h.streamWaiters = g.streamWaiters /\ h.epoch = g.epoch
      /\ h.mutations = IF k.waiting THEN g.mutations ELSE Append(g.mutations, p)
  BY Zenon, <1>1, <1>3 DEF SessionType
<1>5. /\ l \in CallType /\ l.pc = "asleep" /\ l.waiting /\ l.client = c /\ l.epoch = k.epoch
      /\ l.kind = k.kind
  BY Zenon, <1>1 DEF CallType
<1> HIDE DEF l, h
<1>6. /\ gate'[c] = h /\ call'[p] = l /\ \A q \in Callers \ {p} : call'[q] = call[q]
      /\ \A d \in Clients \ {c} : gate'[d] = gate[d]
  BY <1>1, <1>2
<1>7. TypeOK'
  BY SMTT(40), <1>1, <1>2, <1>4, <1>5 DEF TypeOK
<1>8. \A q \in Callers \ {p} : Keeps(q, g, h)
  BY Zenon, <1>3, <1>4 DEF Keeps
<1>9. g.mutations # <<>> => Head(h.mutations) = Head(g.mutations)
  <2>1. Head(Append(g.mutations, p)) = Head(g.mutations) \/ g.mutations = <<>>
    BY SMTT(40), <1>3, AppendProperties, HeadTailAppend
  <2>2. QED
    BY Zenon, <1>4, <2>1
<1>10. ASSUME NEW q \in Callers \ {p}, call[q].client = c, call[q].pc = "asleep"
       PROVE  Blocked(q, call[q], h)
  <2>1. Fits(q, call[q], g) /\ Blocked(q, call[q], g)
    BY Zenon, <1>2, <1>10 DEF IInv, TypeOK, Registered, NoMissedSignal, Owns
  <2>2. call[q].kind = "mutation" => g.mutations # <<>>
    BY SMTT(40), <1>10, <2>1 DEF Fits, Range
  <2>3. QED
    BY Zenon, <1>4, <1>9, <2>1, <2>2 DEF Blocked, MutationTurn, ReconnectTurn
<1>11. Registered' /\ LeasesAreCurrent' /\ NoMissedSignal'
  <2>1. Fits(p, l, h)
    <3>1. k.waiting => p \in Range(g.mutations)
      BY Zenon, <1>1, <1>2 DEF Fits
    <3>2. l.kind = "mutation" /\ p \in Range(h.mutations) /\ l.client \in Clients /\ l.epoch # 0
      BY Zenon, <1>1, <1>2, <1>3, <1>4, <1>5, <3>1
    <3>3. QED
      BY Zenon, <1>5, <3>2, SleeperFits
  <2>2. Owns(p)' /\ Blocked(p, l, h)
    <3>1. Owns(p)'
      BY ZenonT(40), <1>2, <1>4, <1>5, <1>6, SleeperOwns
    <3>2. QED
      BY Zenon, <1>2, <1>5, <3>1 DEF Blocked
  <2>3. /\ \A q \in Callers \ {p} : call[q].client = c /\ call[q].pc = "asleep" => Blocked(q, call[q], h)
        /\ l.pc \in {"commit", "stream"} => l.epoch = h.epoch
        /\ l.pc = "asleep" => Owns(p)' /\ Blocked(p, l, h)
    BY Zenon, <1>5, <1>10, <2>2
  <2>4. QED
    BY ZenonT(40), <1>1, <1>2, <1>4, <1>5, <1>6, <1>8, <2>1, <2>3, UnsignalledStep
<1>12. DrainIsQuiet'
  BY <1>2 DEF IInv, DrainIsQuiet, Owns, Closed
<1>13. QED
  BY <1>7, <1>11, <1>12 DEF IInv

\* A step that ends by signalling its client: nobody of that client is left asleep.
LEMMA SignalledStep ==
  ASSUME IInv, NEW p \in Callers, NEW c \in Clients, NEW l \in CallType, NEW h \in SessionType,
         gate' = [gate EXCEPT ![c] = h], call' = Signal([call EXCEPT ![p] = l], c),
         UNCHANGED <<closed, rootDone>>, drained' \in BOOLEAN,
         \/ h.epoch = gate[c].epoch
         \/ \A q \in Callers \ {p} : call[q].client = c => call[q].pc \notin {"commit", "stream"},
         \A q \in Callers \ {p} : Keeps(q, gate[c], h),
         \/ l = IdleCall
         \/ l.client = c /\ l.pc # "asleep" /\ Fits(p, l, h) /\ (l.pc \in {"commit", "stream"} => l.epoch = h.epoch)
  PROVE  TypeOK' /\ Registered' /\ LeasesAreCurrent' /\ NoMissedSignal'
<1>1. call \in [Callers -> CallType] /\ gate \in [Clients -> SessionType] /\ closed \in BOOLEAN /\ rootDone \in BOOLEAN
  BY DEF IInv, TypeOK
<1> DEFINE mid == [call EXCEPT ![p] = l]
<1>2. mid \in [Callers -> CallType] /\ mid[p] = l /\ \A q \in Callers \ {p} : mid[q] = call[q]
  BY <1>1
<1> HIDE DEF mid
<1>3. call' \in [Callers -> CallType] /\ \A q \in Callers : Woken(mid[q], call'[q], c)
  BY Zenon, <1>2, SignalWakes DEF mid
<1>4. /\ gate'[c] = h /\ \A d \in Clients \ {c} : gate'[d] = gate[d]
      /\ Woken(l, call'[p], c) /\ \A q \in Callers \ {p} : Woken(call[q], call'[q], c)
  BY Zenon, <1>1, <1>2, <1>3
<1>5. TypeOK'
  BY Zenon, <1>1, <1>3 DEF TypeOK
<1>6. \A q \in Callers \ {p} : call[q].client = c => call'[q].pc # "asleep"
  BY ZenonT(60), <1>4 DEF Woken
<1>7. /\ Fits(p, call'[p], gate'[call'[p].client]) /\ call'[p].pc # "asleep"
      /\ call'[p].pc \in {"commit", "stream"} => call'[p].epoch = gate'[call'[p].client].epoch
  <2>1. CASE l = IdleCall
    BY Zenon, <1>4, <2>1 DEF IdleCall, Woken, Fits
  <2>2. CASE /\ l.client = c /\ l.pc # "asleep" /\ Fits(p, l, h)
             /\ l.pc \in {"commit", "stream"} => l.epoch = h.epoch
    <3>1. Keeps(p, h, h)
      BY DEF Keeps
    <3>2. Fits(p, call'[p], h)
      BY Zenon, <1>4, <2>2, <3>1, FitsKept
    <3>3. QED
      <4>1. call'[p].client = l.client /\ call'[p].pc = l.pc /\ call'[p].epoch = l.epoch
        BY Zenon, <1>4, <2>2 DEF Woken
      <4>2. QED
        BY Zenon, <1>4, <2>2, <3>2, <4>1
  <2>3. QED
    BY <2>1, <2>2
<1>8. /\ \A q \in Callers \ {p} : Keeps(q, gate[c], gate'[c])
      /\ \/ gate'[c].epoch = gate[c].epoch
         \/ \A q \in Callers \ {p} : call[q].client = c => call[q].pc \notin {"commit", "stream"}
  BY SMTT(40), <1>4
<1>9. /\ \A q \in Callers \ {p} : call'[q] = call[q] \/ Woken(call[q], call'[q], c)
      /\ \A q \in Callers \ {p} : call[q].client = c /\ call'[q].pc = "asleep" =>
            gate'[c].epoch = gate[c].epoch /\ Blocked(q, call[q], gate'[c])
      /\ call'[p].pc = "asleep" /\ ~Closed => Owns(p)' /\ Blocked(p, call'[p], gate'[call'[p].client])
  BY Zenon, <1>4, <1>6, <1>7
<1>10. Registered' /\ LeasesAreCurrent' /\ NoMissedSignal'
  BY Zenon, <1>4, <1>7, <1>8, <1>9, OthersFollow
<1>11. QED
  BY <1>5, <1>10

\* The first of the queue takes the gate and signals the rest.
LEMMA MutationTurnsStep ==
  ASSUME IInv, NEW p \in Callers, MutationTurns(p)
  PROVE  IInv'
<1> DEFINE c == call[p].client
           k == call[p]
           l == [k EXCEPT !.pc = "commit", !.waiting = FALSE]
           g == gate[c]
           h == [g EXCEPT !.mutations = Tail(@), !.active = p]
<1>1. /\ c \in Clients /\ k \in CallType /\ g \in SessionType /\ Fits(p, k, g) /\ k.epoch # 0
      /\ call \in [Callers -> CallType] /\ gate \in [Clients -> SessionType]
      /\ closed \in BOOLEAN /\ rootDone \in BOOLEAN /\ drained \in BOOLEAN
  BY Zenon, InCallFacts DEF MutationTurns, MutationRuns
<1>2. /\ Owns(p) /\ MutationTurn(g, p) /\ k.waiting /\ k.kind = "mutation"
      /\ UNCHANGED <<closed, rootDone, drained>>
      /\ gate' = [gate EXCEPT ![c] = h] /\ call' = Signal([call EXCEPT ![p] = l], c)
  BY Zenon, <1>1 DEF MutationTurns, MutationRuns, Grant, Store
<1>3. g.mutations \in Seq(Callers) /\ g.mutations # <<>>
  BY <1>1, <1>2 DEF SessionType, Fits, Range
<1>4. /\ Tail(g.mutations) \in Seq(Callers)
      /\ \A x \in Range(g.mutations) : x # p => x \in Range(Tail(g.mutations))
  BY <1>2, <1>3, TailKeeps DEF MutationTurn
<1>5. /\ h \in SessionType /\ h.active = p /\ h.mutations = Tail(g.mutations)
      /\ h.reconnects = g.reconnects
      /\ h.streams = g.streams /\ h.streamWaiters = g.streamWaiters /\ h.epoch = g.epoch
  BY Zenon, <1>1, <1>4 DEF SessionType
<1>6. /\ l \in CallType /\ l.pc = "commit" /\ l.waiting = FALSE /\ l.client = c /\ l.epoch = k.epoch
  BY Zenon, <1>1 DEF CallType
<1> HIDE DEF l, h
<1>7. \A q \in Callers \ {p} : Keeps(q, g, h)
  BY Zenon, <1>2, <1>4, <1>5, BoundsAssumption DEF Keeps, MutationTurn
<1>8. Fits(p, l, h) /\ l.epoch = h.epoch
  BY Zenon, <1>1, <1>2, <1>5, <1>6 DEF Fits, Owns
<1>9. DrainIsQuiet'
  BY Zenon, <1>2 DEF IInv, DrainIsQuiet, Owns, Closed
<1>10. QED
  BY Zenon, <1>1, <1>2, <1>5, <1>6, <1>7, <1>8, <1>9, SignalledStep DEF IInv

\* The gate closes behind a holder: it had something in the gate, so no drain was reported.
LEMMA CloseCommitStep ==
  ASSUME IInv, NEW p \in Callers, CloseCommit(p)
  PROVE  IInv'
<1> DEFINE c == call[p].client
           k == call[p]
           g == gate[c]
           h == [g EXCEPT !.active = None]
<1>1. /\ c \in Clients /\ k \in CallType /\ g \in SessionType /\ Fits(p, k, g) /\ k.epoch # 0
      /\ call \in [Callers -> CallType] /\ gate \in [Clients -> SessionType]
      /\ closed \in BOOLEAN /\ rootDone \in BOOLEAN /\ drained \in BOOLEAN
  BY InCallFacts DEF CloseCommit
<1>2. /\ k.pc = "commit" /\ UNCHANGED <<closed, rootDone>> /\ MaybeDrained
      /\ gate' = [gate EXCEPT ![c] = h] /\ call' = Signal([call EXCEPT ![p] = IdleCall], c)
  BY <1>1 DEF CloseCommit
<1>3. /\ h \in SessionType /\ h.mutations = g.mutations /\ h.reconnects = g.reconnects
      /\ h.streams = g.streams /\ h.streamWaiters = g.streamWaiters /\ h.epoch = g.epoch
  BY Zenon, <1>1 DEF SessionType
<1>4. IdleCall \in CallType
  BY BoundsAssumption DEF IdleCall, CallType
<1>5. g.active = p
  BY <1>1, <1>2 DEF Fits
<1> HIDE DEF h
<1>6. \A q \in Callers \ {p} : Keeps(q, g, h)
  BY Zenon, <1>3, <1>5 DEF Keeps
<1>7. ~drained
  BY SMTT(40), <1>1, <1>5, BoundsAssumption DEF IInv, DrainIsQuiet, Quiet
<1>8. DrainIsQuiet' /\ drained' \in BOOLEAN
  BY Zenon, <1>2, <1>7 DEF MaybeDrained, DrainIsQuiet
<1>9. QED
  BY Zenon, <1>1, <1>2, <1>3, <1>4, <1>6, <1>8, SignalledStep DEF IInv

\* StreamLease.Close frees its place and signals.
LEMMA CloseStreamStep ==
  ASSUME IInv, NEW p \in Callers, CloseStream(p)
  PROVE  IInv'
<1> DEFINE c == call[p].client
           k == call[p]
           g == gate[c]
           h == [g EXCEPT !.streams = @ \ {p}]
<1>1. /\ c \in Clients /\ k \in CallType /\ g \in SessionType /\ Fits(p, k, g) /\ k.epoch # 0
      /\ call \in [Callers -> CallType] /\ gate \in [Clients -> SessionType]
      /\ closed \in BOOLEAN /\ rootDone \in BOOLEAN /\ drained \in BOOLEAN
  BY InCallFacts DEF CloseStream
<1>2. /\ k.pc = "stream" /\ UNCHANGED <<closed, rootDone>> /\ MaybeDrained
      /\ gate' = [gate EXCEPT ![c] = h] /\ call' = Signal([call EXCEPT ![p] = IdleCall], c)
  BY Zenon, <1>1 DEF CloseStream
<1>3. /\ h \in SessionType /\ h.mutations = g.mutations /\ h.reconnects = g.reconnects
      /\ h.streams = g.streams \ {p} /\ h.streamWaiters = g.streamWaiters /\ h.epoch = g.epoch
      /\ h.active = g.active
  BY Zenon, <1>1 DEF SessionType
<1>4. IdleCall \in CallType
  BY BoundsAssumption DEF IdleCall, CallType
<1> HIDE DEF h
<1>5. \A q \in Callers \ {p} : Keeps(q, g, h)
  BY <1>3 DEF Keeps
<1>6. ~drained
  BY Zenon, <1>1, <1>2 DEF IInv, DrainIsQuiet, Quiet, Fits
<1>7. DrainIsQuiet' /\ drained' \in BOOLEAN
  BY Zenon, <1>2, <1>6 DEF MaybeDrained, DrainIsQuiet
<1>8. QED
  BY Zenon, <1>1, <1>2, <1>3, <1>4, <1>5, <1>7, SignalledStep DEF IInv

\* AcquireStream waits for the queued reconnects.
LEMMA StreamWaitsStep ==
  ASSUME IInv, NEW p \in Callers, StreamWaits(p)
  PROVE  IInv'
<1> DEFINE c == call[p].client
           k == call[p]
           l == [k EXCEPT !.pc = "asleep", !.waiting = TRUE]
           g == gate[c]
           h == [g EXCEPT !.streamWaiters = @ \cup {p}]
<1>1. /\ c \in Clients /\ k \in CallType /\ g \in SessionType /\ Fits(p, k, g) /\ k.epoch # 0
      /\ call \in [Callers -> CallType] /\ gate \in [Clients -> SessionType]
      /\ closed \in BOOLEAN /\ rootDone \in BOOLEAN /\ drained \in BOOLEAN
  BY InCallFacts DEF StreamWaits, StreamRuns
<1>2. /\ Owns(p) /\ k.kind = "stream" /\ g.reconnects # <<>> /\ UNCHANGED <<closed, rootDone, drained>>
      /\ gate' = [gate EXCEPT ![c] = h] /\ call' = [call EXCEPT ![p] = l]
  BY Zenon, <1>1 DEF StreamWaits, StreamRuns, Sleep, Store
<1>3. /\ h \in SessionType /\ h.active = g.active /\ h.reconnects = g.reconnects
      /\ h.streams = g.streams /\ h.streamWaiters = g.streamWaiters \cup {p} /\ h.epoch = g.epoch
      /\ h.mutations = g.mutations
  BY Zenon, <1>1 DEF SessionType
<1>4. /\ l \in CallType /\ l.pc = "asleep" /\ l.waiting /\ l.client = c /\ l.epoch = k.epoch
      /\ l.kind = k.kind
  BY <1>1 DEF CallType
<1> HIDE DEF l, h
<1>5. /\ gate'[c] = h /\ call'[p] = l /\ \A q \in Callers \ {p} : call'[q] = call[q]
      /\ \A d \in Clients \ {c} : gate'[d] = gate[d]
  BY Zenon, <1>1, <1>2
<1>6. TypeOK'
  BY Zenon, <1>1, <1>2, <1>3, <1>4 DEF TypeOK
<1>7. \A q \in Callers \ {p} : Keeps(q, g, h)
  BY Zenon, <1>3 DEF Keeps
<1>8. ASSUME NEW q \in Callers \ {p}, call[q].client = c, call[q].pc = "asleep"
      PROVE  Blocked(q, call[q], h)
  <2>1. Blocked(q, call[q], g)
    BY Zenon, <1>2, <1>8 DEF IInv, NoMissedSignal, Owns
  <2>2. QED
    BY Zenon, <1>3, <2>1 DEF Blocked, MutationTurn, ReconnectTurn
<1>9. Registered' /\ LeasesAreCurrent' /\ NoMissedSignal'
  <2>1. Fits(p, l, h)
    <3>1. l.kind = "stream" /\ p \in h.streamWaiters /\ l.client \in Clients /\ l.epoch # 0
      BY Zenon, <1>1, <1>2, <1>3, <1>4
    <3>2. QED
      BY Zenon, <1>4, <3>1, SleeperFits
  <2>2. Owns(p)' /\ Blocked(p, l, h)
    <3>1. Owns(p)'
      BY Zenon, <1>2, <1>3, <1>4, <1>5, SleeperOwns
    <3>2. QED
      BY Zenon, <1>2, <1>3, <1>4, <3>1 DEF Blocked
  <2>3. /\ \A q \in Callers \ {p} : call[q].client = c /\ call[q].pc = "asleep" => Blocked(q, call[q], h)
        /\ l.pc \in {"commit", "stream"} => l.epoch = h.epoch
        /\ l.pc = "asleep" => Owns(p)' /\ Blocked(p, l, h)
    BY Zenon, <1>4, <1>8, <2>2
  <2>4. QED
    BY Zenon, <1>1, <1>2, <1>3, <1>4, <1>5, <1>7, <2>1, <2>3, UnsignalledStep
<1>10. DrainIsQuiet'
  BY <1>2 DEF IInv, DrainIsQuiet, Owns, Closed
<1>11. QED
  BY <1>6, <1>9, <1>10 DEF IInv

\* A stream lease is granted while no reconnect is queued.
LEMMA StreamGrantedStep ==
  ASSUME IInv, NEW p \in Callers, StreamGranted(p)
  PROVE  IInv'
<1> DEFINE c == call[p].client
           k == call[p]
           l == [k EXCEPT !.pc = "stream", !.waiting = FALSE]
           g == gate[c]
           h == [g EXCEPT !.streamWaiters = @ \ {p}, !.streams = @ \cup {p}]
<1>1. /\ c \in Clients /\ k \in CallType /\ g \in SessionType /\ Fits(p, k, g) /\ k.epoch # 0
      /\ call \in [Callers -> CallType] /\ gate \in [Clients -> SessionType]
      /\ closed \in BOOLEAN /\ rootDone \in BOOLEAN /\ drained \in BOOLEAN
  BY Zenon, InCallFacts DEF StreamGranted, StreamRuns
<1>2. /\ Owns(p) /\ k.kind = "stream" /\ g.reconnects = <<>> /\ UNCHANGED <<closed, rootDone, drained>>
      /\ gate' = [gate EXCEPT ![c] = h]
      /\ k.waiting => call' = Signal([call EXCEPT ![p] = l], c)
      /\ ~k.waiting => call' = [call EXCEPT ![p] = l]
  BY Zenon, <1>1 DEF StreamGranted, StreamRuns, Grant, Store
<1>3. /\ h \in SessionType /\ h.active = g.active /\ h.reconnects = g.reconnects
      /\ h.streams = g.streams \cup {p} /\ h.streamWaiters = g.streamWaiters \ {p} /\ h.epoch = g.epoch
      /\ h.mutations = g.mutations
  BY Zenon, <1>1 DEF SessionType
<1>4. /\ l \in CallType /\ l.pc = "stream" /\ l.waiting = FALSE /\ l.client = c /\ l.epoch = k.epoch
  BY ZenonT(60), <1>1 DEF CallType
<1> HIDE DEF l, h
<1>5. \A q \in Callers \ {p} : Keeps(q, g, h)
  BY <1>3 DEF Keeps
<1>6. Fits(p, l, h) /\ l.epoch = h.epoch
  BY Zenon, <1>1, <1>2, <1>3, <1>4 DEF Fits, Owns
<1>7. DrainIsQuiet'
  BY <1>2 DEF IInv, DrainIsQuiet, Owns, Closed
<1>8. CASE k.waiting
  <2>1. TypeOK' /\ Registered' /\ LeasesAreCurrent' /\ NoMissedSignal'
    BY ZenonT(60), <1>1, <1>2, <1>3, <1>4, <1>5, <1>6, <1>8, SignalledStep
  <2>2. QED
    BY SMTT(40), <1>7, <2>1 DEF IInv
<1>9. CASE ~k.waiting
  <2>1. /\ gate'[c] = h /\ call'[p] = l /\ \A q \in Callers \ {p} : call'[q] = call[q]
        /\ \A d \in Clients \ {c} : gate'[d] = gate[d]
    BY SMTT(40), <1>1, <1>2, <1>9
  <2>2. TypeOK'
    BY Zenon, <1>1, <1>2, <1>3, <1>4, <1>9 DEF TypeOK
  <2>3. ASSUME NEW q \in Callers \ {p}, call[q].client = c, call[q].pc = "asleep"
        PROVE  Blocked(q, call[q], h)
    <3>1. Fits(q, call[q], g) /\ Blocked(q, call[q], g)
      BY Zenon, <1>2, <2>3 DEF IInv, Registered, NoMissedSignal, Owns
    <3>2. Range(g.reconnects) = {}
      BY SMTT(40), <1>2 DEF Range
    <3>3. QED
      BY Zenon, <1>2, <1>3, <2>3, <3>1, <3>2 DEF Fits, Blocked, MutationTurn
  <2>4. Registered' /\ LeasesAreCurrent' /\ NoMissedSignal'
    <3>1. /\ \A q \in Callers \ {p} : call[q].client = c /\ call[q].pc = "asleep" => Blocked(q, call[q], h)
          /\ l.pc \in {"commit", "stream"} => l.epoch = h.epoch
          /\ l.pc = "asleep" => Owns(p)' /\ Blocked(p, l, h)
      BY Zenon, <1>4, <1>6, <2>3
    <3>2. QED
      BY Zenon, <1>1, <1>2, <1>3, <1>4, <1>5, <1>6, <2>1, <3>1, UnsignalledStep
  <2>5. QED
    BY SMTT(40), <1>7, <2>2, <2>4 DEF IInv
<1>10. QED
  BY SMTT(40), <1>8, <1>9

\* registerReconnect queues the intent and signals.
LEMMA ReconnectRegistersStep ==
  ASSUME IInv, NEW p \in Callers, ReconnectRegisters(p)
  PROVE  IInv'
<1> DEFINE c == call[p].client
           k == call[p]
           l == [k EXCEPT !.waiting = TRUE]
           g == gate[c]
           h == [g EXCEPT !.reconnects = Append(@, p)]
<1>1. /\ c \in Clients /\ k \in CallType /\ g \in SessionType /\ Fits(p, k, g) /\ k.epoch # 0
      /\ call \in [Callers -> CallType] /\ gate \in [Clients -> SessionType]
      /\ closed \in BOOLEAN /\ rootDone \in BOOLEAN /\ drained \in BOOLEAN
  BY InCallFacts DEF ReconnectRegisters, ReconnectRuns
<1>2. /\ Owns(p) /\ k.kind = "reconnect" /\ k.pc = "run" /\ k.epoch # MaxEpoch
      /\ UNCHANGED <<closed, rootDone, drained>>
      /\ gate' = [gate EXCEPT ![c] = h] /\ call' = Signal([call EXCEPT ![p] = l], c)
  BY Zenon, <1>1 DEF ReconnectRegisters, ReconnectRuns, Store
<1>3. /\ Append(g.reconnects, p) \in Seq(Callers)
      /\ Range(g.reconnects) \subseteq Range(Append(g.reconnects, p)) /\ p \in Range(Append(g.reconnects, p))
  BY ZenonT(60), <1>1, AppendKeeps DEF SessionType
<1>4. /\ h \in SessionType /\ h.active = g.active /\ h.reconnects = Append(g.reconnects, p)
      /\ h.streams = g.streams /\ h.streamWaiters = g.streamWaiters /\ h.epoch = g.epoch
      /\ h.mutations = g.mutations
  BY Zenon, <1>1, <1>3 DEF SessionType
<1>5. /\ l \in CallType /\ l.pc = "run" /\ l.waiting /\ l.client = c /\ l.epoch = k.epoch
      /\ l.kind = "reconnect"
  BY ZenonT(60), <1>1, <1>2 DEF CallType
<1> HIDE DEF l, h
<1>6. \A q \in Callers \ {p} : Keeps(q, g, h)
  BY <1>3, <1>4 DEF Keeps
<1>7. Fits(p, l, h)
  BY Zenon, <1>1, <1>2, <1>3, <1>4, <1>5 DEF Fits
<1>8. DrainIsQuiet'
  BY Zenon, <1>2 DEF IInv, DrainIsQuiet, Owns, Closed
<1>9. TypeOK' /\ Registered' /\ LeasesAreCurrent' /\ NoMissedSignal'
  BY ZenonT(60), <1>1, <1>2, <1>4, <1>5, <1>6, <1>7, SignalledStep
<1>10. QED
  BY <1>8, <1>9 DEF IInv

\* When a reconnect advances its client's epoch, nobody holds a lease of that client.
LEMMA AdvanceIsFenced ==
  ASSUME IInv, NEW p \in Callers, ReconnectAdvances(p)
  PROVE  \A q \in Callers : call[q].client = call[p].client => call[q].pc \notin {"commit", "stream"}
<1>1. gate[call[p].client].active = None /\ gate[call[p].client].streams = {}
  BY Zenon DEF ReconnectAdvances, ReconnectTurn
<1>2. \A q \in Callers : Fits(q, call[q], gate[call[q].client])
  BY SMTT(40) DEF IInv, Registered
<1>3. QED
  BY Zenon, <1>1, <1>2, BoundsAssumption DEF Fits

\* The epoch advances: no lease is held, so none becomes stale.
LEMMA ReconnectAdvancesStep ==
  ASSUME IInv, NEW p \in Callers, ReconnectAdvances(p)
  PROVE  IInv'
<1> DEFINE c == call[p].client
           k == call[p]
           g == gate[c]
           h == [g EXCEPT !.epoch = @ + 1, !.reconnects = Tail(@)]
<1>1. /\ c \in Clients /\ k \in CallType /\ g \in SessionType /\ Fits(p, k, g) /\ k.epoch # 0
      /\ call \in [Callers -> CallType] /\ gate \in [Clients -> SessionType]
      /\ closed \in BOOLEAN /\ rootDone \in BOOLEAN /\ drained \in BOOLEAN
  BY Zenon, InCallFacts DEF ReconnectAdvances
<1>2. /\ Owns(p) /\ k.pc = "checked" /\ ReconnectTurn(g, p)
      /\ UNCHANGED <<closed, rootDone, drained>>
      /\ gate' = [gate EXCEPT ![c] = h] /\ call' = Signal([call EXCEPT ![p] = IdleCall], c)
  BY Zenon, <1>1 DEF ReconnectAdvances, Store
<1>3. g.reconnects \in Seq(Callers) /\ g.reconnects # <<>> /\ k.epoch # MaxEpoch
  BY <1>1, <1>2 DEF SessionType, Fits, Range
<1>4. /\ Tail(g.reconnects) \in Seq(Callers)
      /\ \A x \in Range(g.reconnects) : x # p => x \in Range(Tail(g.reconnects))
  BY <1>2, <1>3, TailKeeps DEF ReconnectTurn
<1>5. g.epoch + 1 \in 0 .. MaxEpoch
  BY SMTT(40), <1>1, <1>2, <1>3, BoundsAssumption DEF Owns, SessionType
<1>6. /\ h \in SessionType /\ h.active = g.active /\ h.reconnects = Tail(g.reconnects)
      /\ h.streams = g.streams /\ h.streamWaiters = g.streamWaiters /\ h.mutations = g.mutations
  BY Zenon, <1>1, <1>4, <1>5 DEF SessionType
<1>7. IdleCall \in CallType
  BY BoundsAssumption DEF IdleCall, CallType
<1> HIDE DEF h
<1>8. \A q \in Callers \ {p} : Keeps(q, g, h)
  BY <1>4, <1>6 DEF Keeps
<1>9. DrainIsQuiet'
  BY Zenon, <1>2 DEF IInv, DrainIsQuiet, Owns, Closed
<1>10. TypeOK' /\ Registered' /\ LeasesAreCurrent' /\ NoMissedSignal'
  BY Zenon, <1>1, <1>2, <1>6, <1>7, <1>8, AdvanceIsFenced, SignalledStep
<1>11. QED
  BY <1>9, <1>10 DEF IInv

-----------------------------------------------------------------------------
(* The theorems.                                                           *)

\* Every step of the store keeps the inductive invariant.
LEMMA NextIInv == IInv /\ [Next]_vars => IInv'
<1> SUFFICES ASSUME IInv, [Next]_vars PROVE IInv'
  OBVIOUS
<1>1. ASSUME NEW c \in Clients, Fresh(c) PROVE IInv'
  BY SMTT(40), <1>1, FreshStep
<1>2. ASSUME NEW p \in Callers, NEW c \in Clients, NEW kind \in {"mutation", "stream", "reconnect"},
             NEW e \in 1 .. MaxEpoch, Enter(p, kind, c, e)
      PROVE  IInv'
  BY SMTT(40), <1>2, EnterStep
<1>3. ASSUME NEW p \in Callers, CancelCall(p) \/ CloseCommit(p) \/ CloseStream(p) PROVE IInv'
  BY SMTT(40), <1>3, CancelCallStep, CloseCommitStep, CloseStreamStep
<1>4. ASSUME NEW p \in Callers, Wake(p) PROVE IInv'
  BY SMTT(40), <1>4, UnlockedSteps
<1>5. ASSUME NEW p \in Callers, Mutation(p) PROVE IInv'
  <2>1. MutationLeaves(p) \/ MutationRefused(p) => call[p].pc \in {"run", "checked"} /\ Leave(p)
    BY DEF MutationLeaves, MutationRefused, MutationRuns
  <2>2. QED
    BY SMTT(40), <1>5, <2>1, LeaveStep, MutationFastStep, MutationWaitsStep, MutationTurnsStep DEF Mutation
<1>6. ASSUME NEW p \in Callers, StreamCall(p) PROVE IInv'
  <2>1. StreamLeaves(p) \/ StreamRefused(p) => call[p].pc \in {"run", "checked"} /\ Leave(p)
    BY Zenon DEF StreamLeaves, StreamRefused, StreamRuns
  <2>2. QED
    BY SMTT(40), <1>6, <2>1, LeaveStep, StreamWaitsStep, StreamGrantedStep DEF StreamCall
<1>7. ASSUME NEW p \in Callers, Reconnect(p) PROVE IInv'
  <2>1. ReconnectRefused(p) \/ ReconnectCancelled(p) \/ ReconnectLeaves(p) =>
           call[p].pc \in {"run", "checked"} /\ Leave(p)
    BY DEF ReconnectRefused, ReconnectCancelled, ReconnectLeaves, ReconnectRuns
  <2>2. QED
    BY SMTT(40), <1>7, <2>1, LeaveStep, ReconnectRegistersStep, UnlockedSteps, ReconnectWaitsStep,
       ReconnectFencesStep, ReconnectAdvancesStep DEF Reconnect
<1>8. CASE CloseStore \/ CancelRoot
  BY SMTT(40), <1>8, ClosingSteps
<1>9. CASE UNCHANGED vars
  BY <1>9 DEF vars, IInv, TypeOK, Registered, LeasesAreCurrent, NoMissedSignal, Owns, Closed, DrainIsQuiet
<1>10. QED
  BY SMTT(40), <1>1, <1>2, <1>3, <1>4, <1>5, <1>6, <1>7, <1>8, <1>9 DEF Next, Steps

\* Every state the session store reaches satisfies IInv: tokens match callers, leases are current,
\* no wakeup is lost, and a reported drain is real.
THEOREM InductiveInvariant == Spec => []IInv
<1>1. QED
  BY InitIInv, NextIInv, PTL DEF Spec

\* The state of the store stays in its types, the epoch never past its last value.
THEOREM TypeCorrect == Spec => []TypeOK
<1>1. IInv => TypeOK
  BY SMTT(40) DEF IInv
<1>2. QED
  BY <1>1, InductiveInvariant, PTL

\* For any number of clients and callers: a commit or stream lease that is held belongs to its
\* client's current epoch, whatever reconnects, cancellations and closes interleave.
THEOREM LeasesStayCurrent == Spec => []LeasesAreCurrent
<1>1. IInv => LeasesAreCurrent
  BY SMTT(40) DEF IInv
<1>2. QED
  BY <1>1, InductiveInvariant, PTL

\* Two callers are never inside the commit boundary of one client.
THEOREM CommitsExclude == Spec => []CommitIsExclusive
<1>1. IInv => CommitIsExclusive
  BY SMTT(40) DEF IInv, Registered, Fits, CommitIsExclusive
<1>2. QED
  BY <1>1, InductiveInvariant, PTL

\* No caller sleeps on a changed channel that will not be signalled for what it waits for.
THEOREM NoWakeupIsLost == Spec => []NoMissedSignal
<1>1. IInv => NoMissedSignal
  BY Zenon DEF IInv
<1>2. QED
  BY <1>1, InductiveInvariant, PTL

\* Shutdown never reports a drain while a caller holds or waits.
THEOREM DrainIsReal == Spec => []NoFalseDrain
<1>1. ASSUME IInv PROVE NoFalseDrain
  <2>1. ASSUME drained, NEW p \in Callers
        PROVE  closed /\ call[p].pc \notin {"commit", "stream"} /\ ~call[p].waiting
    <3>1. Fits(p, call[p], gate[call[p].client]) /\ call[p] \in CallType
      BY <1>1 DEF IInv, Registered, TypeOK
    <3>2. closed /\ \A c \in Clients : Quiet(gate[c])
      BY SMTT(40), <1>1, <2>1 DEF IInv, DrainIsQuiet
    <3>3. \A c \in Clients : Range(gate[c].mutations) = {} /\ Range(gate[c].reconnects) = {}
      BY <3>2 DEF Quiet, Range
    <3>4. QED
      BY Zenon, <3>1, <3>2, <3>3, BoundsAssumption DEF Fits, Quiet, CallType
  <2>2. drained => closed
    BY <1>1 DEF IInv, DrainIsQuiet
  <2>3. QED
    BY SMTT(40), <2>1, <2>2 DEF NoFalseDrain
<1>2. IInv => NoFalseDrain
  BY Zenon, <1>1
<1>3. QED
  BY <1>2, InductiveInvariant, PTL

\* Every step but Fresh and the advance of a reconnect keeps every epoch.
LEMMA EpochKept ==
  ASSUME IInv, NEW c \in Clients, NEW p \in Callers,
         \/ CancelCall(p) \/ CloseCommit(p) \/ CloseStream(p) \/ Steps(p),
         ~ReconnectAdvances(p)
  PROVE  gate'[c].epoch = gate[c].epoch
<1>1. gate \in [Clients -> SessionType]
  BY DEF IInv, TypeOK
<1>2. CASE UNCHANGED gate
  BY Zenon, <1>2
<1>3. CASE Leave(p)
  <2>1. \A d \in Clients : gate[d] \in SessionType /\ Without(gate[d], p).epoch = gate[d].epoch
    BY Zenon, <1>1 DEF Without, SessionType
  <2>2. QED
    BY Zenon, <1>1, <1>3, <2>1 DEF Leave
<1>4. CASE MutationFast(p) \/ CloseCommit(p)
  <2>1. CASE MutationFast(p)
    BY SMTT(40), <1>1, <2>1 DEF MutationFast, SessionType
  <2>2. CASE CloseCommit(p)
    BY SMTT(40), <1>1, <2>2 DEF CloseCommit, SessionType
  <2>3. QED
    BY SMTT(40), <1>4, <2>1, <2>2
<1>5. CASE MutationWaits(p)
  BY SMTT(40), <1>1, <1>5 DEF MutationWaits, SessionType
<1>6. CASE MutationTurns(p)
  BY Zenon, <1>1, <1>6 DEF MutationTurns, SessionType
<1>7. CASE StreamWaits(p) \/ StreamGranted(p) \/ CloseStream(p)
  <2>1. CASE StreamWaits(p)
    BY Zenon, <1>1, <2>1 DEF StreamWaits, SessionType
  <2>2. CASE StreamGranted(p)
    BY Zenon, <1>1, <2>2 DEF StreamGranted, SessionType
  <2>3. CASE CloseStream(p)
    BY Zenon, <1>1, <2>3 DEF CloseStream, SessionType
  <2>4. QED
    BY Zenon, <1>7, <2>1, <2>2, <2>3
<1>8. CASE ReconnectRegisters(p)
  BY Zenon, <1>1, <1>8 DEF ReconnectRegisters, SessionType
<1>9. \/ UNCHANGED gate \/ Leave(p)
      \/ MutationFast(p) \/ CloseCommit(p) \/ MutationWaits(p) \/ MutationTurns(p)
      \/ StreamWaits(p) \/ StreamGranted(p) \/ CloseStream(p) \/ ReconnectRegisters(p)
  BY Zenon DEF CancelCall, Steps, Wake, Mutation, MutationLeaves, MutationRefused, StreamCall, StreamLeaves,
         StreamRefused, Reconnect, ReconnectRefused, ReconnectChecks, ReconnectCancelled, ReconnectLeaves,
         ReconnectWaits, ReconnectFences
<1>10. QED
  BY SMTT(40), <1>2, <1>3, <1>4, <1>5, <1>6, <1>7, <1>8, <1>9

\* An epoch moves only by a reconnect that named it, by one, while no lease of its client is
\* held: the fence of ReconnectContext.
LEMMA EpochsAreFenced == IInv /\ Next => EpochStep
<1> DEFINE Fenced(c) ==
      gate'[c].epoch # gate[c].epoch /\ gate[c].epoch # 0 =>
        /\ gate'[c].epoch = gate[c].epoch + 1
        /\ \A p \in Callers : call[p].client = c => call[p].pc \notin {"commit", "stream"}
        /\ \E p \in Callers : /\ call[p].kind = "reconnect" /\ call[p].client = c
                              /\ call[p].epoch = gate[c].epoch /\ call'[p].pc = "idle"
<1>1. ASSUME IInv, Next, NEW c \in Clients
      PROVE  Fenced(c)
  <2>1. gate \in [Clients -> SessionType] /\ call \in [Callers -> CallType]
    BY <1>1 DEF IInv, TypeOK
  <2>2. ASSUME NEW d \in Clients, Fresh(d) PROVE Fenced(c)
    BY SMTT(40), <2>1, <2>2 DEF Fresh, SessionType
  <2>3. ASSUME NEW p \in Callers, ReconnectAdvances(p), call[p].client # c PROVE Fenced(c)
    <3>1. call[p].client \in Clients
      BY Zenon, <1>1, <2>3, InCallFacts DEF ReconnectAdvances
    <3>2. QED
      BY Zenon, <2>1, <2>3, <3>1 DEF ReconnectAdvances
  <2>4. ASSUME NEW p \in Callers, ReconnectAdvances(p), call[p].client = c PROVE Fenced(c)
    <3>1. gate'[c].epoch = gate[c].epoch + 1
      BY SMTT(40), <2>1, <2>4 DEF ReconnectAdvances, SessionType
    <3>2. \A q \in Callers : call[q].client = c => call[q].pc \notin {"commit", "stream"}
      BY SMTT(40), <1>1, <2>4, AdvanceIsFenced
    <3>3. call[p].kind = "reconnect" /\ call[p].epoch = gate[c].epoch
      BY SMTT(40), <1>1, <2>4 DEF ReconnectAdvances, IInv, Registered, Fits, Owns
    <3>4. call'[p].pc = "idle"
      <4> DEFINE left == [call EXCEPT ![p] = IdleCall]
      <4>1. left[p].pc = "idle" /\ call' = Signal(left, c)
        BY SMTT(40), <2>1, <2>4 DEF ReconnectAdvances, IdleCall
      <4> HIDE DEF left
      <4>2. QED
        BY <4>1 DEF Signal
    <3>5. QED
      BY SMTT(40), <2>4, <3>1, <3>2, <3>3, <3>4
  <2>5. CASE gate'[c].epoch = gate[c].epoch
    BY Zenon, <2>5
  <2>6. \/ \E d \in Clients : Fresh(d)
        \/ \E p \in Callers : ReconnectAdvances(p)
        \/ gate'[c].epoch = gate[c].epoch
    <3>1. ASSUME NEW p \in Callers, NEW d \in Clients, NEW kind, NEW e, Enter(p, kind, d, e)
          PROVE  gate'[c].epoch = gate[c].epoch
      BY Zenon, <3>1 DEF Enter
    <3>2. CloseStore \/ CancelRoot => gate'[c].epoch = gate[c].epoch
      BY Zenon DEF CloseStore, CancelRoot
    <3>3. QED
      BY SMTT(40), <1>1, <3>1, <3>2, EpochKept DEF Next
  <2> HIDE DEF Fenced
  <2>7. QED
    BY Zenon, <2>2, <2>3, <2>4, <2>5, <2>6
<1>2. QED
  BY Zenon, <1>1 DEF EpochStep

\* Signalling a client leaves a caller where it is or makes it run.
LEMMA SignalMoves ==
  ASSUME NEW calls \in [Callers -> CallType], NEW c, NEW q \in Callers
  PROVE  Signal(calls, c)[q].pc \in {calls[q].pc, "run"}
  BY SMTT(40) DEF Signal, CallType

\* A grant moves one caller and no other.
LEMMA GrantMoves ==
  ASSUME call \in [Callers -> CallType], NEW p \in Callers, NEW q \in Callers, NEW pc \in {"commit", "stream"}
  PROVE  /\ Grant(p, pc) \in [Callers -> CallType]
         /\ Grant(p, pc)[q].pc = IF q = p THEN pc ELSE call[q].pc
<1> DEFINE k == [call[p] EXCEPT !.pc = pc, !.waiting = FALSE]
<1>1. call[p] \in CallType /\ call[q] \in CallType
  OBVIOUS
<1>2. k \in CallType
  BY ZenonT(40), <1>1, CallUpdates
<1>5. k.pc = pc
  BY Zenon, <1>1 DEF CallType
<1>3. Grant(p, pc) = [call EXCEPT ![p] = k]
  BY Zenon DEF Grant
<1> HIDE DEF k
<1>4. QED
  BY SMTT(40), <1>2, <1>3, <1>5

\* A call that returns an error ends no other caller's wait with a lease.
LEMMA LeaveGrantsNothing ==
  ASSUME IInv, NEW p \in Callers, Leave(p), NEW q \in Callers
  PROVE  call'[q].pc \in {call[q].pc, "idle", "run"}
<1> DEFINE left == [call EXCEPT ![p] = IdleCall]
<1>1. call \in [Callers -> CallType] /\ IdleCall \in CallType
  BY BoundsAssumption DEF IInv, TypeOK, IdleCall, CallType
<1>2. left \in [Callers -> CallType] /\ left[q].pc \in {call[q].pc, "idle"}
  BY SMTT(40), <1>1 DEF IdleCall
<1>3. call' = left \/ call' = Signal(left, call[p].client)
  BY Zenon DEF Leave
<1> HIDE DEF left
<1>4. QED
  BY SMTT(40), <1>2, <1>3, SignalMoves

\* Only the two grants of tryAcquireMutationLocked and that of AcquireStream turn a running
\* call into a lease, and only for the caller that runs.
LEMMA GrantedBy ==
  ASSUME IInv, Next, NEW q \in Callers, call[q].pc = "run", call'[q].pc \in {"commit", "stream"}
  PROVE  MutationFast(q) \/ MutationTurns(q) \/ StreamGranted(q)
<1>1. /\ call \in [Callers -> CallType] /\ IdleCall \in CallType
      /\ \A p \in Callers : call[p] \in CallType
  BY BoundsAssumption DEF IInv, TypeOK, IdleCall, CallType
<1>2. ASSUME NEW c \in Clients, Fresh(c) PROVE FALSE
  BY Zenon, <1>2 DEF Fresh
<1>3. ASSUME NEW p \in Callers, NEW c \in Clients, NEW kind, NEW e, Enter(p, kind, c, e) PROVE FALSE
  BY SMTT(40), <1>1, <1>3 DEF Enter, IdleCall
<1>4. ASSUME NEW p \in Callers, CancelCall(p) \/ Wake(p) \/ ReconnectChecks(p) \/ ReconnectWaits(p) PROVE FALSE
  BY SMTT(40), <1>1, <1>4 DEF CancelCall, Wake, ReconnectChecks, ReconnectWaits, Sleep, CallType
<1>5. ASSUME NEW p \in Callers, CloseCommit(p) \/ CloseStream(p) \/ ReconnectAdvances(p) PROVE FALSE
  <2> DEFINE left == [call EXCEPT ![p] = IdleCall]
  <2>1. left \in [Callers -> CallType] /\ left[q].pc \in {call[q].pc, "idle"}
    BY SMTT(40), <1>1 DEF IdleCall
  <2>2. call' = Signal(left, call[p].client)
    BY Zenon, <1>5 DEF CloseCommit, CloseStream, ReconnectAdvances
  <2> HIDE DEF left
  <2>3. QED
    BY SMTT(40), <2>1, <2>2, SignalMoves
<1>6. ASSUME NEW p \in Callers, Leave(p) PROVE FALSE
  BY SMTT(40), <1>6, LeaveGrantsNothing
<1>7. ASSUME NEW p \in Callers, MutationWaits(p) \/ StreamWaits(p) PROVE FALSE
  BY SMTT(40), <1>1, <1>7 DEF MutationWaits, StreamWaits, Sleep, CallType
<1>8. ASSUME NEW p \in Callers, ReconnectRegisters(p) PROVE FALSE
  <2> DEFINE k == [call[p] EXCEPT !.waiting = TRUE]
             left == [call EXCEPT ![p] = k]
  <2>1. k \in CallType
    BY ZenonT(40), <1>1, CallUpdates
  <2>5. k.pc = call[p].pc
    BY Zenon, <1>1 DEF CallType
  <2> HIDE DEF k
  <2>4. left \in [Callers -> CallType] /\ left[q].pc = call[q].pc
    BY SMTT(40), <1>1, <2>1, <2>5
  <2> USE DEF k
  <2>2. call' = Signal(left, call[p].client)
    BY Zenon, <1>8 DEF ReconnectRegisters
  <2> HIDE DEF k, left
  <2>3. QED
    BY SMTT(40), <2>2, <2>4, SignalMoves
<1>9. ASSUME NEW p \in Callers, ReconnectFences(p) PROVE FALSE
  <2>1. call'[q] \in {[call[q] EXCEPT !.pc = "run", !.fencing = TRUE], [call[q] EXCEPT !.cancelled = TRUE], call[q]}
    BY ZenonT(40), <1>9 DEF ReconnectFences
  <2>2. /\ [call[q] EXCEPT !.pc = "run", !.fencing = TRUE].pc = "run"
        /\ [call[q] EXCEPT !.cancelled = TRUE].pc = "run"
    BY Zenon, <1>1 DEF CallType
  <2>3. QED
    BY Zenon, <2>1, <2>2
<1>10. ASSUME CloseStore \/ CancelRoot PROVE FALSE
  BY SMTT(40), <1>1, <1>10 DEF CloseStore, CancelRoot, CallType
<1>11. ASSUME NEW p \in Callers, p # q, MutationFast(p) \/ MutationTurns(p) \/ StreamGranted(p) PROVE FALSE
  <2>1. \A pc \in {"commit", "stream"} :
           Grant(p, pc) \in [Callers -> CallType] /\ Grant(p, pc)[q].pc = call[q].pc
    BY Zenon, <1>1, <1>11, GrantMoves
  <2>2. \E pc \in {"commit", "stream"} :
           call' = Grant(p, pc) \/ call' = Signal(Grant(p, pc), call[p].client)
    BY Zenon, <1>11 DEF MutationFast, MutationTurns, StreamGranted
  <2>3. QED
    BY SMTT(40), <2>1, <2>2, SignalMoves
<1>12. ASSUME NEW p \in Callers, Steps(p)
       PROVE  \/ Wake(p) \/ ReconnectChecks(p) \/ ReconnectWaits(p) \/ ReconnectAdvances(p) \/ Leave(p)
              \/ MutationWaits(p) \/ StreamWaits(p) \/ ReconnectRegisters(p) \/ ReconnectFences(p)
              \/ MutationFast(p) \/ MutationTurns(p) \/ StreamGranted(p)
  BY Zenon, <1>12 DEF Steps, Mutation, MutationLeaves, MutationRefused, StreamCall, StreamLeaves,
     StreamRefused, Reconnect, ReconnectRefused, ReconnectCancelled, ReconnectLeaves
<1>13. QED
  BY ZenonT(40), <1>2, <1>3, <1>4, <1>5, <1>6, <1>7, <1>8, <1>9, <1>10, <1>11, <1>12 DEF Next

\* No lease is granted past a registered reconnect, and no commit past the head of the queue.
LEMMA QueuesAreRespected == IInv /\ Next => QueueStep
<1> SUFFICES ASSUME IInv, Next, NEW p \in Callers, call[p].pc = "run", call'[p].pc \in {"commit", "stream"}
             PROVE  /\ gate[call[p].client].reconnects = <<>>
                    /\ call'[p].pc = "commit" /\ gate[call[p].client].mutations # <<>> =>
                          Head(gate[call[p].client].mutations) = p
  BY Zenon DEF QueueStep
<1>1. CASE MutationFast(p)
  BY Zenon, <1>1 DEF MutationFast, GateFree
<1>2. CASE MutationTurns(p)
  BY Zenon, <1>2 DEF MutationTurns, MutationTurn
<1>3. CASE StreamGranted(p)
  <2>1. call \in [Callers -> CallType]
    BY DEF IInv, TypeOK
  <2>2. Grant(p, "stream") \in [Callers -> CallType] /\ Grant(p, "stream")[p].pc = "stream"
    BY Zenon, <2>1, GrantMoves
  <2>3. call'[p].pc # "commit"
    BY SMTT(40), <1>3, <2>2, SignalMoves DEF StreamGranted
  <2>4. QED
    BY Zenon, <1>3, <2>3 DEF StreamGranted
<1>4. QED
  BY Zenon, <1>1, <1>2, <1>3, GrantedBy

\* For any number of callers: a reconnect moves the epoch only while no lease of its client is
\* held, and no lease is granted past a registered reconnect or past the head of the queue.
THEOREM ReconnectsAreFences == Spec => ReconnectsFence
<1>1. IInv /\ [Next]_vars => [EpochStep /\ QueueStep]_vars
  BY EpochsAreFenced, QueuesAreRespected
<1>2. QED
  BY <1>1, InductiveInvariant, PTL DEF Spec, ReconnectsFence

\* For any number of clients and callers the gates of the store are sound.
THEOREM GatesStaySound == Spec => []GatesAreSound
<1>1. TypeOK /\ LeasesAreCurrent /\ CommitIsExclusive /\ NoMissedSignal /\ NoFalseDrain => GatesAreSound
  BY DEF GatesAreSound
<1>2. QED
  BY <1>1, TypeCorrect, LeasesStayCurrent, CommitsExclude, NoWakeupIsLost, DrainIsReal, PTL
=============================================================================
