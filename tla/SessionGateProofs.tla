-------------------------- MODULE SessionGateProofs --------------------------
(***************************************************************************)
(* For any number of clients, callers, waiters, streams and epochs: the    *)
(* queues, the active lease and the stream set of a gate hold exactly the  *)
(* callers that wait and hold, each once, and both capacities are kept.    *)
(***************************************************************************)
EXTENDS SessionStore, SequenceTheorems, FiniteSetTheorems, TLAPS

-----------------------------------------------------------------------------
(* Queues without repetition.                                              *)

\* A token that leaves a queue in which it is once leaves it altogether, and only it does.
LEMMA DequeueExact ==
  ASSUME NEW S, NEW q \in Seq(S), NEW e, IsInjective(q)
  PROVE  LET d == Dequeue(q, e)
         IN  /\ d \in Seq(S) /\ IsInjective(d) /\ e \notin Range(d) /\ Len(d) \in Nat /\ Len(d) <= Len(q)
             /\ \A x : x # e => (x \in Range(d) <=> x \in Range(q))
<1>1. CASE ~ \E i \in DOMAIN q : q[i] = e
  BY <1>1 DEF Dequeue, Range
<1>2. CASE \E i \in DOMAIN q : q[i] = e
  <2> DEFINE k == CHOOSE i \in DOMAIN q : q[i] = e
             a == SubSeq(q, 1, k - 1)
             b == SubSeq(q, k + 1, Len(q))
             d == a \o b
  <2>1. k \in 1 .. Len(q) /\ q[k] = e
    BY <1>2
  <2>2. Dequeue(q, e) = d
    BY Zenon, <1>2 DEF Dequeue
  <2> HIDE DEF k
  <2>3. /\ a \in Seq(S) /\ Len(a) = k - 1
        /\ \A i \in 1 .. k - 1 : a[i] = q[i]
    BY <2>1, ElementOfSeq, SubSeqProperties, k - 1 \in Int
  <2>4. /\ b \in Seq(S) /\ Len(b) = Len(q) - k
        /\ \A i \in 1 .. Len(q) - k : b[i] = q[k + i]
    BY <2>1, ElementOfSeq, SubSeqProperties, k + 1 \in Int, Len(q) \in Int
  <2> HIDE DEF a, b
  <2>5. Len(q) \in Nat /\ Len(a) + Len(b) = Len(q) - 1 /\ DOMAIN q = 1 .. Len(q)
    BY <2>1, <2>3, <2>4, LenProperties
  <2>6. /\ d \in Seq(S) /\ Len(d) = Len(a) + Len(b)
        /\ \A i \in 1 .. Len(a) + Len(b) : d[i] = IF i <= Len(a) THEN a[i] ELSE b[i - Len(a)]
    BY Zenon, <2>3, <2>4, ConcatProperties
  <2> HIDE DEF d
  <2>7. Len(d) = Len(q) - 1 /\ DOMAIN d = 1 .. Len(q) - 1
    BY <2>5, <2>6, LenProperties
  <2> DEFINE at(i) == IF i < k THEN i ELSE i + 1
  <2>8. \A i \in DOMAIN d : at(i) \in DOMAIN q /\ at(i) # k /\ d[i] = q[at(i)]
    <3> SUFFICES ASSUME NEW i \in 1 .. Len(q) - 1
                 PROVE  at(i) \in 1 .. Len(q) /\ at(i) # k /\ d[i] = q[at(i)]
      BY <2>5, <2>7
    <3>1. CASE i < k
      BY <2>1, <2>3, <2>5, <2>6, <3>1
    <3>2. CASE ~(i < k)
      <4>1. i - (k - 1) \in 1 .. Len(q) - k /\ k + (i - (k - 1)) = i + 1
        BY <2>1, <2>5, <3>2
      <4>2. d[i] = b[i - (k - 1)]
        BY <2>1, <2>3, <2>5, <2>6, <3>2
      <4>3. b[i - (k - 1)] = q[i + 1]
        BY <2>4, <4>1
      <4> QED  BY <2>1, <2>5, <3>2, <4>2, <4>3
    <3> QED  BY <3>1, <3>2
  <2>9. \A i, j \in DOMAIN d : at(i) = at(j) => i = j
    BY <2>1, <2>7
  <2>10. \A j \in DOMAIN q : j # k => \E i \in DOMAIN d : at(i) = j
    <3> SUFFICES ASSUME NEW j \in 1 .. Len(q), j # k
                 PROVE  \E i \in 1 .. Len(q) - 1 : at(i) = j
      BY <2>5, <2>7
    <3>1. CASE j < k
      BY <2>1, <2>5, <3>1
    <3>2. CASE j > k
      <4>1. j - 1 \in 1 .. Len(q) - 1 /\ at(j - 1) = j
        BY <2>1, <2>5, <3>2
      <4> QED  BY <4>1
    <3> QED  BY <2>1, <3>1, <3>2
  <2> HIDE DEF at
  <2>11. IsInjective(d)
    BY <2>8, <2>9 DEF IsInjective
  <2>12. e \notin Range(d)
    BY <2>1, <2>5, <2>8 DEF IsInjective, Range
  <2>13. ASSUME NEW x, x # e
         PROVE  x \in Range(d) <=> x \in Range(q)
    <3>1. x \in Range(d) => x \in Range(q)
      BY <2>8 DEF Range
    <3>2. ASSUME x \in Range(q) PROVE x \in Range(d)
      <4>1. PICK j \in DOMAIN q : q[j] = x
        BY <3>2 DEF Range
      <4>2. PICK i \in DOMAIN d : at(i) = j
        BY <2>1, <2>10, <2>13, <4>1
      <4> QED  BY <2>8, <4>1, <4>2 DEF Range
    <3> QED  BY <3>1, <3>2
  <2> QED  BY <2>2, <2>5, <2>6, <2>7, <2>11, <2>12, <2>13
<1> QED  BY <1>1, <1>2

\* A token joins a queue it is not in.
LEMMA AppendExact ==
  ASSUME NEW S, NEW q \in Seq(S), NEW e \in S, IsInjective(q), e \notin Range(q)
  PROVE  LET d == Append(q, e)
         IN  /\ d \in Seq(S) /\ IsInjective(d) /\ e \in Range(d) /\ Len(d) = Len(q) + 1
             /\ \A x : x # e => (x \in Range(d) <=> x \in Range(q))
<1> DEFINE d == Append(q, e)
<1>1. /\ Len(d) = Len(q) + 1 /\ DOMAIN d = 1 .. Len(q) + 1 /\ DOMAIN q = 1 .. Len(q) /\ Len(q) \in Nat
      /\ d[Len(q) + 1] = e /\ (\A i \in 1 .. Len(q) : d[i] = q[i]) /\ d \in Seq(S)
  BY AppendProperties, LenProperties
<1> HIDE DEF d
<1>2. \A i \in DOMAIN q : q[i] # e
  BY DEF Range
<1>3. IsInjective(d)
  BY <1>1, <1>2 DEF IsInjective
<1>4. e \in Range(d)
  <2>1. Len(q) + 1 \in DOMAIN d
    BY <1>1
  <2> QED  BY <1>1, <2>1 DEF Range
<1>5. \A x : x # e => (x \in Range(d) <=> x \in Range(q))
  BY <1>1 DEF Range
<1> QED  BY <1>1, <1>3, <1>4, <1>5 DEF d

\* An empty queue has no token.
LEMMA EmptyQueue == \A x : x \notin Range(<<>>)
  BY DEF Range

\* The head of a queue is served.
LEMMA TailExact ==
  ASSUME NEW S, NEW q \in Seq(S), IsInjective(q), q # <<>>
  PROVE  LET d == Tail(q)
         IN  /\ d \in Seq(S) /\ IsInjective(d) /\ Head(q) \notin Range(d)
             /\ Len(d) = Len(q) - 1 /\ Len(d) \in Nat
             /\ \A x : x # Head(q) => (x \in Range(d) <=> x \in Range(q))
<1> DEFINE d == Tail(q)
<1>1. /\ Len(d) = Len(q) - 1 /\ Len(q) \in Nat \ {0} /\ DOMAIN d = 1 .. Len(q) - 1 /\ DOMAIN q = 1 .. Len(q)
      /\ Head(q) = q[1] /\ (\A i \in 1 .. Len(q) - 1 : d[i] = q[i + 1]) /\ d \in Seq(S)
  BY HeadTailProperties, LenProperties, EmptySeq
<1> HIDE DEF d
<1>2. IsInjective(d)
  <2> SUFFICES ASSUME NEW i \in 1 .. Len(q) - 1, NEW j \in 1 .. Len(q) - 1, d[i] = d[j]
               PROVE  i = j
    BY Zenon, <1>1 DEF IsInjective
  <2>1. i + 1 \in DOMAIN q /\ j + 1 \in DOMAIN q /\ q[i + 1] = q[j + 1]
    BY <1>1
  <2>2. i + 1 = j + 1
    BY Zenon, <2>1 DEF IsInjective
  <2> QED  BY <1>1, <2>2
<1>3. Head(q) \notin Range(d)
  BY <1>1 DEF IsInjective, Range
<1>4. ASSUME NEW x, x # Head(q)
      PROVE  x \in Range(d) <=> x \in Range(q)
  <2>1. x \in Range(d) => x \in Range(q)
    BY <1>1 DEF Range
  <2>2. ASSUME x \in Range(q) PROVE x \in Range(d)
    <3>1. PICK j \in 1 .. Len(q) : q[j] = x
      BY <1>1, <2>2 DEF Range
    <3>2. j - 1 \in 1 .. Len(q) - 1 /\ (j - 1) + 1 = j
      BY <1>1, <1>4, <3>1
    <3>3. j - 1 \in DOMAIN d /\ d[j - 1] = x
      BY <1>1, <3>1, <3>2
    <3> QED  BY <3>3 DEF Range
  <2> QED  BY <2>1, <2>2
<1> QED  BY <1>1, <1>2, <1>3, <1>4 DEF d

-----------------------------------------------------------------------------
(* The invariant, by caller and client.                                    *)

\* Where the token of caller q is in the gate of client c.
InPlace(q, k, c, g) ==
    /\ q \in Range(g.mutations) <=> k.client = c /\ k.waiting /\ k.kind = "mutation"
    /\ q \in Range(g.reconnects) <=> k.client = c /\ k.waiting /\ k.kind = "reconnect"
    /\ q \in g.streamWaiters <=> k.client = c /\ k.waiting /\ k.kind = "stream"
    /\ q \in g.streams <=> k.client = c /\ k.pc = "stream"
    /\ g.active = q <=> k.client = c /\ k.pc = "commit"

\* A gate has each token once, and no more than it may.
Bounded(g) ==
    /\ IsInjective(g.mutations) /\ IsInjective(g.reconnects)
    /\ IsFiniteSet(g.streamWaiters) /\ IsFiniteSet(g.streams)
    /\ GateWaiters(g) <= MaxWaiters /\ Cardinality(g.streams) <= MaxStreams

\* What the state of a caller says by itself: who is inside names a client, who waits is awake,
\* asleep or past the check, and a reconnect that waits has an epoch to move to.
Sound(k) ==
    /\ k \in CallType
    /\ k.pc # "idle" => k.client \in Clients
    /\ k.waiting => k.pc \in {"run", "asleep", "checked"}
    /\ k.pc \in {"asleep", "checked"} => k.waiting
    /\ k.pc = "checked" => k.kind = "reconnect"
    /\ k.waiting /\ k.kind = "reconnect" => k.epoch # MaxEpoch

\* The inductive invariant.
IInv ==
    /\ gate \in [Clients -> SessionType] /\ call \in [Callers -> CallType]
    /\ \A q \in Callers : Sound(call[q])
    /\ \A c \in Clients : Bounded(gate[c]) /\ \A q \in Callers : InPlace(q, call[q], c, gate[c])

\* A caller that waits for nothing and holds nothing.
Loose(k) == ~k.waiting /\ k.pc \notin {"commit", "stream"}

\* A caller whose tokens stay where they are ...
Alike(k, l) ==
    /\ l.client = k.client /\ l.kind = k.kind /\ (l.waiting <=> k.waiting)
    /\ l.pc = "commit" <=> k.pc = "commit"
    /\ l.pc = "stream" <=> k.pc = "stream"
    /\ Sound(k) => Sound(l)

\* ... and a gate that leaves them there.
Same(q, g, h) ==
    /\ q \in Range(h.mutations) <=> q \in Range(g.mutations)
    /\ q \in Range(h.reconnects) <=> q \in Range(g.reconnects)
    /\ q \in h.streamWaiters <=> q \in g.streamWaiters
    /\ q \in h.streams <=> q \in g.streams
    /\ h.active = q <=> g.active = q

\* Then its tokens are where they were.
LEMMA StaysInPlace ==
  ASSUME NEW q, NEW c, NEW k, NEW l, NEW g, NEW h, InPlace(q, k, c, g), Alike(k, l), Same(q, g, h)
  PROVE  InPlace(q, l, c, h)
  BY DEF InPlace, Alike, Same

\* Signalling a client moves no token.
LEMMA SignalAlike ==
  ASSUME NEW calls \in [Callers -> CallType], NEW c, NEW q \in Callers
  PROVE  Alike(calls[q], Signal(calls, c)[q])
<1>1. calls[q] \in CallType
  OBVIOUS
<1>2. CASE calls[q].pc = "asleep" /\ calls[q].client = c
  <2>1. Signal(calls, c)[q] = [calls[q] EXCEPT !.pc = "run"]
    BY Zenon, <1>2 DEF Signal
  <2> QED  BY <1>1, <1>2, <2>1 DEF CallType, Alike, Sound
<1>3. CASE ~(calls[q].pc = "asleep" /\ calls[q].client = c)
  <2>1. Signal(calls, c)[q] = calls[q]
    BY Zenon, <1>3 DEF Signal
  <2> QED  BY <2>1 DEF Alike
<1> QED  BY <1>2, <1>3

\* A caller with no token is in no gate.
LEMMA LooseIsOut ==
  ASSUME NEW q, NEW k, NEW c, NEW g, Loose(k), InPlace(q, k, c, g)
  PROVE  /\ q \notin Range(g.mutations) /\ q \notin Range(g.reconnects)
         /\ q \notin g.streamWaiters /\ q \notin g.streams /\ g.active # q
  BY DEF Loose, InPlace

\* A step that moves no token.
LEMMA NobodyMoves ==
  ASSUME IInv, call' = [q \in Callers |-> call'[q]], \A q \in Callers : Alike(call[q], call'[q]), UNCHANGED gate
  PROVE  IInv'
<1>1. ASSUME NEW c \in Clients, NEW q \in Callers
      PROVE  InPlace(q, call'[q], c, gate'[c])
  <2>1. InPlace(q, call[q], c, gate[c])
    BY DEF IInv
  <2>2. Same(q, gate[c], gate'[c])
    BY DEF Same
  <2> QED  BY <2>1, <2>2, StaysInPlace
<1>2. ASSUME NEW c \in Clients
      PROVE  Bounded(gate'[c])
  BY DEF IInv
<1>3. ASSUME NEW q \in Callers
      PROVE  Sound(call'[q]) /\ call'[q] \in CallType
  <2>1. Sound(call[q]) /\ Alike(call[q], call'[q])
    BY DEF IInv
  <2> QED  BY <2>1 DEF Alike, Sound
<1>4. call' \in [Callers -> CallType] /\ gate' \in [Clients -> SessionType]
  <2>1. [q \in Callers |-> call'[q]] \in [Callers -> CallType]
    BY <1>3
  <2> QED  BY Zenon, <2>1 DEF IInv
<1> QED  BY Zenon, <1>1, <1>2, <1>3, <1>4 DEF IInv

\* A step of caller p in the gate of client c.
LEMMA OneMoves ==
  ASSUME IInv, NEW p \in Callers, NEW c \in Clients,
         gate' \in [Clients -> SessionType], call' \in [Callers -> CallType], \A q \in Callers : Sound(call'[q]),
         \A d \in Clients \ {c} : gate'[d] = gate[d],
         \A q \in Callers \ {p} : Alike(call[q], call'[q]),
         \A q \in Callers \ {p} : Same(q, gate[c], gate'[c]),
         call[p].client = c \/ Loose(call[p]), call'[p].client = c \/ Loose(call'[p]),
         InPlace(p, call'[p], c, gate'[c]), Bounded(gate'[c])
  PROVE  IInv'
<1>1. ASSUME NEW d \in Clients
      PROVE  Bounded(gate'[d])
  BY DEF IInv
<1>2. ASSUME NEW d \in Clients, NEW q \in Callers
      PROVE  InPlace(q, call'[q], d, gate'[d])
  <2>1. InPlace(q, call[q], d, gate[d])
    BY DEF IInv
  <2>2. CASE d = c /\ q = p
    BY <2>2
  <2>3. CASE d = c /\ q # p
    <3>1. Alike(call[q], call'[q]) /\ Same(q, gate[d], gate'[d])
      BY <2>3
    <3> QED  BY <2>1, <3>1, StaysInPlace
  <2>4. CASE d # c /\ q # p
    <3>1. Alike(call[q], call'[q]) /\ gate'[d] = gate[d]
      BY <2>4
    <3>2. Same(q, gate[d], gate'[d])
      BY <3>1 DEF Same
    <3> QED  BY <2>1, <3>1, <3>2, StaysInPlace
  <2>5. CASE d # c /\ q = p
    <3>1. gate'[d] = gate[d]
      BY <2>5
    <3> QED  BY <2>1, <2>5, <3>1 DEF InPlace, Loose
  <2> QED  BY <2>2, <2>3, <2>4, <2>5
<1> QED  BY <1>1, <1>2 DEF IInv

-----------------------------------------------------------------------------
(* Steps that move no token.                                               *)

\* Fresh opens an empty gate.
LEMMA FreshMatches ==
  ASSUME IInv, NEW c \in Clients, Fresh(c)
  PROVE  IInv'
<1>1. UNCHANGED call /\ gate' = [gate EXCEPT ![c].epoch = 1] /\ gate \in [Clients -> SessionType]
  BY DEF Fresh, IInv
<1>2. \A d \in Clients : /\ gate'[d].active = gate[d].active
                         /\ gate'[d].mutations = gate[d].mutations
                         /\ gate'[d].reconnects = gate[d].reconnects
                         /\ gate'[d].streamWaiters = gate[d].streamWaiters
                         /\ gate'[d].streams = gate[d].streams
  BY Zenon, <1>1 DEF SessionType
<1>3. ASSUME NEW d \in Clients, NEW q \in Callers
      PROVE  InPlace(q, call'[q], d, gate'[d])
  <2>1. InPlace(q, call[q], d, gate[d])
    BY DEF IInv
  <2> QED  BY <1>1, <1>2, <2>1 DEF InPlace
<1>4. ASSUME NEW d \in Clients
      PROVE  Bounded(gate'[d])
  <2>1. Bounded(gate[d])
    BY DEF IInv
  <2> QED  BY Zenon, <1>2, <2>1 DEF Bounded, GateWaiters
<1>5. gate' \in [Clients -> SessionType]
  <2>1. [gate[c] EXCEPT !.epoch = 1] \in SessionType
    <3>1. gate[c] \in SessionType /\ 1 \in 0 .. MaxEpoch
      BY <1>1, BoundsAssumption
    <3> QED  BY Zenon, <3>1 DEF SessionType
  <2> QED  BY Zenon, <1>1, <2>1
<1> QED  BY Zenon, <1>1, <1>3, <1>4, <1>5 DEF IInv

\* A change of the caller alone that keeps what its tokens depend on.
LEMMA CallerAlike ==
  ASSUME IInv, NEW p \in Callers, NEW l, call' = [call EXCEPT ![p] = l], Alike(call[p], l), UNCHANGED gate
  PROVE  IInv'
<1>1. ASSUME NEW q \in Callers
      PROVE  Alike(call[q], call'[q])
  <2>1. CASE q = p
    BY <2>1 DEF IInv
  <2>2. CASE q # p
    <3>1. call'[q] = call[q]
      BY <2>2 DEF IInv
    <3> QED  BY <3>1 DEF Alike
  <2> QED  BY <2>1, <2>2
<1>2. call' = [q \in Callers |-> call'[q]]
  BY Zenon DEF IInv
<1> QED  BY <1>1, <1>2, NobodyMoves

\* A cancellation, a wakeup, the unlocked check of a reconnect and its wait.
LEMMA UnlockedMatches ==
  ASSUME IInv, NEW p \in Callers, CancelCall(p) \/ Wake(p) \/ ReconnectChecks(p) \/ ReconnectWaits(p)
  PROVE  IInv'
<1> DEFINE k == call[p]
<1>1. k \in CallType /\ call \in [Callers -> CallType] /\ UNCHANGED gate
  BY DEF IInv, CancelCall, Wake, ReconnectChecks, ReconnectWaits
<1>2. CASE CancelCall(p)
  <2> DEFINE l == [k EXCEPT !.ctxDone = TRUE]
  <2>1. call' = [call EXCEPT ![p] = l]
    BY <1>1, <1>2 DEF CancelCall
  <2>2. Alike(k, l)
    BY Zenon, <1>1 DEF CallType, Alike, Sound
  <2> QED  BY Zenon, <1>1, <2>1, <2>2, CallerAlike
<1>3. CASE Wake(p)
  <2> DEFINE l == [k EXCEPT !.pc = "run"]
  <2>1. call' = [call EXCEPT ![p] = l] /\ k.pc = "asleep"
    BY <1>1, <1>3 DEF Wake
  <2>2. Alike(k, l)
    BY <1>1, <2>1 DEF CallType, Alike, Sound
  <2> QED  BY Zenon, <1>1, <2>1, <2>2, CallerAlike
<1>4. CASE ReconnectChecks(p)
  <2> DEFINE l == [k EXCEPT !.pc = "checked"]
  <2>1. call' = [call EXCEPT ![p] = l] /\ k.pc = "run"
    BY <1>1, <1>4 DEF ReconnectChecks, ReconnectRuns
  <2>2. Alike(k, l)
    <3>1. k.waiting /\ k.kind = "reconnect"
      BY <1>4 DEF ReconnectChecks, ReconnectRuns
    <3> QED  BY <1>1, <2>1, <3>1 DEF CallType, Alike, Sound
  <2> QED  BY Zenon, <1>1, <2>1, <2>2, CallerAlike
<1>5. CASE ReconnectWaits(p)
  <2> DEFINE l == [k EXCEPT !.pc = "asleep", !.waiting = TRUE]
  <2>1. call' = [call EXCEPT ![p] = l] /\ k.pc = "checked"
    BY <1>1, <1>5, Zenon DEF ReconnectWaits, Sleep
  <2>2. k.waiting
    BY <2>1 DEF IInv, Sound
  <2>3. Alike(k, l)
    BY Zenon, <1>1, <2>1, <2>2 DEF CallType, Alike, Sound
  <2> QED  BY Zenon, <1>1, <2>1, <2>3, CallerAlike
<1> QED  BY <1>2, <1>3, <1>4, <1>5

\* Fencing, Close and the end of the root mark callers and wake them.
LEMMA BroadcastMatches ==
  ASSUME IInv, (\E p \in Callers : ReconnectFences(p)) \/ CloseStore \/ CancelRoot
  PROVE  IInv'
<1>1. UNCHANGED gate
  BY Zenon DEF ReconnectFences, CloseStore, CancelRoot
<1>2. ASSUME NEW q \in Callers
      PROVE  \/ call'[q] = call[q]
             \/ call[q].pc = "asleep" /\ call'[q] = [call[q] EXCEPT !.pc = "run"]
             \/ call'[q] = [call[q] EXCEPT !.cancelled = TRUE]
             \/ call[q].pc = "checked" /\ call'[q] = [call[q] EXCEPT !.pc = "run", !.fencing = TRUE]
  <2>1. CASE CloseStore \/ CancelRoot
    BY Zenon, <2>1 DEF CloseStore, CancelRoot
  <2>2. CASE \E p \in Callers : ReconnectFences(p)
    BY ZenonT(60), <2>2 DEF ReconnectFences
  <2> QED  BY <2>1, <2>2
<1>3. ASSUME NEW q \in Callers
      PROVE  Alike(call[q], call'[q])
  <2>1. call[q] \in CallType
    BY DEF IInv
  <2>2. CASE call'[q] = call[q]
    BY <2>2 DEF Alike
  <2>3. CASE call[q].pc = "asleep" /\ call'[q] = [call[q] EXCEPT !.pc = "run"]
    BY <2>1, <2>3 DEF CallType, Alike, Sound
  <2>4. CASE call'[q] = [call[q] EXCEPT !.cancelled = TRUE]
    BY Zenon, <2>1, <2>4 DEF CallType, Alike, Sound
  <2>5. CASE call[q].pc = "checked" /\ call'[q] = [call[q] EXCEPT !.pc = "run", !.fencing = TRUE]
    BY Zenon, <2>1, <2>5 DEF CallType, Alike, Sound
  <2> QED  BY Zenon, <1>2, <2>2, <2>3, <2>4, <2>5
<1>4. call' = [q \in Callers |-> call'[q]]
  BY Zenon DEF ReconnectFences, CloseStore, CancelRoot
<1> QED  BY <1>1, <1>3, <1>4, NobodyMoves

-----------------------------------------------------------------------------
(* Steps that move the token of their caller.                              *)

\* Caller p is now as l says, and the gate of client c as h says.
Moved(p, l) ==
    /\ call' = [q \in Callers |-> call'[q]]
    /\ Sound(l) /\ Alike(l, call'[p])
    /\ \A q \in Callers \ {p} : Alike(call[q], call'[q])

Became(c, h) ==
    /\ gate' \in [Clients -> SessionType]
    /\ gate'[c] = h /\ \A d \in Clients \ {c} : gate'[d] = gate[d]

\* The caller changes, and perhaps everybody of its client is signalled.
LEMMA MovedBy ==
  ASSUME call \in [Callers -> CallType], NEW p \in Callers, NEW l \in CallType, Sound(l), NEW c,
         call' = [call EXCEPT ![p] = l] \/ call' = Signal([call EXCEPT ![p] = l], c)
  PROVE  Moved(p, l)
<1> DEFINE f == [call EXCEPT ![p] = l]
<1>1. f \in [Callers -> CallType] /\ f[p] = l /\ \A q \in Callers \ {p} : f[q] = call[q]
  OBVIOUS
<1>2. call' = f \/ call' = Signal(f, c)
  OBVIOUS
<1> HIDE DEF f
<1>3. \A q \in Callers : Alike(f[q], call'[q])
  <2>1. CASE call' = f
    BY <2>1 DEF Alike
  <2>2. CASE call' = Signal(f, c)
    BY <1>1, <2>2, SignalAlike
  <2> QED  BY <1>2, <2>1, <2>2
<1>4. call' = [q \in Callers |-> call'[q]]
  <2>1. f = [q \in Callers |-> f[q]]
    BY <1>1
  <2>2. Signal(f, c) = [q \in Callers |-> Signal(f, c)[q]]
    BY Zenon DEF Signal
  <2> QED  BY Zenon, <1>2, <2>1, <2>2
<1> QED  BY Zenon, <1>1, <1>3, <1>4 DEF Moved

\* The gate of one client changes.
LEMMA BecameBy ==
  ASSUME gate \in [Clients -> SessionType], NEW c \in Clients, NEW h \in SessionType, gate' = [gate EXCEPT ![c] = h]
  PROVE  Became(c, h)
  BY DEF Became

\* What is to be shown of such a step.
LEMMA TokenStep ==
  ASSUME IInv, NEW p \in Callers, NEW c \in Clients, NEW l, NEW h, Moved(p, l), Became(c, h),
         \A q \in Callers \ {p} : Same(q, gate[c], h),
         call[p].client = c \/ Loose(call[p]), l.client = c \/ Loose(l),
         InPlace(p, l, c, h), Bounded(h)
  PROVE  IInv'
<1>1. InPlace(p, call'[p], c, h)
  <2>1. Alike(l, call'[p]) /\ Same(p, h, h)
    BY DEF Moved, Same
  <2> QED  BY <2>1, StaysInPlace
<1>2. call'[p].client = c \/ Loose(call'[p])
  BY DEF Moved, Alike, Loose
<1>3. /\ \A d \in Clients \ {c} : gate'[d] = gate[d]
      /\ \A q \in Callers \ {p} : Alike(call[q], call'[q])
      /\ \A q \in Callers \ {p} : Same(q, gate[c], gate'[c])
      /\ InPlace(p, call'[p], c, gate'[c]) /\ Bounded(gate'[c])
  BY <1>1 DEF Moved, Became
<1>4. ASSUME NEW q \in Callers
      PROVE  Sound(call'[q]) /\ call'[q] \in CallType
  <2>1. Sound(call[q])
    BY DEF IInv
  <2>2. Sound(call'[q])
    BY Zenon, <2>1 DEF Moved, Alike
  <2> QED  BY <2>2 DEF Sound
<1>5. call' \in [Callers -> CallType] /\ gate' \in [Clients -> SessionType]
  <2>1. [q \in Callers |-> call'[q]] \in [Callers -> CallType]
    BY <1>4
  <2> QED  BY Zenon, <2>1 DEF Moved, Became
<1> QED  BY <1>2, <1>3, <1>4, <1>5, OneMoves

\* What IInv says of the caller's own gate.
LEMMA OwnPlace ==
  ASSUME IInv, NEW p \in Callers, call[p].pc # "idle"
  PROVE  /\ call[p].client \in Clients /\ call[p] \in CallType /\ gate[call[p].client] \in SessionType
         /\ call \in [Callers -> CallType] /\ gate \in [Clients -> SessionType]
         /\ InPlace(p, call[p], call[p].client, gate[call[p].client]) /\ Bounded(gate[call[p].client])
         /\ Sound(call[p])
<1>1. call[p] \in CallType /\ Sound(call[p])
  BY DEF IInv
<1>2. call[p].client \in Clients
  BY <1>1 DEF Sound
<1> QED  BY <1>1, <1>2 DEF IInv

\* Taking a caller out of a set of the gate ...
LEMMA FewerOf ==
  ASSUME NEW S, NEW x, NEW T, IsFiniteSet(S), T = S \ {x}
  PROVE  IsFiniteSet(T) /\ Cardinality(T) <= Cardinality(S)
<1>1. /\ IsFiniteSet(S \ {x}) /\ Cardinality(S) \in Nat
      /\ Cardinality(S \ {x}) = IF x \in S THEN Cardinality(S) - 1 ELSE Cardinality(S)
  BY FS_RemoveElement, FS_CardinalityType
<1> QED  BY <1>1

\* ... and putting one in.
LEMMA OneMoreOf ==
  ASSUME NEW S, NEW x, NEW T, IsFiniteSet(S), T = S \cup {x}
  PROVE  IsFiniteSet(T) /\ Cardinality(S) \in Nat /\ Cardinality(T) <= Cardinality(S) + 1
<1>1. /\ IsFiniteSet(S \cup {x}) /\ Cardinality(S) \in Nat
      /\ Cardinality(S \cup {x}) = IF x \in S THEN Cardinality(S) ELSE Cardinality(S) + 1
  BY FS_AddElement, FS_CardinalityType
<1> QED  BY <1>1

\* One queue is longer by one ...
LEMMA OneMore ==
  ASSUME NEW a \in Nat, NEW b \in Nat, NEW d \in Nat
  PROVE  /\ (a + 1) + b + d <= a + b + d + 1
         /\ a + (b + 1) + d <= a + b + d + 1
         /\ \A e \in Nat : e <= d + 1 => a + b + e <= a + b + d + 1
  OBVIOUS

\* ... or shorter.
LEMMA OneLess == \A a \in Nat : a <= a /\ a - 1 <= a
  OBVIOUS

\* The bounds, field by field.
LEMMA BoundedIs ==
  ASSUME NEW g \in SessionType, NEW h \in SessionType, Bounded(g),
         IsInjective(h.mutations), IsInjective(h.reconnects),
         IsFiniteSet(h.streamWaiters), IsFiniteSet(h.streams), Cardinality(h.streams) <= MaxStreams,
         \/ /\ Len(h.mutations) <= Len(g.mutations) /\ Len(h.reconnects) <= Len(g.reconnects)
            /\ Cardinality(h.streamWaiters) <= Cardinality(g.streamWaiters)
         \/ /\ GateWaiters(g) < MaxWaiters
            /\ Len(h.mutations) + Len(h.reconnects) + Cardinality(h.streamWaiters) <=
                  Len(g.mutations) + Len(g.reconnects) + Cardinality(g.streamWaiters) + 1
  PROVE  Bounded(h)
<1>1. /\ Len(g.mutations) \in Nat /\ Len(g.reconnects) \in Nat /\ Len(h.mutations) \in Nat
      /\ Len(h.reconnects) \in Nat
  BY LenProperties DEF SessionType
<1>2. Cardinality(g.streamWaiters) \in Nat /\ Cardinality(h.streamWaiters) \in Nat
  BY FS_CardinalityType DEF Bounded
<1> DEFINE a == Len(g.mutations)
           b == Len(g.reconnects)
           d == Cardinality(g.streamWaiters)
           a1 == Len(h.mutations)
           b1 == Len(h.reconnects)
           d1 == Cardinality(h.streamWaiters)
<1>3. /\ a \in Nat /\ b \in Nat /\ d \in Nat /\ a1 \in Nat /\ b1 \in Nat /\ d1 \in Nat /\ MaxWaiters \in Nat
      /\ a + b + d <= MaxWaiters
      /\ \/ a1 <= a /\ b1 <= b /\ d1 <= d
         \/ a + b + d < MaxWaiters /\ a1 + b1 + d1 <= a + b + d + 1
  BY Zenon, <1>1, <1>2, BoundsAssumption DEF Bounded, GateWaiters
<1>4. GateWaiters(h) <= MaxWaiters
  <2> HIDE DEF a, b, d, a1, b1, d1
  <2>1. a1 + b1 + d1 <= MaxWaiters
    BY <1>3
  <2> QED  BY Zenon, <2>1 DEF GateWaiters, a1, b1, d1
<1> QED  BY <1>4 DEF Bounded

\* Nothing of a call is in any gate before it registers.
LEMMA EnterMatches ==
  ASSUME IInv, NEW p \in Callers, NEW c \in Clients, NEW kind \in {"mutation", "stream", "reconnect"},
         NEW e \in 1 .. MaxEpoch, Enter(p, kind, c, e)
  PROVE  IInv'
<1> DEFINE l == [IdleCall EXCEPT !.pc = "run", !.kind = kind, !.client = c, !.epoch = e]
<1>1. l \in CallType /\ l.client = c /\ l.pc = "run" /\ ~l.waiting
  <2>1. IdleCall \in CallType /\ ~IdleCall.waiting
    BY BoundsAssumption DEF IdleCall, CallType
  <2>2. e \in 0 .. MaxEpoch
    BY BoundsAssumption
  <2> QED  BY Zenon, <2>1, <2>2 DEF CallType
<1>2. /\ call' = [call EXCEPT ![p] = l] /\ UNCHANGED gate /\ call[p].pc = "idle"
      /\ call \in [Callers -> CallType]
  BY DEF Enter, IInv
<1> HIDE DEF l
<1>3. Loose(call[p]) /\ Loose(l)
  BY <1>1, <1>2 DEF IInv, Sound, Loose
<1>4. InPlace(p, call[p], c, gate[c]) /\ Bounded(gate[c])
  BY DEF IInv
<1>5. InPlace(p, l, c, gate[c])
  BY <1>3, <1>4 DEF InPlace, Loose
<1>6. Moved(p, l) /\ Became(c, gate[c])
  <2>1. Sound(l)
    BY <1>1 DEF Sound
  <2>2. Became(c, gate[c])
    BY <1>2 DEF Became, IInv
  <2> QED  BY Zenon, <1>1, <1>2, <2>1, <2>2, MovedBy
<1>7. \A q \in Callers \ {p} : Same(q, gate[c], gate[c])
  BY DEF Same
<1> QED  BY <1>1, <1>3, <1>4, <1>5, <1>6, <1>7, TokenStep

\* IdleCall is a call, and a loose one.
LEMMA IdleFacts == IdleCall \in CallType /\ Sound(IdleCall) /\ Loose(IdleCall)
  BY BoundsAssumption DEF IdleCall, CallType, Loose, Sound

\* A loose caller is in place in a gate that has nothing of it.
LEMMA LooseInPlace ==
  ASSUME NEW q, NEW k, NEW c, NEW g, Loose(k), q \notin Range(g.mutations), q \notin Range(g.reconnects),
         q \notin g.streamWaiters, q \notin g.streams, g.active # q
  PROVE  InPlace(q, k, c, g)
  BY DEF Loose, InPlace

\* A call that returns an error takes its token with it.
LEMMA LeaveMatches ==
  ASSUME IInv, NEW p \in Callers, call[p].pc \in {"run", "checked"}, Leave(p)
  PROVE  IInv'
<1> DEFINE c == call[p].client
           g == gate[c]
           left == [call EXCEPT ![p] = IdleCall]
<1>1. /\ c \in Clients /\ g \in SessionType /\ gate \in [Clients -> SessionType]
      /\ call \in [Callers -> CallType] /\ InPlace(p, call[p], c, g) /\ Bounded(g)
  BY OwnPlace
<1>2. CASE ~call[p].waiting
  <2>1. call' = left /\ UNCHANGED gate
    BY <1>2 DEF Leave
  <2>2. Loose(call[p])
    BY <1>2 DEF Loose
  <2>3. InPlace(p, IdleCall, c, g)
    BY <1>1, <2>2, IdleFacts DEF InPlace, Loose
  <2>4. Moved(p, IdleCall) /\ Became(c, g)
    BY Zenon, <1>1, <2>1, IdleFacts, MovedBy DEF Became
  <2>5. \A q \in Callers \ {p} : Same(q, g, g)
    BY DEF Same
  <2> QED  BY <1>1, <2>2, <2>3, <2>4, <2>5, IdleFacts, TokenStep
<1>3. CASE call[p].waiting
  <2> DEFINE h == Without(g, p)
  <2>1. gate' = [gate EXCEPT ![c] = h] /\ call' = Signal(left, c)
    BY Zenon, <1>1, <1>3 DEF Leave
  <2>2. Dequeue(g.mutations, p) \in Seq(Callers) /\ Dequeue(g.reconnects, p) \in Seq(Callers)
    <3>1. /\ g.mutations \in Seq(Callers) /\ IsInjective(g.mutations)
          /\ g.reconnects \in Seq(Callers) /\ IsInjective(g.reconnects)
      BY <1>1 DEF SessionType, Bounded
    <3> QED  BY <3>1, DequeueExact
  <2>3. /\ h \in SessionType
        /\ h.mutations = Dequeue(g.mutations, p) /\ h.reconnects = Dequeue(g.reconnects, p)
        /\ h.streamWaiters = g.streamWaiters \ {p} /\ h.streams = g.streams /\ h.active = g.active
    BY Zenon, <1>1, <2>2 DEF SessionType, Without
  <2> HIDE DEF h
  <2>4. /\ IsInjective(h.mutations) /\ p \notin Range(h.mutations) /\ Len(h.mutations) <= Len(g.mutations)
        /\ \A q \in Callers \ {p} : q \in Range(h.mutations) <=> q \in Range(g.mutations)
    <3>1. g.mutations \in Seq(Callers) /\ IsInjective(g.mutations)
      BY <1>1 DEF SessionType, Bounded
    <3>2. LET d == Dequeue(g.mutations, p)
          IN  /\ IsInjective(d) /\ p \notin Range(d) /\ Len(d) <= Len(g.mutations)
              /\ \A x : x # p => (x \in Range(d) <=> x \in Range(g.mutations))
      BY <3>1, DequeueExact
    <3> QED  BY Zenon, <2>3, <3>2
  <2>5. /\ IsInjective(h.reconnects) /\ p \notin Range(h.reconnects) /\ Len(h.reconnects) <= Len(g.reconnects)
        /\ \A q \in Callers \ {p} : q \in Range(h.reconnects) <=> q \in Range(g.reconnects)
    <3>1. g.reconnects \in Seq(Callers) /\ IsInjective(g.reconnects)
      BY <1>1 DEF SessionType, Bounded
    <3>2. LET d == Dequeue(g.reconnects, p)
          IN  /\ IsInjective(d) /\ p \notin Range(d) /\ Len(d) <= Len(g.reconnects)
              /\ \A x : x # p => (x \in Range(d) <=> x \in Range(g.reconnects))
      BY <3>1, DequeueExact
    <3> QED  BY Zenon, <2>3, <3>2
  <2>6. IsFiniteSet(h.streamWaiters) /\ Cardinality(h.streamWaiters) <= Cardinality(g.streamWaiters)
    <3>1. IsFiniteSet(g.streamWaiters)
      BY <1>1 DEF Bounded
    <3> QED  BY Zenon, <2>3, <3>1, FewerOf
  <2>7. Bounded(h)
    <3>1. IsFiniteSet(h.streams) /\ Cardinality(h.streams) <= MaxStreams
      BY <1>1, <2>3 DEF Bounded
    <3> QED  BY Zenon, <1>1, <2>3, <2>4, <2>5, <2>6, <3>1, BoundedIs
  <2>8. \A q \in Callers \ {p} : Same(q, g, h)
    BY Zenon, <2>3, <2>4, <2>5 DEF Same
  <2>9. p \notin h.streamWaiters /\ p \notin h.streams /\ h.active # p
    BY <1>1, <2>3 DEF InPlace
  <2>10. InPlace(p, IdleCall, c, h)
    BY <2>4, <2>5, <2>9, IdleFacts, LooseInPlace
  <2>11. Moved(p, IdleCall) /\ Became(c, h)
    BY Zenon, <1>1, <2>1, <2>3, IdleFacts, MovedBy, BecameBy
  <2> QED  BY <1>1, <2>7, <2>8, <2>10, <2>11, IdleFacts, TokenStep
<1> QED  BY <1>2, <1>3

-----------------------------------------------------------------------------
(* The commit gate.                                                        *)

\* A free gate goes to the caller.
LEMMA MutationFastMatches ==
  ASSUME IInv, NEW p \in Callers, MutationFast(p)
  PROVE  IInv'
<1> DEFINE c == call[p].client
           k == call[p]
           l == [k EXCEPT !.pc = "commit", !.waiting = FALSE]
           g == gate[c]
           h == [g EXCEPT !.active = p]
<1>1. /\ c \in Clients /\ k \in CallType /\ g \in SessionType /\ gate \in [Clients -> SessionType]
      /\ call \in [Callers -> CallType] /\ InPlace(p, k, c, g) /\ Bounded(g) /\ Sound(k)
  BY OwnPlace DEF MutationFast, MutationRuns
<1>2. /\ k.kind = "mutation" /\ k.pc = "run" /\ ~k.waiting /\ g.active = None
      /\ gate' = [gate EXCEPT ![c] = h] /\ call' = [call EXCEPT ![p] = l]
  BY Zenon, <1>1 DEF MutationFast, MutationRuns, Grant, GateFree
<1>3. /\ h \in SessionType /\ h.active = p /\ h.mutations = g.mutations /\ h.reconnects = g.reconnects
      /\ h.streams = g.streams /\ h.streamWaiters = g.streamWaiters
  BY Zenon, <1>1 DEF SessionType
<1>4. l \in CallType /\ l.pc = "commit" /\ ~l.waiting /\ l.client = c
  BY ZenonT(60), <1>1 DEF CallType
<1> HIDE DEF l, h
<1>5. Moved(p, l) /\ Became(c, h)
  <2>1. Sound(l)
    BY <1>1, <1>2, <1>4 DEF Sound
  <2> QED  BY Zenon, <1>1, <1>2, <1>3, <1>4, <2>1, MovedBy, BecameBy
<1>6. \A q \in Callers \ {p} : Same(q, g, h)
  BY <1>2, <1>3, BoundsAssumption DEF Same
<1>7. InPlace(p, l, c, h)
  BY <1>1, <1>2, <1>3, <1>4 DEF InPlace
<1>8. Bounded(h)
  BY Zenon, <1>1, <1>3 DEF Bounded, GateWaiters
<1> QED  BY <1>1, <1>4, <1>5, <1>6, <1>7, <1>8, TokenStep

\* A mutation joins the queue once, and keeps its place in it.
LEMMA MutationWaitsMatches ==
  ASSUME IInv, NEW p \in Callers, MutationWaits(p)
  PROVE  IInv'
<1> DEFINE c == call[p].client
           k == call[p]
           l == [k EXCEPT !.pc = "asleep", !.waiting = TRUE]
           g == gate[c]
           h == [g EXCEPT !.mutations = Append(@, p)]
<1>1. /\ c \in Clients /\ k \in CallType /\ g \in SessionType /\ gate \in [Clients -> SessionType]
      /\ call \in [Callers -> CallType] /\ InPlace(p, k, c, g) /\ Bounded(g) /\ Sound(k)
  BY OwnPlace DEF MutationWaits, MutationRuns
<1>2. /\ k.kind = "mutation" /\ k.pc = "run" /\ call' = [call EXCEPT ![p] = l]
      /\ k.waiting => gate' = [gate EXCEPT ![c] = g]
      /\ ~k.waiting => gate' = [gate EXCEPT ![c] = h] /\ GateWaiters(g) < MaxWaiters
  BY Zenon, <1>1 DEF MutationWaits, MutationRuns, Sleep
<1>3. l \in CallType /\ l.pc = "asleep" /\ l.waiting /\ l.client = c /\ l.kind = k.kind
  BY Zenon, <1>1 DEF CallType
<1> HIDE DEF l
<1>4. Moved(p, l)
  <2>1. Sound(l)
    BY <1>1, <1>2, <1>3 DEF Sound
  <2> QED  BY Zenon, <1>1, <1>2, <1>3, <2>1, MovedBy
<1>5. CASE k.waiting
  <2>1. Became(c, g)
    BY Zenon, <1>1, <1>2, <1>5, BecameBy
  <2>2. Alike(k, l)
    BY <1>1, <1>2, <1>3, <1>5 DEF Alike, Sound
  <2>3. \A q \in Callers : Same(q, g, g)
    BY DEF Same
  <2>4. InPlace(p, l, c, g)
    BY <1>1, <2>2, <2>3, StaysInPlace
  <2> QED  BY <1>1, <1>3, <1>4, <2>1, <2>3, <2>4, TokenStep
<1>6. CASE ~k.waiting
  <2>1. Append(g.mutations, p) \in Seq(Callers) /\ g.mutations \in Seq(Callers) /\ IsInjective(g.mutations)
    <3>1. g.mutations \in Seq(Callers) /\ IsInjective(g.mutations)
      BY <1>1 DEF SessionType, Bounded
    <3> QED  BY <3>1, AppendProperties
  <2>2. /\ h \in SessionType /\ h.active = g.active /\ h.reconnects = g.reconnects
        /\ h.streams = g.streams /\ h.streamWaiters = g.streamWaiters
        /\ h.mutations = Append(g.mutations, p)
    BY Zenon, <1>1, <2>1 DEF SessionType
  <2> HIDE DEF h
  <2>3. /\ IsInjective(h.mutations) /\ p \in Range(h.mutations) /\ Len(h.mutations) = Len(g.mutations) + 1
        /\ \A q \in Callers \ {p} : q \in Range(h.mutations) <=> q \in Range(g.mutations)
    <3>1. p \notin Range(g.mutations)
      BY <1>1, <1>6 DEF InPlace
    <3>2. LET d == Append(g.mutations, p)
          IN  /\ IsInjective(d) /\ p \in Range(d) /\ Len(d) = Len(g.mutations) + 1
              /\ \A x : x # p => (x \in Range(d) <=> x \in Range(g.mutations))
      BY <2>1, <3>1, AppendExact
    <3> QED  BY Zenon, <2>2, <3>2
  <2>4. Became(c, h)
    BY Zenon, <1>1, <1>2, <1>6, <2>2, BecameBy
  <2>5. \A q \in Callers \ {p} : Same(q, g, h)
    BY <2>2, <2>3 DEF Same
  <2>6. InPlace(p, l, c, h)
    BY Zenon, <1>1, <1>2, <1>3, <1>6, <2>2, <2>3 DEF InPlace
  <2>7. Bounded(h)
    <3>1. /\ IsInjective(h.reconnects) /\ IsFiniteSet(h.streamWaiters) /\ IsFiniteSet(h.streams)
          /\ Cardinality(h.streams) <= MaxStreams /\ Cardinality(g.streamWaiters) \in Nat
      BY <1>1, <2>2, FS_CardinalityType DEF Bounded
    <3>2. Len(g.mutations) \in Nat /\ Len(g.reconnects) \in Nat
      BY <1>1, LenProperties DEF SessionType
    <3>3. Len(h.mutations) + Len(h.reconnects) + Cardinality(h.streamWaiters) <=
            Len(g.mutations) + Len(g.reconnects) + Cardinality(g.streamWaiters) + 1
      <4>1. /\ Len(h.mutations) = Len(g.mutations) + 1 /\ Len(h.reconnects) = Len(g.reconnects)
            /\ Cardinality(h.streamWaiters) = Cardinality(g.streamWaiters)
        BY <2>2, <2>3
      <4> QED  BY Zenon, <3>1, <3>2, <4>1, OneMore
    <3> QED  BY Zenon, <1>1, <1>2, <1>6, <2>2, <2>3, <3>1, <3>3, BoundedIs
  <2> QED  BY <1>1, <1>3, <1>4, <2>4, <2>5, <2>6, <2>7, TokenStep
<1> QED  BY <1>5, <1>6

\* The head of the queue leaves it for the gate.
LEMMA MutationTurnsMatches ==
  ASSUME IInv, NEW p \in Callers, MutationTurns(p)
  PROVE  IInv'
<1> DEFINE c == call[p].client
           k == call[p]
           l == [k EXCEPT !.pc = "commit", !.waiting = FALSE]
           g == gate[c]
           h == [g EXCEPT !.mutations = Tail(@), !.active = p]
<1>1. /\ c \in Clients /\ k \in CallType /\ g \in SessionType /\ gate \in [Clients -> SessionType]
      /\ call \in [Callers -> CallType] /\ InPlace(p, k, c, g) /\ Bounded(g) /\ Sound(k)
  BY OwnPlace DEF MutationTurns, MutationRuns
<1>2. /\ g.active = None /\ Head(g.mutations) = p /\ k.waiting /\ k.kind = "mutation" /\ k.pc = "run"
      /\ gate' = [gate EXCEPT ![c] = h] /\ call' = Signal([call EXCEPT ![p] = l], c)
  BY Zenon, <1>1 DEF MutationTurns, MutationTurn, MutationRuns, Grant
<1>3. g.mutations \in Seq(Callers) /\ g.mutations # <<>> /\ IsInjective(g.mutations)
  <2>1. g.mutations \in Seq(Callers) /\ IsInjective(g.mutations)
    BY <1>1 DEF SessionType, Bounded
  <2>2. p \in Range(g.mutations)
    BY Zenon, <1>1, <1>2 DEF InPlace
  <2> QED  BY Zenon, <2>1, <2>2, EmptyQueue
<1>4. Tail(g.mutations) \in Seq(Callers)
  BY <1>3, HeadTailProperties
<1>5. /\ h \in SessionType /\ h.active = p /\ h.mutations = Tail(g.mutations)
      /\ h.reconnects = g.reconnects /\ h.streams = g.streams /\ h.streamWaiters = g.streamWaiters
  BY Zenon, <1>1, <1>4 DEF SessionType
<1>6. l \in CallType /\ l.pc = "commit" /\ ~l.waiting /\ l.client = c
  BY ZenonT(60), <1>1 DEF CallType
<1> HIDE DEF l, h
<1>7. /\ IsInjective(h.mutations) /\ p \notin Range(h.mutations) /\ Len(h.mutations) = Len(g.mutations) - 1
      /\ Len(g.mutations) \in Nat
      /\ \A q \in Callers \ {p} : q \in Range(h.mutations) <=> q \in Range(g.mutations)
  <2> DEFINE d == Tail(g.mutations)
  <2>1. /\ IsInjective(d) /\ Head(g.mutations) \notin Range(d) /\ Len(d) = Len(g.mutations) - 1
        /\ \A x : x # Head(g.mutations) => (x \in Range(d) <=> x \in Range(g.mutations))
    BY Zenon, <1>3, TailExact
  <2>2. Len(g.mutations) \in Nat /\ h.mutations = d
    BY <1>3, <1>5, LenProperties
  <2> HIDE DEF d
  <2> QED  BY Zenon, <1>2, <2>1, <2>2
<1>8. Moved(p, l) /\ Became(c, h)
  <2>1. Sound(l)
    BY <1>1, <1>2, <1>6 DEF Sound
  <2> QED  BY Zenon, <1>1, <1>2, <1>5, <1>6, <2>1, MovedBy, BecameBy
<1>9. \A q \in Callers \ {p} : Same(q, g, h)
  BY <1>2, <1>5, <1>7, BoundsAssumption DEF Same
<1>10. InPlace(p, l, c, h)
  BY Zenon, <1>1, <1>2, <1>5, <1>6, <1>7 DEF InPlace
<1>11. Bounded(h)
  <2>1. /\ IsInjective(h.reconnects) /\ IsFiniteSet(h.streamWaiters) /\ IsFiniteSet(h.streams)
        /\ Cardinality(h.streams) <= MaxStreams /\ Cardinality(g.streamWaiters) \in Nat
    BY <1>1, <1>5, FS_CardinalityType DEF Bounded
  <2>2. /\ Len(h.mutations) <= Len(g.mutations) /\ Len(h.reconnects) <= Len(g.reconnects)
        /\ Cardinality(h.streamWaiters) <= Cardinality(g.streamWaiters)
    <3>1. Len(g.reconnects) \in Nat
      BY <1>1, LenProperties DEF SessionType
    <3>2. Len(h.mutations) <= Len(g.mutations)
      BY Zenon, <1>7, OneLess
    <3>3. Len(h.reconnects) <= Len(g.reconnects) /\ Cardinality(h.streamWaiters) <= Cardinality(g.streamWaiters)
      BY Zenon, <1>5, <2>1, <3>1, OneLess
    <3> QED  BY <3>2, <3>3
  <2> QED  BY Zenon, <1>1, <1>5, <1>7, <2>1, <2>2, BoundedIs
<1> QED  BY <1>1, <1>6, <1>8, <1>9, <1>10, <1>11, TokenStep

\* The commit lease is closed: the gate has no holder.
LEMMA CloseCommitMatches ==
  ASSUME IInv, NEW p \in Callers, CloseCommit(p)
  PROVE  IInv'
<1> DEFINE c == call[p].client
           k == call[p]
           g == gate[c]
           h == [g EXCEPT !.active = None]
<1>1. /\ c \in Clients /\ k \in CallType /\ g \in SessionType /\ gate \in [Clients -> SessionType]
      /\ call \in [Callers -> CallType] /\ InPlace(p, k, c, g) /\ Bounded(g) /\ Sound(k)
  BY OwnPlace DEF CloseCommit
<1>2. /\ k.pc = "commit" /\ ~k.waiting
      /\ gate' = [gate EXCEPT ![c] = h] /\ call' = Signal([call EXCEPT ![p] = IdleCall], c)
  BY <1>1 DEF CloseCommit, Sound
<1>3. /\ h \in SessionType /\ h.mutations = g.mutations /\ h.reconnects = g.reconnects
      /\ h.streams = g.streams /\ h.streamWaiters = g.streamWaiters /\ h.active = None
  BY Zenon, <1>1 DEF SessionType
<1> HIDE DEF h
<1>4. Moved(p, IdleCall) /\ Became(c, h)
  BY Zenon, <1>1, <1>2, <1>3, IdleFacts, MovedBy, BecameBy
<1>5. g.active = p
  BY <1>1, <1>2 DEF InPlace
<1>6. \A q \in Callers \ {p} : Same(q, g, h)
  BY <1>3, <1>5, BoundsAssumption DEF Same
<1>7. /\ p \notin Range(h.mutations) /\ p \notin Range(h.reconnects) /\ p \notin h.streamWaiters
      /\ p \notin h.streams /\ h.active # p
  BY <1>1, <1>2, <1>3, BoundsAssumption DEF InPlace
<1>8. InPlace(p, IdleCall, c, h)
  BY <1>7, IdleFacts, LooseInPlace
<1>9. Bounded(h)
  BY Zenon, <1>1, <1>3 DEF Bounded, GateWaiters
<1> QED  BY <1>1, <1>4, <1>6, <1>8, <1>9, IdleFacts, TokenStep

-----------------------------------------------------------------------------
(* Streams.                                                                *)

\* A stream that arrives during a reconnect is counted among the waiters once.
LEMMA StreamWaitsMatches ==
  ASSUME IInv, NEW p \in Callers, StreamWaits(p)
  PROVE  IInv'
<1> DEFINE c == call[p].client
           k == call[p]
           l == [k EXCEPT !.pc = "asleep", !.waiting = TRUE]
           g == gate[c]
           h == [g EXCEPT !.streamWaiters = @ \cup {p}]
<1>1. /\ c \in Clients /\ k \in CallType /\ g \in SessionType /\ gate \in [Clients -> SessionType]
      /\ call \in [Callers -> CallType] /\ InPlace(p, k, c, g) /\ Bounded(g) /\ Sound(k)
  BY OwnPlace DEF StreamWaits, StreamRuns
<1>2. /\ k.kind = "stream" /\ k.pc = "run" /\ (k.waiting \/ GateWaiters(g) < MaxWaiters)
      /\ gate' = [gate EXCEPT ![c] = h] /\ call' = [call EXCEPT ![p] = l]
  BY Zenon, <1>1 DEF StreamWaits, StreamRuns, Sleep
<1>3. /\ h \in SessionType /\ h.active = g.active /\ h.reconnects = g.reconnects
      /\ h.streams = g.streams /\ h.streamWaiters = g.streamWaiters \cup {p} /\ h.mutations = g.mutations
  BY Zenon, <1>1 DEF SessionType
<1>4. l \in CallType /\ l.pc = "asleep" /\ l.waiting /\ l.client = c /\ l.kind = k.kind
  BY Zenon, <1>1 DEF CallType
<1> HIDE DEF l, h
<1>5. Moved(p, l) /\ Became(c, h)
  <2>1. Sound(l)
    BY <1>1, <1>2, <1>4 DEF Sound
  <2> QED  BY Zenon, <1>1, <1>2, <1>3, <1>4, <2>1, MovedBy, BecameBy
<1>6. \A q \in Callers \ {p} : Same(q, g, h)
  BY <1>3 DEF Same
<1>7. InPlace(p, l, c, h)
  BY <1>1, <1>2, <1>3, <1>4 DEF InPlace
<1>8. Bounded(h)
  <2>1. CASE p \in g.streamWaiters
    <3>1. h.streamWaiters = g.streamWaiters
      BY <1>3, <2>1
    <3> QED  BY Zenon, <1>1, <1>3, <3>1 DEF Bounded, GateWaiters
  <2>2. CASE p \notin g.streamWaiters
    <3>1. GateWaiters(g) < MaxWaiters
      BY <1>1, <1>2, <2>2 DEF InPlace
    <3>2. IsFiniteSet(g.streamWaiters)
      BY <1>1 DEF Bounded
    <3>3. /\ IsFiniteSet(h.streamWaiters) /\ Cardinality(g.streamWaiters) \in Nat
          /\ Cardinality(h.streamWaiters) <= Cardinality(g.streamWaiters) + 1
      BY Zenon, <1>3, <3>2, OneMoreOf
    <3>4. Cardinality(h.streamWaiters) \in Nat /\ Len(g.mutations) \in Nat /\ Len(g.reconnects) \in Nat
      BY <1>1, <3>3, FS_CardinalityType, LenProperties DEF SessionType
    <3>5. Len(h.mutations) = Len(g.mutations) /\ Len(h.reconnects) = Len(g.reconnects)
      BY <1>3
    <3>6. Len(h.mutations) + Len(h.reconnects) + Cardinality(h.streamWaiters) <=
            Len(g.mutations) + Len(g.reconnects) + Cardinality(g.streamWaiters) + 1
      BY Zenon, <3>3, <3>4, <3>5, OneMore
    <3>7. /\ IsInjective(h.mutations) /\ IsInjective(h.reconnects) /\ IsFiniteSet(h.streams)
          /\ Cardinality(h.streams) <= MaxStreams
      BY <1>1, <1>3 DEF Bounded
    <3> QED  BY Zenon, <1>1, <1>3, <3>1, <3>3, <3>6, <3>7, BoundedIs
  <2> QED  BY <2>1, <2>2
<1> QED  BY <1>1, <1>4, <1>5, <1>6, <1>7, <1>8, TokenStep

\* A stream lease is granted: the waiter, if it was one, becomes a holder.
LEMMA StreamGrantedMatches ==
  ASSUME IInv, NEW p \in Callers, StreamGranted(p)
  PROVE  IInv'
<1> DEFINE c == call[p].client
           k == call[p]
           l == [k EXCEPT !.pc = "stream", !.waiting = FALSE]
           g == gate[c]
           h == [g EXCEPT !.streamWaiters = @ \ {p}, !.streams = @ \cup {p}]
<1>1. /\ c \in Clients /\ k \in CallType /\ g \in SessionType /\ gate \in [Clients -> SessionType]
      /\ call \in [Callers -> CallType] /\ InPlace(p, k, c, g) /\ Bounded(g) /\ Sound(k)
  BY OwnPlace DEF StreamGranted, StreamRuns
<1>2. /\ k.kind = "stream" /\ k.pc = "run" /\ Cardinality(g.streams) < MaxStreams
      /\ gate' = [gate EXCEPT ![c] = h]
      /\ call' = [call EXCEPT ![p] = l] \/ call' = Signal([call EXCEPT ![p] = l], c)
  BY Zenon, <1>1 DEF StreamGranted, StreamRuns, Grant
<1>3. /\ h \in SessionType /\ h.active = g.active /\ h.reconnects = g.reconnects
      /\ h.streams = g.streams \cup {p} /\ h.streamWaiters = g.streamWaiters \ {p}
      /\ h.mutations = g.mutations
  BY Zenon, <1>1 DEF SessionType
<1>4. l \in CallType /\ l.pc = "stream" /\ ~l.waiting /\ l.client = c
  BY ZenonT(60), <1>1 DEF CallType
<1> HIDE DEF l, h
<1>5. Moved(p, l) /\ Became(c, h)
  <2>1. Sound(l)
    BY <1>1, <1>2, <1>4 DEF Sound
  <2> QED  BY Zenon, <1>1, <1>2, <1>3, <1>4, <2>1, MovedBy, BecameBy
<1>6. \A q \in Callers \ {p} : Same(q, g, h)
  BY <1>3 DEF Same
<1>7. InPlace(p, l, c, h)
  BY <1>1, <1>2, <1>3, <1>4 DEF InPlace
<1>8. Bounded(h)
  <2>1. IsFiniteSet(g.streamWaiters) /\ IsFiniteSet(g.streams)
    BY <1>1 DEF Bounded
  <2>2. /\ IsFiniteSet(h.streams) /\ Cardinality(g.streams) \in Nat
        /\ Cardinality(h.streams) <= Cardinality(g.streams) + 1
    BY Zenon, <1>3, <2>1, OneMoreOf
  <2>3. IsFiniteSet(h.streamWaiters) /\ Cardinality(h.streamWaiters) <= Cardinality(g.streamWaiters)
    BY <1>3, <2>1, FewerOf
  <2>4. Cardinality(h.streams) <= MaxStreams
    <3>1. Cardinality(h.streams) \in Nat
      BY <2>2, FS_CardinalityType
    <3> QED  BY <1>2, <2>2, <3>1, BoundsAssumption
  <2>5. Len(h.mutations) <= Len(g.mutations) /\ Len(h.reconnects) <= Len(g.reconnects)
    <3>1. Len(g.mutations) \in Nat /\ Len(g.reconnects) \in Nat
      BY <1>1, LenProperties DEF SessionType
    <3> QED  BY Zenon, <1>3, <3>1, OneLess
  <2>6. IsInjective(h.mutations) /\ IsInjective(h.reconnects)
    BY <1>1, <1>3 DEF Bounded
  <2> QED  BY Zenon, <1>1, <1>3, <2>2, <2>3, <2>4, <2>5, <2>6, BoundedIs
<1> QED  BY <1>1, <1>4, <1>5, <1>6, <1>7, <1>8, TokenStep

\* The stream lease is closed: the stream is no longer counted.
LEMMA CloseStreamMatches ==
  ASSUME IInv, NEW p \in Callers, CloseStream(p)
  PROVE  IInv'
<1> DEFINE c == call[p].client
           k == call[p]
           g == gate[c]
           h == [g EXCEPT !.streams = @ \ {p}]
<1>1. /\ c \in Clients /\ k \in CallType /\ g \in SessionType /\ gate \in [Clients -> SessionType]
      /\ call \in [Callers -> CallType] /\ InPlace(p, k, c, g) /\ Bounded(g) /\ Sound(k)
  BY OwnPlace DEF CloseStream
<1>2. /\ k.pc = "stream" /\ ~k.waiting
      /\ gate' = [gate EXCEPT ![c] = h] /\ call' = Signal([call EXCEPT ![p] = IdleCall], c)
  BY <1>1 DEF CloseStream, Sound
<1>3. /\ h \in SessionType /\ h.mutations = g.mutations /\ h.reconnects = g.reconnects
      /\ h.streams = g.streams \ {p} /\ h.streamWaiters = g.streamWaiters /\ h.active = g.active
  BY Zenon, <1>1 DEF SessionType
<1> HIDE DEF h
<1>4. Moved(p, IdleCall) /\ Became(c, h)
  BY Zenon, <1>1, <1>2, <1>3, IdleFacts, MovedBy, BecameBy
<1>5. \A q \in Callers \ {p} : Same(q, g, h)
  BY <1>3 DEF Same
<1>6. /\ p \notin Range(h.mutations) /\ p \notin Range(h.reconnects) /\ p \notin h.streamWaiters
      /\ p \notin h.streams /\ h.active # p
  BY <1>1, <1>2, <1>3 DEF InPlace
<1>7. InPlace(p, IdleCall, c, h)
  BY <1>6, IdleFacts, LooseInPlace
<1>8. Bounded(h)
  <2>1. IsFiniteSet(g.streams) /\ Cardinality(g.streams) \in Nat /\ Cardinality(g.streams) <= MaxStreams
    BY <1>1, FS_CardinalityType DEF Bounded
  <2>2. IsFiniteSet(h.streams) /\ Cardinality(h.streams) <= Cardinality(g.streams)
    BY <1>3, <2>1, FewerOf
  <2>3. Cardinality(h.streams) <= MaxStreams
    <3>1. Cardinality(h.streams) \in Nat
      BY <2>2, FS_CardinalityType
    <3> QED  BY <2>1, <2>2, <3>1, BoundsAssumption
  <2> QED  BY Zenon, <1>1, <1>3, <2>2, <2>3 DEF Bounded, GateWaiters
<1> QED  BY <1>1, <1>4, <1>5, <1>7, <1>8, IdleFacts, TokenStep

-----------------------------------------------------------------------------
(* Reconnects.                                                             *)

\* registerReconnect queues the intent once.
LEMMA ReconnectRegistersMatches ==
  ASSUME IInv, NEW p \in Callers, ReconnectRegisters(p)
  PROVE  IInv'
<1> DEFINE c == call[p].client
           k == call[p]
           l == [k EXCEPT !.waiting = TRUE]
           g == gate[c]
           h == [g EXCEPT !.reconnects = Append(@, p)]
<1>1. /\ c \in Clients /\ k \in CallType /\ g \in SessionType /\ gate \in [Clients -> SessionType]
      /\ call \in [Callers -> CallType] /\ InPlace(p, k, c, g) /\ Bounded(g) /\ Sound(k)
  BY OwnPlace DEF ReconnectRegisters, ReconnectRuns
<1>2. /\ k.kind = "reconnect" /\ k.pc = "run" /\ ~k.waiting /\ GateWaiters(g) < MaxWaiters /\ k.epoch # MaxEpoch
      /\ gate' = [gate EXCEPT ![c] = h] /\ call' = Signal([call EXCEPT ![p] = l], c)
  BY Zenon, <1>1 DEF ReconnectRegisters, ReconnectRuns
<1>3. Append(g.reconnects, p) \in Seq(Callers) /\ g.reconnects \in Seq(Callers) /\ IsInjective(g.reconnects)
  <2>1. g.reconnects \in Seq(Callers) /\ IsInjective(g.reconnects)
    BY <1>1 DEF SessionType, Bounded
  <2> QED  BY <2>1, AppendProperties
<1>4. /\ h \in SessionType /\ h.active = g.active /\ h.reconnects = Append(g.reconnects, p)
      /\ h.streams = g.streams /\ h.streamWaiters = g.streamWaiters /\ h.mutations = g.mutations
  BY Zenon, <1>1, <1>3 DEF SessionType
<1>5. l \in CallType /\ l.pc = "run" /\ l.waiting /\ l.client = c /\ l.kind = "reconnect" /\ l.epoch = k.epoch
  BY ZenonT(60), <1>1, <1>2 DEF CallType
<1> HIDE DEF l, h
<1>6. /\ IsInjective(h.reconnects) /\ p \in Range(h.reconnects) /\ Len(h.reconnects) = Len(g.reconnects) + 1
      /\ \A q \in Callers \ {p} : q \in Range(h.reconnects) <=> q \in Range(g.reconnects)
  <2>1. p \notin Range(g.reconnects)
    BY <1>1, <1>2 DEF InPlace
  <2>2. LET d == Append(g.reconnects, p)
        IN  /\ IsInjective(d) /\ p \in Range(d) /\ Len(d) = Len(g.reconnects) + 1
            /\ \A x : x # p => (x \in Range(d) <=> x \in Range(g.reconnects))
    BY <1>3, <2>1, AppendExact
  <2> QED  BY Zenon, <1>4, <2>2
<1>7. Moved(p, l) /\ Became(c, h)
  <2>1. Sound(l)
    BY <1>1, <1>2, <1>5 DEF Sound
  <2> QED  BY Zenon, <1>1, <1>2, <1>4, <1>5, <2>1, MovedBy, BecameBy
<1>8. \A q \in Callers \ {p} : Same(q, g, h)
  BY <1>4, <1>6 DEF Same
<1>9. InPlace(p, l, c, h)
  BY Zenon, <1>1, <1>2, <1>4, <1>5, <1>6 DEF InPlace
<1>10. Bounded(h)
  <2>1. /\ IsInjective(h.mutations) /\ IsFiniteSet(h.streamWaiters) /\ IsFiniteSet(h.streams)
        /\ Cardinality(h.streams) <= MaxStreams /\ Cardinality(g.streamWaiters) \in Nat
    BY Zenon, <1>1, <1>4, FS_CardinalityType DEF Bounded
  <2>2. Len(g.mutations) \in Nat /\ Len(g.reconnects) \in Nat
    BY <1>1, LenProperties DEF SessionType
  <2>3. Len(h.mutations) + Len(h.reconnects) + Cardinality(h.streamWaiters) <=
          Len(g.mutations) + Len(g.reconnects) + Cardinality(g.streamWaiters) + 1
    <3>1. /\ Len(h.reconnects) = Len(g.reconnects) + 1 /\ Len(h.mutations) = Len(g.mutations)
          /\ Cardinality(h.streamWaiters) = Cardinality(g.streamWaiters)
      BY Zenon, <1>4, <1>6
    <3> QED  BY Zenon, <2>1, <2>2, <3>1, OneMore
  <2> QED  BY Zenon, <1>1, <1>2, <1>4, <1>6, <2>1, <2>3, BoundedIs
<1> QED  BY <1>1, <1>5, <1>7, <1>8, <1>9, <1>10, TokenStep

\* advanceReconnectLocked takes the intent out of the queue.
LEMMA ReconnectAdvancesMatches ==
  ASSUME IInv, NEW p \in Callers, ReconnectAdvances(p)
  PROVE  IInv'
<1> DEFINE c == call[p].client
           k == call[p]
           g == gate[c]
           h == [g EXCEPT !.epoch = @ + 1, !.reconnects = Tail(@)]
<1>1. /\ c \in Clients /\ k \in CallType /\ g \in SessionType /\ gate \in [Clients -> SessionType]
      /\ call \in [Callers -> CallType] /\ InPlace(p, k, c, g) /\ Bounded(g) /\ Sound(k)
  BY OwnPlace DEF ReconnectAdvances
<1>2. /\ Owns(p) /\ k.pc = "checked" /\ Head(g.reconnects) = p
      /\ gate' = [gate EXCEPT ![c] = h] /\ call' = Signal([call EXCEPT ![p] = IdleCall], c)
  BY Zenon, <1>1 DEF ReconnectAdvances, ReconnectTurn
<1>3. g.reconnects \in Seq(Callers) /\ g.reconnects # <<>> /\ k.epoch # MaxEpoch /\ IsInjective(g.reconnects)
  <2>1. g.reconnects \in Seq(Callers) /\ IsInjective(g.reconnects)
    BY <1>1 DEF SessionType, Bounded
  <2>2. k.waiting /\ k.kind = "reconnect" /\ k.epoch # MaxEpoch
    BY Zenon, <1>1, <1>2 DEF Sound
  <2>3. p \in Range(g.reconnects)
    BY Zenon, <1>1, <2>2 DEF InPlace
  <2> QED  BY Zenon, <2>1, <2>2, <2>3, EmptyQueue
<1>4. Tail(g.reconnects) \in Seq(Callers)
  BY <1>3, HeadTailProperties
<1>5. g.epoch + 1 \in 0 .. MaxEpoch
  BY SMTT(40), <1>1, <1>2, <1>3, BoundsAssumption DEF Owns, SessionType
<1>6. /\ h \in SessionType /\ h.active = g.active /\ h.reconnects = Tail(g.reconnects)
      /\ h.streams = g.streams /\ h.streamWaiters = g.streamWaiters /\ h.mutations = g.mutations
  BY Zenon, <1>1, <1>4, <1>5 DEF SessionType
<1> HIDE DEF h
<1>7. /\ IsInjective(h.reconnects) /\ p \notin Range(h.reconnects) /\ Len(h.reconnects) = Len(g.reconnects) - 1
      /\ Len(g.reconnects) \in Nat
      /\ \A q \in Callers \ {p} : q \in Range(h.reconnects) <=> q \in Range(g.reconnects)
  <2> DEFINE d == Tail(g.reconnects)
  <2>1. /\ IsInjective(d) /\ Head(g.reconnects) \notin Range(d) /\ Len(d) = Len(g.reconnects) - 1
        /\ \A x : x # Head(g.reconnects) => (x \in Range(d) <=> x \in Range(g.reconnects))
    BY Zenon, <1>3, TailExact
  <2>2. Len(g.reconnects) \in Nat /\ h.reconnects = d
    BY <1>3, <1>6, LenProperties
  <2> HIDE DEF d
  <2> QED  BY Zenon, <1>2, <2>1, <2>2
<1>8. Moved(p, IdleCall) /\ Became(c, h)
  BY Zenon, <1>1, <1>2, <1>6, IdleFacts, MovedBy, BecameBy
<1>9. \A q \in Callers \ {p} : Same(q, g, h)
  BY <1>6, <1>7 DEF Same
<1>10. p \notin Range(h.mutations) /\ p \notin h.streamWaiters /\ p \notin h.streams /\ h.active # p
  <2>1. k.kind = "reconnect"
    BY <1>1, <1>2 DEF Sound
  <2> QED  BY <1>1, <1>2, <1>6, <2>1 DEF InPlace
<1>11. InPlace(p, IdleCall, c, h)
  BY <1>7, <1>10, IdleFacts, LooseInPlace
<1>12. Bounded(h)
  <2>1. /\ IsInjective(h.mutations) /\ IsFiniteSet(h.streamWaiters) /\ IsFiniteSet(h.streams)
        /\ Cardinality(h.streams) <= MaxStreams /\ Cardinality(g.streamWaiters) \in Nat
    BY <1>1, <1>6, FS_CardinalityType DEF Bounded
  <2>2. Len(g.mutations) \in Nat
    BY <1>1, LenProperties DEF SessionType
  <2>3. Len(h.reconnects) <= Len(g.reconnects)
    BY Zenon, <1>7, OneLess
  <2>4. Len(h.mutations) <= Len(g.mutations) /\ Cardinality(h.streamWaiters) <= Cardinality(g.streamWaiters)
    BY Zenon, <1>6, <2>1, <2>2, OneLess
  <2> QED  BY Zenon, <1>1, <1>6, <1>7, <2>1, <2>3, <2>4, BoundedIs
<1> QED  BY <1>1, <1>8, <1>9, <1>11, <1>12, IdleFacts, TokenStep

-----------------------------------------------------------------------------
(* The theorem.                                                            *)

\* The empty store satisfies the invariant.
LEMMA InitIInv == Init => IInv
<1> SUFFICES ASSUME Init PROVE IInv
  OBVIOUS
<1>1. gate = [c \in Clients |-> NoSession] /\ call = [p \in Callers |-> IdleCall]
  BY DEF Init
<1>2. Range(<<>>) = {} /\ IsInjective(<<>>)
  BY DEF Range, IsInjective
<1>3. IsFiniteSet({}) /\ Cardinality({}) = 0 /\ Len(<<>>) = 0
  BY FS_EmptySet
<1>4. Bounded(NoSession)
  BY <1>2, <1>3, BoundsAssumption DEF Bounded, NoSession, GateWaiters
<1>5. ASSUME NEW q \in Callers, NEW c \in Clients PROVE InPlace(q, IdleCall, c, NoSession)
  BY <1>2, BoundsAssumption DEF InPlace, NoSession, IdleCall
<1>6. NoSession \in SessionType
  BY EmptySeq, BoundsAssumption DEF NoSession, SessionType
<1> QED  BY Zenon, <1>1, <1>4, <1>5, <1>6, IdleFacts DEF IInv

\* What a call that leaves does.
LEMMA LeavingMatches ==
  ASSUME IInv, NEW p \in Callers,
         \/ MutationLeaves(p) \/ MutationRefused(p) \/ StreamLeaves(p) \/ StreamRefused(p)
         \/ ReconnectRefused(p) \/ ReconnectCancelled(p) \/ ReconnectLeaves(p)
  PROVE  IInv'
<1>1. call[p].pc \in {"run", "checked"} /\ Leave(p)
  BY Zenon DEF MutationLeaves, MutationRefused, StreamLeaves, StreamRefused, ReconnectRefused,
     ReconnectCancelled, ReconnectLeaves, MutationRuns, StreamRuns, ReconnectRuns
<1> QED  BY <1>1, LeaveMatches

\* Every step of the store keeps the tokens where their callers are.
LEMMA NextIInv == IInv /\ [Next]_vars => IInv'
<1> SUFFICES ASSUME IInv, [Next]_vars PROVE IInv'
  OBVIOUS
<1>1. ASSUME NEW c \in Clients, Fresh(c) PROVE IInv'
  BY <1>1, FreshMatches
<1>2. ASSUME NEW p \in Callers, NEW c \in Clients, NEW kind \in {"mutation", "stream", "reconnect"},
             NEW e \in 1 .. MaxEpoch, Enter(p, kind, c, e)
      PROVE  IInv'
  BY <1>2, EnterMatches
<1>3. ASSUME NEW p \in Callers, Mutation(p) PROVE IInv'
  BY Zenon, <1>3, LeavingMatches, MutationFastMatches, MutationWaitsMatches, MutationTurnsMatches DEF Mutation
<1>4. ASSUME NEW p \in Callers, StreamCall(p) PROVE IInv'
  BY Zenon, <1>4, LeavingMatches, StreamWaitsMatches, StreamGrantedMatches DEF StreamCall
<1>5. ASSUME NEW p \in Callers, Reconnect(p) PROVE IInv'
  BY Zenon, <1>5, LeavingMatches, ReconnectRegistersMatches, UnlockedMatches, BroadcastMatches,
     ReconnectAdvancesMatches DEF Reconnect
<1>6. ASSUME NEW p \in Callers, CancelCall(p) \/ Wake(p) PROVE IInv'
  BY Zenon, <1>6, UnlockedMatches
<1>7. ASSUME NEW p \in Callers, CloseCommit(p) \/ CloseStream(p) PROVE IInv'
  BY Zenon, <1>7, CloseCommitMatches, CloseStreamMatches
<1>8. CASE CloseStore \/ CancelRoot
  BY Zenon, <1>8, BroadcastMatches
<1>9. CASE UNCHANGED vars
  BY <1>9 DEF vars, IInv
<1> QED  BY <1>1, <1>2, <1>3, <1>4, <1>5, <1>6, <1>7, <1>8, <1>9 DEF Next, Steps

\* What the invariant says of one gate is what GateMatchesCallers says of it.
LEMMA TokensMatch == IInv => GateMatchesCallers
<1> SUFFICES ASSUME IInv, NEW c \in Clients
             PROVE  /\ IsInjective(gate[c].mutations) /\ IsInjective(gate[c].reconnects)
                    /\ Range(gate[c].mutations) =
                         {p \in Callers : call[p].client = c /\ call[p].waiting /\ call[p].kind = "mutation"}
                    /\ Range(gate[c].reconnects) =
                         {p \in Callers : call[p].client = c /\ call[p].waiting /\ call[p].kind = "reconnect"}
                    /\ gate[c].streamWaiters =
                         {p \in Callers : call[p].client = c /\ call[p].waiting /\ call[p].kind = "stream"}
                    /\ gate[c].streams = {p \in Callers : call[p].client = c /\ call[p].pc = "stream"}
                    /\ {p \in Callers : call[p].client = c /\ call[p].pc = "commit"} = {gate[c].active} \ {None}
                    /\ GateWaiters(gate[c]) <= MaxWaiters /\ Cardinality(gate[c].streams) <= MaxStreams
  BY Zenon DEF GateMatchesCallers
<1> DEFINE g == gate[c]
<1>1. g \in SessionType /\ Bounded(g) /\ \A q \in Callers : InPlace(q, call[q], c, g)
  BY DEF IInv
<1>2. Range(g.mutations) \subseteq Callers /\ Range(g.reconnects) \subseteq Callers
  BY <1>1 DEF SessionType, Range
<1>3. g.streamWaiters \subseteq Callers /\ g.streams \subseteq Callers /\ g.active \in Callers \cup {None}
  BY <1>1 DEF SessionType
<1> HIDE DEF g
<1>4. Range(g.mutations) =
        {p \in Callers : call[p].client = c /\ call[p].waiting /\ call[p].kind = "mutation"}
  BY <1>1, <1>2 DEF InPlace
<1>5. Range(g.reconnects) =
        {p \in Callers : call[p].client = c /\ call[p].waiting /\ call[p].kind = "reconnect"}
  BY <1>1, <1>2 DEF InPlace
<1>6. g.streamWaiters = {p \in Callers : call[p].client = c /\ call[p].waiting /\ call[p].kind = "stream"}
  BY <1>1, <1>3 DEF InPlace
<1>7. g.streams = {p \in Callers : call[p].client = c /\ call[p].pc = "stream"}
  BY <1>1, <1>3 DEF InPlace
<1>8. {p \in Callers : call[p].client = c /\ call[p].pc = "commit"} = {g.active} \ {None}
  BY <1>1, <1>3, BoundsAssumption DEF InPlace
<1> QED  BY <1>1, <1>4, <1>5, <1>6, <1>7, <1>8 DEF Bounded, g

\* The queues, the waiters, the holders and the active commit of every client's gate are those of
\* the callers inside the store, each token once, and no more of them than the gate admits:
\* session_gate.go and session_reconnect.go neither leave a token behind nor lose one, whatever the
\* number of clients and callers and whatever the bounds.
THEOREM GatesMatchCallers == Spec => []GateMatchesCallers
<1> QED  BY InitIInv, NextIInv, TokensMatch, PTL DEF Spec
=============================================================================
