------------------------- MODULE RunAuthorityProofs -------------------------
(***************************************************************************)
(* Theorems about RunAuthority, for every set of processes, transactions,  *)
(* runs and payloads and for every MaxGen: a transaction that never had an *)
(* uncertain write knows the record, records only advance, an issued       *)
(* snapshot stays durable until it is left, and it is continued at most    *)
(* once.                                                                   *)
(***************************************************************************)
EXTENDS RunAuthority, FiniteSetTheorems, TLAPS

\* The types the argument needs, and the shape of handles that have not locked yet and of
\* records that do not exist.  The lease counts of a store play no part in it.
Typed ==
    /\ disk \in [Runs -> RecordType]
    /\ lock \in [Runs -> Handles \cup {None}]
    /\ handle \in [Handles -> HandleType]
    /\ issued \subseteq [run : Runs, gen : 0 .. MaxGen, snap : Payloads]
    /\ continued \subseteq Runs \X (0 .. MaxGen)

Shaped(k) ==
    /\ k.pc = "start" => k.snap = None
    /\ k.pc \in {"import", "prepared"} => k.snap # None
    /\ k.pc = "import" => ~k.consumed

WellShaped ==
    /\ \A h \in Handles : Shaped(handle[h])
    /\ \A r \in Runs : disk[r].phase = "ABSENT" => disk[r].gen = 0

\* A legal step of a record: the condition of AdvanceStep.
Later(old, new) ==
    /\ old.phase # "TERMINAL" /\ new.phase # "ABSENT"
    /\ new.gen >= old.gen
    /\ new.gen = old.gen => <<old.phase, new.phase>> \in
          {<<"ACTIVE", "SUSPENDED">>, <<"ACTIVE", "TERMINAL">>, <<"SUSPENDED", "TERMINAL">>,
           <<"IMPORTING", "ACTIVE">>}

\* The record d keeps the envelope e, or has left its suspension for good.
Durable(d, e) ==
    \/ d.gen > e.gen
    \/ d.gen = e.gen /\ (d.phase = "TERMINAL" \/ d = [phase |-> "SUSPENDED", gen |-> e.gen, snap |-> e.snap])

\* The record d is beyond the continuation of generation g: at least active at g + 1.
Past(d, g) == d.gen > g /\ ~(d.phase = "IMPORTING" /\ d.gen = g + 1)

ContinuedIsPast == \A r \in Runs, g \in 0 .. MaxGen : <<r, g>> \in continued => Past(disk[r], g)

IInv == Typed /\ WellShaped /\ OwnerKnowsRecord /\ IssuedIsDurable /\ ContinuedIsPast

\* What a step may do besides keeping IInv.
Advances == \A r \in Runs : disk'[r] # disk[r] => Later(disk[r], disk'[r])

OnceMore ==
    \A r \in Runs, g \in Gens : handle' # handle /\ <<r, g>> \in continued => ~Continues(r, g)

Good == IInv' /\ Advances /\ OnceMore

Holds(k) == k.pc \in {"active", "prepared"}

-----------------------------------------------------------------------------
(* Records.                                                                *)

\* A record that advances keeps what was durable.
LEMMA LaterKeepsDurable ==
    ASSUME NEW old \in RecordType, NEW new \in RecordType, Later(old, new),
           NEW e \in [run : Runs, gen : 0 .. MaxGen, snap : Payloads], Durable(old, e)
    PROVE  Durable(new, e)
BY GenAssumption DEF RecordType, Later, Durable

\* A record that advances stays past every continued generation.
LEMMA LaterKeepsPast ==
    ASSUME NEW old \in RecordType, NEW new \in RecordType, Later(old, new),
           NEW g \in 0 .. MaxGen, Past(old, g)
    PROVE  Past(new, g)
BY GenAssumption DEF RecordType, Later, Past

-----------------------------------------------------------------------------
(* Steps.                                                                  *)

\* A step that only touches stores changes nothing the invariant speaks of.
LEMMA StoreStep ==
    ASSUME IInv, UNCHANGED <<disk, lock, handle, issued, continued>>
    PROVE  Good
BY DEF IInv, Good, Typed, WellShaped, OwnerKnowsRecord, IssuedIsDurable, ContinuedIsPast,
       Advances, OnceMore, Holding

\* A handle without the lock begins, or gives up, a call.
LEMMA QuietStep ==
    ASSUME IInv, UNCHANGED <<disk, lock, issued, continued>>,
           NEW h \in Handles, NEW k \in HandleType, handle' = [handle EXCEPT ![h] = k],
           ~Holds(handle[h]), ~Holds(k), Shaped(k)
    PROVE  Good
<1>1. Typed'
  BY DEF IInv, Typed
<1>2. WellShaped'
  BY DEF IInv, Typed, WellShaped
<1>3. OwnerKnowsRecord'
  BY DEF IInv, Typed, OwnerKnowsRecord, Holding, Holds
<1>4. IssuedIsDurable' /\ ContinuedIsPast' /\ Advances
  BY DEF IInv, IssuedIsDurable, ContinuedIsPast, Advances
<1>5. OnceMore
  BY DEF IInv, Typed, OnceMore, Continues, Holding, Holds, Gens
<1> QED  BY <1>1, <1>2, <1>3, <1>4, <1>5 DEF Good, IInv

\* A transaction h that owns its run r, or takes its free lock, moves the record from disk[r] to
\* d and itself to k; it holds the lock afterwards exactly if k is a holding state.
LEMMA OwnedStep ==
    ASSUME IInv, NEW h \in Handles, NEW r \in Runs, NEW k \in HandleType, NEW d \in RecordType,
           handle[h].run = r, k.run = r, lock[r] \in {h, None},
           Holds(handle[h]) => lock[r] = h,
           handle' = [handle EXCEPT ![h] = k],
           disk' = [disk EXCEPT ![r] = d],
           lock' = [lock EXCEPT ![r] = IF Holds(k) THEN h ELSE None],
           Shaped(k),
           Holds(k) /\ ~k.uncertain => d = View(k),
           d = disk[r] \/ Later(disk[r], d),
           issued' \subseteq [run : Runs, gen : 0 .. MaxGen, snap : Payloads],
           \A e \in issued' : e \in issued \/ (e.run = r /\ Durable(d, e)),
           continued' \subseteq Runs \X (0 .. MaxGen),
           \A s \in Runs, g \in 0 .. MaxGen :
               <<s, g>> \in continued' => <<s, g>> \in continued \/ (s = r /\ Past(d, g)),
           Holds(handle[h]) /\ k.pc = "active" /\ k.gen = handle[h].gen + 1
               => <<r, handle[h].gen>> \notin continued
    PROVE  Good
<1>1. Typed'
  BY DEF IInv, Typed
<1>2. WellShaped'
  <2>1. d.phase = "ABSENT" => d.gen = 0
    BY DEF IInv, WellShaped, Later
  <2> QED  BY <2>1 DEF IInv, Typed, WellShaped
<1>3. OwnerKnowsRecord'
  <2>1. ASSUME NEW x \in Handles, Holds(handle'[x])
        PROVE  /\ lock'[handle'[x].run] = x
               /\ ~handle'[x].uncertain => disk'[handle'[x].run] = View(handle'[x])
    <3>1. CASE x = h
      BY <2>1, <3>1 DEF IInv, Typed
    <3>2. CASE x # h
      <4>1. handle'[x] = handle[x] /\ handle[x].run \in Runs /\ Holds(handle[x])
        BY <2>1, <3>2 DEF IInv, Typed, HandleType
      <4>2. lock[handle[x].run] = x /\ (~handle[x].uncertain => disk[handle[x].run] = View(handle[x]))
        BY <4>1 DEF IInv, OwnerKnowsRecord, Holding, Holds
      <4>3. x # None
        BY NoneAssumption DEF Handles
      <4>4. handle[x].run # r
        BY <3>2, <4>2, <4>3
      <4> QED  BY <4>1, <4>2, <4>4 DEF IInv, Typed
    <3> QED  BY <3>1, <3>2
  <2>2. ASSUME NEW s \in Runs, lock'[s] # None
        PROVE  Holds(handle'[lock'[s]]) /\ handle'[lock'[s]].run = s
    <3>1. CASE s = r
      BY <2>2, <3>1 DEF IInv, Typed
    <3>2. CASE s # r
      <4>1. lock'[s] = lock[s] /\ lock[s] \in Handles
        BY <2>2, <3>2 DEF IInv, Typed
      <4>2. Holds(handle[lock[s]]) /\ handle[lock[s]].run = s
        BY <2>2, <4>1 DEF IInv, OwnerKnowsRecord, Holding, Holds
      <4>3. lock[s] # h
        BY <3>2, <4>2
      <4> QED  BY <4>1, <4>2, <4>3 DEF IInv, Typed
    <3> QED  BY <3>1, <3>2
  <2> QED  BY <2>1, <2>2 DEF OwnerKnowsRecord, Holding, Holds
<1>4. IssuedIsDurable'
  <2> SUFFICES ASSUME NEW e \in issued'
               PROVE  Durable(disk'[e.run], e)
    BY DEF IssuedIsDurable, Durable
  <2>1. CASE e \in issued
    <3>1. Durable(disk[e.run], e) /\ e.run \in Runs /\ disk[e.run] \in RecordType
      BY <2>1 DEF IInv, Typed, IssuedIsDurable, Durable
    <3>2. disk'[e.run] = IF e.run = r THEN d ELSE disk[e.run]
      BY <3>1 DEF IInv, Typed
    <3> QED  BY <3>1, <3>2, LaterKeepsDurable
  <2>2. CASE e.run = r /\ Durable(d, e)
    BY <2>2 DEF IInv, Typed
  <2> QED  BY <2>1, <2>2
<1>5. ContinuedIsPast'
  <2> SUFFICES ASSUME NEW s \in Runs, NEW g \in 0 .. MaxGen, <<s, g>> \in continued'
               PROVE  Past(disk'[s], g)
    BY DEF ContinuedIsPast
  <2>1. disk'[s] = (IF s = r THEN d ELSE disk[s]) /\ disk[s] \in RecordType
    BY DEF IInv, Typed
  <2>2. CASE <<s, g>> \in continued
    <3>1. Past(disk[s], g)
      BY <2>2 DEF IInv, ContinuedIsPast
    <3> QED  BY <2>1, <3>1, LaterKeepsPast
  <2>3. CASE s = r /\ Past(d, g)
    BY <2>1, <2>3
  <2> QED  BY <2>2, <2>3
<1>6. Advances
  BY DEF IInv, Typed, Advances
<1>7. OnceMore
  <2> SUFFICES ASSUME NEW s \in Runs, NEW g \in Gens, <<s, g>> \in continued,
                      NEW x \in Handles, handle[x].run = s, handle[x].gen = g, Holding(x),
                      handle'[x].pc = "active", handle'[x].gen = g + 1
               PROVE  FALSE
    BY DEF OnceMore, Continues
  <2>1. x = h
    BY DEF IInv, Typed, HandleType, Gens
  <2> QED  BY <2>1 DEF IInv, Typed, Holding, Holds
<1> QED  BY <1>1, <1>2, <1>3, <1>4, <1>5, <1>6, <1>7 DEF Good, IInv

-----------------------------------------------------------------------------
(* Actions.                                                                *)

\* What an undisturbed owner of a run knows.
LEMMA OwnerFacts ==
    ASSUME IInv, NEW h \in Handles, Holds(handle[h])
    PROVE  /\ handle[h] \in HandleType /\ handle[h].run \in Runs
           /\ disk[handle[h].run] \in RecordType
           /\ lock[handle[h].run] = h
           /\ ~handle[h].uncertain => disk[handle[h].run] = View(handle[h])
BY DEF IInv, Typed, OwnerKnowsRecord, Holding, Holds, HandleType

\* A handle at rest.
LEMMA IdleFacts ==
    ASSUME NEW r \in Runs
    PROVE  /\ IdleHandle(r) \in HandleType /\ IdleHandle(r).run = r /\ IdleHandle(r).snap = None
           /\ IdleHandle(r).pc = "idle" /\ ~Holds(IdleHandle(r)) /\ Shaped(IdleHandle(r))
<1> DEFINE k == IdleHandle(r)
<1>1. k = [pc |-> "idle", run |-> r, gen |-> 0, snap |-> None, consumed |-> FALSE, uncertain |-> FALSE]
  BY DEF IdleHandle
<1>2. 0 \in 0 .. MaxGen
  BY GenAssumption
<1> HIDE DEF k
<1>3. k \in HandleType
  BY <1>1, <1>2 DEF HandleType
<1>4. k.run = r /\ k.snap = None /\ k.pc = "idle"
  BY <1>1
<1>5. ~Holds(k) /\ Shaped(k)
  BY <1>4, SMTT(30) DEF Holds, Shaped
<1> QED  BY <1>3, <1>4, <1>5 DEF k

\* A lock that is given back without a write.
LEMMA FinishStep ==
    ASSUME IInv, NEW h \in Handles, Holds(handle[h]), Finish(h), UNCHANGED <<disk, issued, continued>>
    PROVE  Good
<1> DEFINE r == handle[h].run
           k == IdleHandle(r)
<1>1. r \in Runs /\ disk[r] \in RecordType /\ lock[r] = h
  BY OwnerFacts
<1>2. k \in HandleType /\ k.run = r /\ ~Holds(k) /\ Shaped(k) /\ k.pc = "idle"
  BY <1>1, IdleFacts, Zenon
<1>3. /\ handle' = [handle EXCEPT ![h] = k]
      /\ disk' = [disk EXCEPT ![r] = disk[r]]
      /\ lock' = [lock EXCEPT ![r] = IF Holds(k) THEN h ELSE None]
  BY <1>1, <1>2 DEF Finish, IInv, Typed
<1>4. issued' = issued /\ continued' = continued
  OBVIOUS
<1>5. /\ issued \subseteq [run : Runs, gen : 0 .. MaxGen, snap : Payloads]
      /\ continued \subseteq Runs \X (0 .. MaxGen)
  BY DEF IInv, Typed
<1> HIDE DEF k
<1> QED  BY <1>1, <1>2, <1>3, <1>4, <1>5, OwnedStep, ZenonT(40)

\* Start and PrepareImport begin, and are refused.
LEMMA BeginStep ==
    ASSUME IInv, NEW h \in Handles,
           \/ \E r \in Runs : Start(h, r)
           \/ \E e \in issued : PrepareImport(h, e)
           \/ StartRefused(h) \/ ImportRefused(h)
    PROVE  Good
<1>1. handle[h] \in HandleType /\ handle[h].run \in Runs
  BY DEF IInv, Typed, HandleType
<1>2. ASSUME NEW r \in Runs, Start(h, r)  PROVE Good
  <2> DEFINE k == [IdleHandle(r) EXCEPT !.pc = "start"]
  <2>0. IdleHandle(r) \in HandleType /\ IdleHandle(r).snap = None
    BY IdleFacts, Zenon
  <2>1. k \in HandleType /\ ~Holds(k) /\ Shaped(k)
    BY <2>0 DEF HandleType, Holds, Shaped
  <2>2. handle' = [handle EXCEPT ![h] = k] /\ ~Holds(handle[h]) /\ UNCHANGED <<disk, lock, issued, continued>>
    BY <1>2 DEF Start, Admitted, Holds
  <2> HIDE DEF k
  <2> QED  BY <2>1, <2>2, QuietStep, ZenonT(40)
<1>3. ASSUME NEW e \in issued, PrepareImport(h, e)  PROVE Good
  <2> DEFINE k == [IdleHandle(e.run) EXCEPT !.pc = "import", !.gen = e.gen, !.snap = e.snap]
  <2>1. e \in [run : Runs, gen : 0 .. MaxGen, snap : Payloads] /\ e.snap # None
    BY NoneAssumption DEF IInv, Typed
  <2>2. k \in HandleType /\ ~Holds(k) /\ Shaped(k)
    BY <2>1, GenAssumption, ZenonT(40) DEF HandleType, IdleHandle, Holds, Shaped
  <2>3. handle' = [handle EXCEPT ![h] = k] /\ ~Holds(handle[h]) /\ UNCHANGED <<disk, lock, issued, continued>>
    BY <1>3 DEF PrepareImport, Admitted, Holds
  <2> HIDE DEF k
  <2> QED  BY <2>2, <2>3, QuietStep, ZenonT(40)
<1>4. ASSUME StartRefused(h) \/ ImportRefused(h)  PROVE Good
  <2> DEFINE k == IdleHandle(handle[h].run)
  <2>1. k \in HandleType /\ ~Holds(k) /\ Shaped(k)
    BY <1>1, IdleFacts, Zenon
  <2>2. handle' = [handle EXCEPT ![h] = k] /\ ~Holds(handle[h]) /\ UNCHANGED <<disk, lock, issued, continued>>
    BY <1>4 DEF StartRefused, ImportRefused, Refuse, Holds
  <2> HIDE DEF k
  <2> QED  BY <2>1, <2>2, QuietStep, ZenonT(40)
<1> QED  BY <1>2, <1>3, <1>4

\* A process that dies gives its locks back and forgets its transactions.
LEMMA RestartStep ==
    ASSUME IInv, NEW p \in Processes, Restart(p)
    PROVE  Good
<1>1. /\ disk' = disk /\ issued' = issued /\ continued' = continued
      /\ \A h \in Handles : handle'[h] = IF Home(h) = p THEN IdleHandle(handle[h].run) ELSE handle[h]
      /\ \A r \in Runs : lock'[r] = IF lock[r] # None /\ Home(lock[r]) = p THEN None ELSE lock[r]
  BY DEF Restart
<1>2. \A h \in Handles : IdleHandle(handle[h].run) \in HandleType /\ Shaped(IdleHandle(handle[h].run))
                         /\ IdleHandle(handle[h].run).pc = "idle"
  <2>1. \A h \in Handles : handle[h].run \in Runs
    BY DEF IInv, Typed, HandleType
  <2> QED  BY <2>1, IdleFacts, Zenon
<1>3. Typed'
  <2>1. handle' \in [Handles -> HandleType]
    BY <1>2 DEF Restart, IInv, Typed
  <2>2. lock' \in [Runs -> Handles \cup {None}]
    BY DEF Restart, IInv, Typed
  <2> QED  BY <1>1, <2>1, <2>2 DEF IInv, Typed
<1>4. WellShaped'
  BY <1>1, <1>2 DEF IInv, WellShaped
<1>5. OwnerKnowsRecord'
  <2>1. ASSUME NEW h \in Handles, Holds(handle'[h])
        PROVE  lock'[handle'[h].run] = h /\ (~handle'[h].uncertain => disk'[handle'[h].run] = View(handle'[h]))
    <3>1. Home(h) # p /\ handle'[h] = handle[h]
      BY <1>1, <1>2, <2>1 DEF Holds
    <3>2. handle[h].run \in Runs /\ lock[handle[h].run] = h
          /\ (~handle[h].uncertain => disk[handle[h].run] = View(handle[h]))
      BY <2>1, <3>1, OwnerFacts
    <3> QED  BY <1>1, <3>1, <3>2
  <2>2. ASSUME NEW r \in Runs, lock'[r] # None
        PROVE  Holds(handle'[lock'[r]]) /\ handle'[lock'[r]].run = r
    <3>1. lock'[r] = lock[r] /\ lock[r] \in Handles /\ Home(lock[r]) # p
      BY <1>1, <2>2 DEF IInv, Typed
    <3>2. Holds(handle[lock[r]]) /\ handle[lock[r]].run = r
      BY <2>2, <3>1 DEF IInv, OwnerKnowsRecord, Holding, Holds
    <3> QED  BY <1>1, <3>1, <3>2
  <2> QED  BY <2>1, <2>2 DEF OwnerKnowsRecord, Holding, Holds
<1>6. IssuedIsDurable' /\ ContinuedIsPast' /\ Advances
  BY <1>1 DEF IInv, IssuedIsDurable, ContinuedIsPast, Advances
<1>7. OnceMore
  <2> SUFFICES ASSUME NEW h \in Handles, NEW g \in Gens, handle[h].gen = g,
                      handle'[h].pc = "active", handle'[h].gen = g + 1
               PROVE  FALSE
    BY DEF OnceMore, Continues
  <2>1. handle'[h] = handle[h]
    BY <1>1, <1>2, SMTT(30)
  <2> QED  BY <2>1 DEF Gens
<1> QED  BY <1>3, <1>4, <1>5, <1>6, <1>7 DEF Good, IInv

\* A failed write of a record that may follow the present one: replaced or not, the owner keeps
\* its lock and counts as uncertain.
LEMMA UncertainStep ==
    ASSUME IInv, NEW h \in Handles, Holds(handle[h]), NEW u \in HandleType,
           u.run = handle[h].run, u.gen = handle[h].gen, u.pc = handle[h].pc, Shaped(u),
           NEW d \in RecordType, Later(disk[u.run], d), NEW outcome \in Outcomes,
           Write(u.run, d, outcome), Uncertain(h, u), UNCHANGED <<lock, issued, continued>>
    PROVE  Good
<1> DEFINE r == handle[h].run
           k == [u EXCEPT !.uncertain = TRUE]
           e == IF outcome = "lost" THEN disk[r] ELSE d
<1>1. r \in Runs /\ disk[r] \in RecordType /\ lock[r] = h /\ handle[h].gen \in Nat
  <2>1. handle[h] \in HandleType /\ r \in Runs /\ disk[r] \in RecordType /\ lock[r] = h
    BY OwnerFacts, Zenon
  <2>2. handle[h].gen \in 0 .. MaxGen
    BY <2>1, Zenon DEF HandleType
  <2> QED  BY <2>1, <2>2, GenAssumption
<1>2. k \in HandleType /\ k.run = r /\ k.pc = handle[h].pc /\ k.gen = handle[h].gen /\ k.uncertain
  BY ZenonT(40) DEF HandleType
<1>3. Holds(k) /\ Shaped(k)
  BY DEF HandleType, Holds, Shaped
<1>4. e \in RecordType /\ (e = disk[r] \/ Later(disk[r], e))
  BY <1>1
<1>5. /\ handle' = [handle EXCEPT ![h] = k]
      /\ disk' = [disk EXCEPT ![r] = e]
      /\ lock' = [lock EXCEPT ![r] = IF Holds(k) THEN h ELSE None]
  BY <1>1, <1>3 DEF Uncertain, Write, IInv, Typed
<1>6. /\ issued' = issued /\ issued \subseteq [run : Runs, gen : 0 .. MaxGen, snap : Payloads]
      /\ continued' = continued /\ continued \subseteq Runs \X (0 .. MaxGen)
  BY DEF IInv, Typed
<1>7. k.gen # handle[h].gen + 1
  BY <1>1, <1>2
<1> HIDE DEF k, e
<1> QED  BY <1>1, <1>2, <1>3, <1>4, <1>5, <1>6, <1>7, OwnedStep, ZenonT(40)

\* The update of a handle by Start, and by the activation of an import.
LEMMA StartedHandle ==
    ASSUME NEW j \in HandleType, NEW g \in 0 .. MaxGen
    PROVE  LET k == [j EXCEPT !.pc = "active", !.gen = g]
           IN  k \in HandleType /\ k.run = j.run /\ k.pc = "active" /\ k.gen = g /\ k.snap = j.snap
BY ZenonT(40) DEF HandleType

\* The update of a handle by Resume.
LEMMA ResumedHandle ==
    ASSUME NEW j \in HandleType, NEW g \in 0 .. MaxGen
    PROVE  LET k == [j EXCEPT !.snap = None, !.gen = g]
           IN  k \in HandleType /\ k.run = j.run /\ k.pc = j.pc /\ k.gen = g /\ k.snap = None
BY ZenonT(40) DEF HandleType

\* Start takes a free lock of a run without a record, or fails in the attempt.
LEMMA StartedStep ==
    ASSUME IInv, NEW h \in Handles,
           Started(h) \/ \E outcome \in Outcomes \ {"written"} : StartUncertain(h, outcome)
    PROVE  Good
<1> DEFINE r == handle[h].run
           a == Record("ACTIVE", 1)
<1>1. /\ handle[h] \in HandleType /\ r \in Runs /\ disk[r] \in RecordType /\ Shaped(handle[h])
      /\ a \in RecordType /\ a.phase = "ACTIVE" /\ a.gen = 1
  BY GenAssumption DEF IInv, Typed, WellShaped, HandleType, RecordType, Record
<1>2. handle[h].pc = "start" /\ handle[h].snap = None /\ lock[r] = None /\ disk[r].phase = "ABSENT"
  BY <1>1 DEF Started, StartUncertain, MayStart, Shaped
<1>3. Later(disk[r], a) /\ ~Holds(handle[h])
  BY <1>1, <1>2 DEF IInv, WellShaped, Later, Holds
<1>4. /\ issued' = issued /\ issued \subseteq [run : Runs, gen : 0 .. MaxGen, snap : Payloads]
      /\ continued' = continued /\ continued \subseteq Runs \X (0 .. MaxGen)
  BY SMTT(30) DEF IInv, Typed, Started, StartUncertain
<1>5. CASE Started(h)
  <2> DEFINE k == [handle[h] EXCEPT !.pc = "active", !.gen = 1]
  <2>1. k \in HandleType /\ k.run = r /\ k.pc = "active" /\ k.gen = 1 /\ k.snap = None
    <3>1. 1 \in 0 .. MaxGen
      BY GenAssumption
    <3> QED  BY <1>1, <1>2, <3>1, StartedHandle, Zenon
  <2>2. Holds(k) /\ Shaped(k) /\ View(k) = a
    BY <2>1 DEF Holds, Shaped, View
  <2>3. /\ handle' = [handle EXCEPT ![h] = k]
        /\ disk' = [disk EXCEPT ![r] = a]
        /\ lock' = [lock EXCEPT ![r] = IF Holds(k) THEN h ELSE None]
    BY <1>5, <2>2, ZenonT(40) DEF Started, Write
  <2> HIDE DEF k, a
  <2> QED  BY <1>1, <1>2, <1>3, <1>4, <2>1, <2>2, <2>3, OwnedStep, ZenonT(40)
<1>6. ASSUME NEW outcome \in Outcomes, StartUncertain(h, outcome)  PROVE Good
  <2> DEFINE k == IdleHandle(r)
             e == IF outcome = "lost" THEN disk[r] ELSE a
  <2>1. k \in HandleType /\ k.run = r /\ ~Holds(k) /\ Shaped(k) /\ k.pc = "idle"
    BY <1>1, IdleFacts, Zenon
  <2>2. e \in RecordType /\ (e = disk[r] \/ Later(disk[r], e))
    BY <1>1, <1>3
  <2>3. /\ handle' = [handle EXCEPT ![h] = k]
        /\ disk' = [disk EXCEPT ![r] = e]
        /\ lock' = [lock EXCEPT ![r] = IF Holds(k) THEN h ELSE None]
    BY <1>1, <1>2, <1>6, <2>1 DEF StartUncertain, Write, IInv, Typed
  <2> HIDE DEF k, e
  <2> QED  BY <1>1, <1>2, <1>3, <1>4, <2>1, <2>2, <2>3, OwnedStep, ZenonT(40)
<1> QED  BY <1>5, <1>6

\* PrepareImport takes the free lock of a run whose record is the snapshot it was given.
LEMMA PreparedStep ==
    ASSUME IInv, NEW h \in Handles, Prepared(h)
    PROVE  Good
<1> DEFINE r == handle[h].run
           k == [handle[h] EXCEPT !.pc = "prepared"]
<1>1. handle[h] \in HandleType /\ r \in Runs /\ disk[r] \in RecordType /\ Shaped(handle[h])
  BY DEF IInv, Typed, WellShaped, HandleType
<1>2. /\ handle[h].pc = "import" /\ lock[r] = None /\ handle[h].snap # None /\ ~handle[h].consumed
      /\ disk[r] = [phase |-> "SUSPENDED", gen |-> handle[h].gen, snap |-> handle[h].snap]
  BY <1>1 DEF Prepared, MatchesSuspended, Shaped
<1>3. /\ k \in HandleType /\ k.run = r /\ k.pc = "prepared" /\ k.gen = handle[h].gen
      /\ k.snap = handle[h].snap /\ k.consumed = handle[h].consumed
  BY <1>1 DEF HandleType
<1>4. Holds(k) /\ Shaped(k) /\ ~Holds(handle[h]) /\ disk[r] = View(k)
  BY <1>2, <1>3 DEF Holds, Shaped, View
<1>5. /\ handle' = [handle EXCEPT ![h] = k]
      /\ disk' = [disk EXCEPT ![r] = disk[r]]
      /\ lock' = [lock EXCEPT ![r] = IF Holds(k) THEN h ELSE None]
  BY <1>1, <1>4 DEF Prepared, IInv, Typed
<1>6. /\ issued' = issued /\ issued \subseteq [run : Runs, gen : 0 .. MaxGen, snap : Payloads]
      /\ continued' = continued /\ continued \subseteq Runs \X (0 .. MaxGen)
  BY DEF IInv, Typed, Prepared
<1> HIDE DEF k
<1> QED  BY <1>1, <1>2, <1>3, <1>4, <1>5, <1>6, OwnedStep, ZenonT(40)

\* A suspended run is signed.
LEMMA SignStep ==
    ASSUME IInv, NEW h \in Handles, NEW p \in Payloads, NEW outcome \in Outcomes,
           SignSuspended(h, p, outcome)
    PROVE  Good
<1> DEFINE j == handle[h]
           r == j.run
           d == [phase |-> "SUSPENDED", gen |-> j.gen, snap |-> p]
<1>1. j.pc = "active" /\ ~j.uncertain /\ j.snap = None /\ Holds(j) /\ p # None
  BY NoneAssumption DEF SignSuspended, Owner, MaySign, Holds
<1>2. /\ j \in HandleType /\ r \in Runs /\ disk[r] \in RecordType /\ lock[r] = h
      /\ disk[r] = Record("ACTIVE", j.gen) /\ j.gen \in 0 .. MaxGen /\ Shaped(j)
  BY <1>1, OwnerFacts, ZenonT(40) DEF View, HandleType, IInv, WellShaped
<1>3. d \in RecordType /\ Later(disk[r], d)
  BY <1>2, GenAssumption DEF RecordType, Later, Record
<1>4. Write(r, d, outcome) /\ lock' = lock /\ continued' = continued
  BY SMTT(30) DEF SignSuspended
<1>5. CASE outcome # "written"
  <2>1. Uncertain(h, j) /\ issued' = issued
    BY <1>5, SMTT(30) DEF SignSuspended
  <2> HIDE DEF d
  <2> QED  BY <1>1, <1>2, <1>3, <1>4, <2>1, UncertainStep
<1>6. CASE outcome = "written"
  <2> DEFINE k == [j EXCEPT !.snap = p]
             e == [run |-> r, gen |-> j.gen, snap |-> p]
  <2>1. k \in HandleType /\ k.run = r /\ k.pc = "active" /\ k.gen = j.gen /\ k.snap = p
    BY <1>1, <1>2 DEF HandleType
  <2>2. Holds(k) /\ Shaped(k) /\ View(k) = d /\ k.gen # j.gen + 1
    BY <1>1, <1>2, <2>1, GenAssumption DEF Holds, Shaped, View
  <2>3. /\ handle' = [handle EXCEPT ![h] = k]
        /\ disk' = [disk EXCEPT ![r] = d]
        /\ lock' = [lock EXCEPT ![r] = IF Holds(k) THEN h ELSE None]
    BY <1>2, <1>4, <1>6, <2>2 DEF SignSuspended, Write, IInv, Typed
  <2>4. issued' = issued \cup {e}
    BY <1>6, SMTT(30) DEF SignSuspended
  <2>5. e \in [run : Runs, gen : 0 .. MaxGen, snap : Payloads] /\ e.run = r /\ Durable(d, e)
    BY <1>2 DEF Durable
  <2>6. /\ issued' \subseteq [run : Runs, gen : 0 .. MaxGen, snap : Payloads]
        /\ \A x \in issued' : x \in issued \/ (x.run = r /\ Durable(d, x))
        /\ continued' \subseteq Runs \X (0 .. MaxGen)
    BY <1>4, <2>4, <2>5 DEF IInv, Typed
  <2> HIDE DEF k, d, e
  <2> QED  BY <1>1, <1>2, <1>3, <1>4, <2>1, <2>2, <2>3, <2>6, OwnedStep, ZenonT(40)
<1> QED  BY <1>5, <1>6

\* From a suspended record the next generation, from an owned one its own tombstone, is a
\* legal step.
LEMMA LaterFacts ==
    ASSUME NEW old \in RecordType, NEW g \in 0 .. MaxGen, old.gen = g
    PROVE  /\ \A p \in {"ACTIVE", "IMPORTING"} :
                  g + 1 \in 0 .. MaxGen /\ old.phase = "SUSPENDED" =>
                      Record(p, g + 1) \in RecordType /\ Later(old, Record(p, g + 1))
           /\ old.phase \in {"ACTIVE", "SUSPENDED"} =>
                  Record("TERMINAL", g) \in RecordType /\ Later(old, Record("TERMINAL", g))
<1>1. ASSUME NEW p \in {"ACTIVE", "IMPORTING", "TERMINAL"}, NEW n \in 0 .. MaxGen
      PROVE  /\ Record(p, n) \in RecordType /\ Record(p, n).phase = p /\ Record(p, n).gen = n
  BY Zenon DEF Record, RecordType
<1>2. ASSUME NEW p \in {"ACTIVE", "IMPORTING"}, g + 1 \in 0 .. MaxGen, old.phase = "SUSPENDED"
      PROVE  Record(p, g + 1) \in RecordType /\ Later(old, Record(p, g + 1))
  <2>1. Record(p, g + 1) \in RecordType /\ Record(p, g + 1).phase = p /\ Record(p, g + 1).gen = g + 1
    <3>1. p \in {"ACTIVE", "IMPORTING", "TERMINAL"}
      OBVIOUS
    <3> QED  BY <1>1, <1>2, <3>1
  <2>2. g + 1 >= g /\ g + 1 # g
    BY GenAssumption
  <2>3. p # "ABSENT" /\ old.phase # "TERMINAL"
    BY <1>2
  <2> QED  BY <2>1, <2>2, <2>3, Zenon DEF Later
<1>3. ASSUME old.phase \in {"ACTIVE", "SUSPENDED"}
      PROVE  Record("TERMINAL", g) \in RecordType /\ Later(old, Record("TERMINAL", g))
  <2>1. /\ Record("TERMINAL", g) \in RecordType /\ Record("TERMINAL", g).phase = "TERMINAL"
        /\ Record("TERMINAL", g).gen = g
    BY <1>1, Zenon
  <2>2. g >= g
    BY GenAssumption
  <2>3. old.phase # "TERMINAL" /\ "TERMINAL" # "ABSENT"
    BY <1>3
  <2> QED  BY <1>3, <2>1, <2>2, <2>3, Zenon DEF Later
<1> QED  BY <1>2, <1>3, Zenon

\* A locally suspended run is resumed at the next generation.
LEMMA ResumeStep ==
    ASSUME IInv, NEW h \in Handles, NEW outcome \in Outcomes, Resume(h, outcome)
    PROVE  Good
<1> DEFINE j == handle[h]
           r == j.run
           d == Record("ACTIVE", j.gen + 1)
<1>1. j.pc = "active" /\ ~j.uncertain /\ j.snap # None /\ Holds(j) /\ j.gen < MaxGen
  BY DEF Resume, Owner, Holds
<1>2. /\ j \in HandleType /\ r \in Runs /\ disk[r] \in RecordType /\ lock[r] = h
      /\ disk[r] = [phase |-> "SUSPENDED", gen |-> j.gen, snap |-> j.snap]
      /\ j.gen \in 0 .. MaxGen /\ j.gen + 1 \in 0 .. MaxGen /\ Shaped(j)
  <2>1. /\ j \in HandleType /\ r \in Runs /\ disk[r] \in RecordType /\ lock[r] = h
        /\ disk[r] = View(j) /\ Shaped(j)
    BY <1>1, OwnerFacts, Zenon DEF IInv, WellShaped
  <2>2. View(j) = [phase |-> "SUSPENDED", gen |-> j.gen, snap |-> j.snap]
    BY <1>1, Zenon DEF View
  <2>3. j.gen \in 0 .. MaxGen
    BY <2>1, Zenon DEF HandleType
  <2>4. j.gen + 1 \in 0 .. MaxGen
    BY <1>1, <2>3, GenAssumption
  <2> QED  BY <2>1, <2>2, <2>3, <2>4, Zenon
<1>3. d \in RecordType /\ Later(disk[r], d) /\ d.phase = "ACTIVE" /\ d.gen = j.gen + 1
  <2>1. disk[r].gen = j.gen /\ disk[r].phase = "SUSPENDED"
    BY <1>2
  <2>2. d \in RecordType /\ Later(disk[r], d)
    BY <1>2, <2>1, LaterFacts, Zenon
  <2> QED  BY <2>2, Zenon DEF Record
<1>4. Write(r, d, outcome) /\ lock' = lock /\ issued' = issued
  BY SMTT(30) DEF Resume
<1>5. CASE outcome # "written"
  <2>1. Uncertain(h, j) /\ continued' = continued
    BY <1>5, SMTT(30) DEF Resume
  <2> HIDE DEF d
  <2> QED  BY <1>1, <1>2, <1>3, <1>4, <2>1, UncertainStep
<1>6. CASE outcome = "written"
  <2> DEFINE k == [j EXCEPT !.snap = None, !.gen = j.gen + 1]
  <2>1. k \in HandleType /\ k.run = r /\ k.pc = "active" /\ k.gen = j.gen + 1 /\ k.snap = None
    BY <1>1, <1>2, ResumedHandle, Zenon
  <2>2. Holds(k) /\ Shaped(k) /\ View(k) = d
    BY <2>1 DEF Holds, Shaped, View
  <2>3. /\ handle' = [handle EXCEPT ![h] = k]
        /\ disk' = [disk EXCEPT ![r] = d]
        /\ lock' = [lock EXCEPT ![r] = IF Holds(k) THEN h ELSE None]
    BY <1>2, <1>4, <1>6, <2>2, ZenonT(40) DEF Resume, Write, IInv, Typed
  <2>4. continued' = continued \cup {<<r, j.gen>>} /\ Past(d, j.gen)
    BY <1>2, <1>3, <1>6 DEF Resume, Past
  <2>5. /\ issued' \subseteq [run : Runs, gen : 0 .. MaxGen, snap : Payloads]
        /\ continued' \subseteq Runs \X (0 .. MaxGen)
        /\ \A s \in Runs, g \in 0 .. MaxGen :
               <<s, g>> \in continued' => <<s, g>> \in continued \/ (s = r /\ Past(d, g))
    BY <1>2, <1>4, <2>4 DEF IInv, Typed
  <2>6. <<r, j.gen>> \notin continued
    <3>1. disk[r].gen = j.gen
      BY <1>2
    <3>2. ~(j.gen > j.gen)
      BY <1>2, GenAssumption
    <3>3. ContinuedIsPast
      BY DEF IInv
    <3> QED  BY <1>2, <3>1, <3>2, <3>3, Zenon DEF ContinuedIsPast, Past
  <2> HIDE DEF k, d
  <2> QED  BY <1>1, <1>2, <1>3, <1>4, <2>1, <2>2, <2>3, <2>5, <2>6, OwnedStep, ZenonT(40)
<1> QED  BY <1>5, <1>6

\* The tombstone is written, and the lock given back once it is certain.
LEMMA TerminalStep ==
    ASSUME IInv, NEW h \in Handles, NEW outcome \in Outcomes, Terminal(h, outcome)
    PROVE  Good
<1> DEFINE j == handle[h]
           r == j.run
           d == Record("TERMINAL", j.gen)
<1>1. j.pc = "active" /\ ~j.uncertain /\ Holds(j)
  BY DEF Terminal, Owner, Holds
<1>2. /\ j \in HandleType /\ r \in Runs /\ disk[r] \in RecordType /\ lock[r] = h
      /\ disk[r].gen = j.gen /\ disk[r].phase \in {"ACTIVE", "SUSPENDED"}
      /\ j.gen \in 0 .. MaxGen /\ Shaped(j)
  <2>1. disk[r] = View(j) /\ Shaped(j)
    BY <1>1, OwnerFacts DEF IInv, WellShaped
  <2>2. View(j).gen = j.gen /\ View(j).phase \in {"ACTIVE", "SUSPENDED"}
    BY <1>1 DEF View, Record
  <2> QED  BY <1>1, <2>1, <2>2, OwnerFacts DEF HandleType
<1>3. d \in RecordType /\ Later(disk[r], d)
  <2>1. disk[r].gen = j.gen /\ disk[r].phase \in {"ACTIVE", "SUSPENDED"}
    BY <1>2, Zenon
  <2> QED  BY <1>2, <2>1, LaterFacts, Zenon
<1>4. Write(r, d, outcome) /\ issued' = issued /\ continued' = continued
  BY SMTT(30) DEF Terminal
<1>5. CASE outcome # "written"
  <2>1. Uncertain(h, j) /\ lock' = lock
    BY <1>5, SMTT(30) DEF Terminal
  <2> HIDE DEF d
  <2> QED  BY <1>1, <1>2, <1>3, <1>4, <2>1, UncertainStep
<1>6. CASE outcome = "written"
  <2> DEFINE k == IdleHandle(r)
  <2>1. k \in HandleType /\ k.run = r /\ ~Holds(k) /\ Shaped(k) /\ k.pc = "idle"
    BY <1>2, IdleFacts, Zenon
  <2>2. /\ handle' = [handle EXCEPT ![h] = k]
        /\ disk' = [disk EXCEPT ![r] = d]
        /\ lock' = [lock EXCEPT ![r] = IF Holds(k) THEN h ELSE None]
    BY <1>4, <1>6, <2>1 DEF Terminal, Finish, Write
  <2>3. /\ issued' \subseteq [run : Runs, gen : 0 .. MaxGen, snap : Payloads]
        /\ continued' \subseteq Runs \X (0 .. MaxGen)
    BY <1>4 DEF IInv, Typed
  <2> HIDE DEF k, d
  <2> QED  BY <1>1, <1>2, <1>3, <1>4, <2>1, <2>2, <2>3, OwnedStep, ZenonT(40)
<1> QED  BY <1>5, <1>6

\* The update of a handle by Consume.
LEMMA ConsumedHandle ==
    ASSUME NEW j \in HandleType
    PROVE  LET k == [j EXCEPT !.consumed = TRUE]
           IN  /\ k \in HandleType /\ k.run = j.run /\ k.pc = j.pc /\ k.gen = j.gen /\ k.snap = j.snap
               /\ k.consumed
BY ZenonT(40) DEF HandleType

\* An import consumes its snapshot: the record is importing at the next generation.
LEMMA ConsumeStep ==
    ASSUME IInv, NEW h \in Handles, NEW outcome \in Outcomes, Consume(h, outcome)
    PROVE  Good
<1> DEFINE j == handle[h]
           r == j.run
           k == [j EXCEPT !.consumed = TRUE]
           d == Record("IMPORTING", j.gen + 1)
<1>1. j.pc = "prepared" /\ ~j.uncertain /\ ~j.consumed /\ Holds(j) /\ j.gen < MaxGen
  BY DEF Consume, Holds
<1>2. /\ j \in HandleType /\ r \in Runs /\ disk[r] \in RecordType /\ lock[r] = h
      /\ disk[r] = [phase |-> "SUSPENDED", gen |-> j.gen, snap |-> j.snap]
      /\ j.gen \in 0 .. MaxGen /\ j.gen + 1 \in 0 .. MaxGen /\ Shaped(j)
  <2>1. /\ j \in HandleType /\ r \in Runs /\ disk[r] \in RecordType /\ lock[r] = h
        /\ disk[r] = View(j) /\ Shaped(j)
    BY <1>1, OwnerFacts, Zenon DEF IInv, WellShaped
  <2>2. View(j) = [phase |-> "SUSPENDED", gen |-> j.gen, snap |-> j.snap]
    BY <1>1, Zenon DEF View
  <2>3. j.gen \in 0 .. MaxGen
    BY <2>1, Zenon DEF HandleType
  <2>4. j.gen + 1 \in 0 .. MaxGen
    BY <1>1, <2>3, GenAssumption
  <2> QED  BY <2>1, <2>2, <2>3, <2>4, Zenon
<1>3. d \in RecordType /\ Later(disk[r], d)
  <2>1. disk[r].gen = j.gen /\ disk[r].phase = "SUSPENDED"
    BY <1>2
  <2> QED  BY <1>2, <2>1, LaterFacts, Zenon
<1>4. /\ k \in HandleType /\ k.run = r /\ k.pc = j.pc /\ k.gen = j.gen /\ k.snap = j.snap
      /\ k.consumed
  BY <1>2, ConsumedHandle, Zenon
<1>5. Holds(k) /\ Shaped(k) /\ View(k) = d /\ k.pc = "prepared"
  BY <1>1, <1>2, <1>4 DEF Holds, Shaped, View
<1>6. /\ Write(r, d, outcome) /\ lock' = lock /\ issued' = issued /\ continued' = continued
      /\ outcome # "written" => Uncertain(h, k)
      /\ outcome = "written" => handle' = [handle EXCEPT ![h] = k]
  BY SMTT(30) DEF Consume
<1>7. CASE outcome # "written"
  <2> HIDE DEF k, d
  <2> QED  BY Zenon, <1>1, <1>2, <1>3, <1>4, <1>5, <1>6, <1>7, UncertainStep
<1>8. CASE outcome = "written"
  <2>1. /\ disk' = [disk EXCEPT ![r] = d]
        /\ lock' = [lock EXCEPT ![r] = IF Holds(k) THEN h ELSE None]
    BY <1>2, <1>5, <1>6, <1>8 DEF Write, IInv, Typed
  <2>2. /\ issued' \subseteq [run : Runs, gen : 0 .. MaxGen, snap : Payloads]
        /\ continued' \subseteq Runs \X (0 .. MaxGen)
    BY <1>6 DEF IInv, Typed
  <2> HIDE DEF k, d
  <2> QED  BY <1>1, <1>2, <1>3, <1>4, <1>5, <1>6, <1>8, <2>1, <2>2, OwnedStep, ZenonT(40)
<1> QED  BY <1>7, <1>8

\* A consumed import becomes the active owner.
LEMMA ActivateStep ==
    ASSUME IInv, NEW h \in Handles, NEW outcome \in Outcomes, Activate(h, outcome)
    PROVE  Good
<1> DEFINE j == handle[h]
           r == j.run
           d == Record("ACTIVE", j.gen + 1)
<1>1. j.pc = "prepared" /\ ~j.uncertain /\ j.consumed /\ Holds(j)
  BY DEF Activate, Holds
<1>2. /\ j \in HandleType /\ r \in Runs /\ disk[r] \in RecordType /\ lock[r] = h
      /\ disk[r] = Record("IMPORTING", j.gen + 1) /\ j.gen \in 0 .. MaxGen /\ Shaped(j)
  BY <1>1, OwnerFacts, ZenonT(40) DEF View, HandleType, IInv, WellShaped
<1>3. disk[r].phase = "IMPORTING" /\ disk[r].gen = j.gen + 1 /\ j.gen + 1 \in 0 .. MaxGen
  BY <1>2 DEF Record, RecordType
<1>4. d \in RecordType /\ Later(disk[r], d) /\ d.phase = "ACTIVE" /\ d.gen = j.gen + 1
  BY <1>3, GenAssumption DEF RecordType, Later, Record
<1>5. Write(r, d, outcome) /\ lock' = lock /\ issued' = issued
  BY SMTT(30) DEF Activate
<1>6. CASE outcome # "written"
  <2>1. Uncertain(h, j) /\ continued' = continued
    BY <1>6, SMTT(30) DEF Activate
  <2> HIDE DEF d
  <2> QED  BY <1>1, <1>2, <1>4, <1>5, <2>1, UncertainStep
<1>7. CASE outcome = "written"
  <2> DEFINE i == IdleHandle(r)
             k == [i EXCEPT !.pc = "active", !.gen = j.gen + 1]
  <2>1. i \in HandleType /\ i.run = r /\ i.snap = None
    BY <1>2, IdleFacts, Zenon
  <2>2. handle' = [handle EXCEPT ![h] = k]
    BY <1>7, SMTT(30) DEF Activate
  <2> HIDE DEF i
  <2>3. k \in HandleType /\ k.run = r /\ k.pc = "active" /\ k.gen = j.gen + 1 /\ k.snap = None
    BY <1>3, <2>1, StartedHandle, Zenon
  <2>4. Holds(k) /\ Shaped(k) /\ View(k) = d
    BY <2>3 DEF Holds, Shaped, View
  <2>5. /\ disk' = [disk EXCEPT ![r] = d]
        /\ lock' = [lock EXCEPT ![r] = IF Holds(k) THEN h ELSE None]
    BY <1>2, <1>5, <1>7, <2>4 DEF Write, IInv, Typed
  <2>6. continued' = continued \cup {<<r, j.gen>>} /\ Past(d, j.gen)
    BY <1>2, <1>4, <1>7 DEF Activate, Past
  <2>7. /\ issued' \subseteq [run : Runs, gen : 0 .. MaxGen, snap : Payloads]
        /\ continued' \subseteq Runs \X (0 .. MaxGen)
        /\ \A s \in Runs, g \in 0 .. MaxGen :
               <<s, g>> \in continued' => <<s, g>> \in continued \/ (s = r /\ Past(d, g))
    BY <1>2, <1>5, <2>6 DEF IInv, Typed
  <2>8. <<r, j.gen>> \notin continued
    BY <1>2, <1>3 DEF IInv, ContinuedIsPast, Past
  <2> HIDE DEF k, d
  <2> QED  BY <1>1, <1>2, <1>4, <1>5, <2>2, <2>3, <2>4, <2>5, <2>7, <2>8, OwnedStep, ZenonT(40)
<1> QED  BY <1>6, <1>7

-----------------------------------------------------------------------------
(* Theorems.                                                               *)

\* Every step of the authority keeps the invariant, advances records and continues no snapshot
\* a second time.
LEMMA NextIsGood ==
    ASSUME IInv, [Next]_vars
    PROVE  Good
<1>1. CASE UNCHANGED vars
  BY <1>1, StoreStep DEF vars
<1>2. ASSUME NEW h \in Handles, Transaction(h)  PROVE Good
  <2>1. CASE StartRefused(h) \/ ImportRefused(h)
    BY <2>1, BeginStep
  <2>2. CASE Started(h) \/ \E outcome \in Outcomes \ {"written"} : StartUncertain(h, outcome)
    BY <2>2, StartedStep
  <2>3. CASE Prepared(h)
    BY <2>3, PreparedStep
  <2>4. CASE CloseActive(h) \/ Abort(h)
    BY <2>4, FinishStep DEF CloseActive, Abort, Holds
  <2>5. ASSUME NEW outcome \in Outcomes,
               Resume(h, outcome) \/ Terminal(h, outcome) \/ Consume(h, outcome) \/ Activate(h, outcome)
        PROVE  Good
    BY <2>5, ResumeStep, TerminalStep, ConsumeStep, ActivateStep
  <2>6. ASSUME NEW p \in Payloads, NEW outcome \in Outcomes, SignSuspended(h, p, outcome)
        PROVE  Good
    BY <2>6, SignStep
  <2> QED  BY <1>2, <2>1, <2>2, <2>3, <2>4, <2>5, <2>6 DEF Transaction
<1>3. ASSUME NEW h \in Handles, (\E r \in Runs : Start(h, r)) \/ \E e \in issued : PrepareImport(h, e)
      PROVE  Good
  BY <1>3, BeginStep
<1>4. ASSUME NEW p \in Processes, CloseStore(p)  PROVE Good
  BY <1>4, StoreStep DEF CloseStore
<1>5. ASSUME NEW p \in Processes, Restart(p)  PROVE Good
  BY <1>5, RestartStep
<1> QED  BY <1>1, <1>2, <1>3, <1>4, <1>5 DEF Next

\* The inductive invariant holds in every behaviour.
THEOREM Inductive == Spec => []IInv
<1>1. Init => IInv
  <2> SUFFICES ASSUME Init PROVE IInv
    OBVIOUS
  <2>1. \A r \in Runs : IdleHandle(r) \in HandleType /\ Shaped(IdleHandle(r)) /\ IdleHandle(r).pc = "idle"
    BY IdleFacts, Zenon
  <2>2. NoRecord \in RecordType /\ NoRecord.gen = 0
    BY GenAssumption DEF RecordType, NoRecord
  <2>3. \A h \in Handles : handle[h] \in HandleType /\ Shaped(handle[h]) /\ handle[h].pc = "idle"
    BY <2>1 DEF Init
  <2>4. Typed
    BY <2>2, <2>3 DEF Init, Typed
  <2>5. WellShaped /\ OwnerKnowsRecord /\ IssuedIsDurable /\ ContinuedIsPast
    BY <2>2, <2>3 DEF Init, WellShaped, OwnerKnowsRecord, Holding, IssuedIsDurable, ContinuedIsPast
  <2> QED  BY <2>4, <2>5 DEF IInv
<1>2. IInv /\ [Next]_vars => IInv'
  BY NextIsGood DEF Good
<1> QED  BY <1>1, <1>2, PTL DEF Spec

\* A transaction whose writes were all certain holds the lock of its run alone and knows its
\* record, for any number of processes that start, write uncertainly, close and crash.
THEOREM OwnersKnow == Spec => []OwnerKnowsRecord
<1>1. IInv => OwnerKnowsRecord
  BY DEF IInv
<1> QED  BY <1>1, Inductive, PTL

\* A snapshot envelope that SignSnapshot handed out stays the record of its run until the run
\* is continued or ended.
THEOREM EnvelopesAreDurable == Spec => []IssuedIsDurable
<1>1. IInv => IssuedIsDurable
  BY DEF IInv
<1> QED  BY <1>1, Inductive, PTL

\* A run has one history, for any number of processes: every write moves its record forward, so
\* no stale process takes it back, and a suspended snapshot is continued at most once, by Resume
\* or by Import.
THEOREM HistoryStaysOne == Spec => HistoryIsOne
<1>1. Good => AdvanceStep /\ OnceStep
  BY Zenon DEF Good, Advances, Later, OnceMore, AdvanceStep, OnceStep
<1>2. IInv /\ [Next]_vars => [AdvanceStep /\ OnceStep]_vars
  BY <1>1, NextIsGood
<1> QED  BY <1>2, Inductive, PTL DEF Spec, HistoryIsOne

-----------------------------------------------------------------------------
(* Leases: the store counts its open transactions, and closes after the    *)
(* last of them.                                                           *)

StoreType == [uncertain : SUBSET Runs, leases : Nat, closing : BOOLEAN, closed : BOOLEAN]

\* The transactions of a process.
Open(p) == {h \in Handles : Home(h) = p /\ handle[h].pc # "idle"}

Counted(p) ==
    /\ store[p].leases = Cardinality(Open(p))
    /\ store[p].closed <=> store[p].closing /\ Open(p) = {}

\* A generation that was ever written is positive.
Positive ==
    /\ \A h \in Handles : handle[h].pc \in {"import", "prepared", "active"} => handle[h].gen >= 1
    /\ \A e \in issued : e.gen >= 1
    /\ \A r \in Runs, g \in 0 .. MaxGen : <<r, g>> \in continued => g >= 1

LInv == store \in [Processes -> StoreType] /\ (\A p \in Processes : Counted(p)) /\ Positive

\* The transactions of a process are at most its slots.
LEMMA OpenIsFinite ==
    ASSUME NEW p \in Processes
    PROVE  IsFiniteSet(Open(p)) /\ Cardinality(Open(p)) \in 0 .. Cardinality(Slots)
<1> DEFINE f == [h \in Open(p) |-> h[2]]
<1>1. \A h \in Open(p) : h[2] \in Slots /\ h = <<p, h[2]>>
  BY DEF Open, Handles, Home
<1>2. f \in Injection(Open(p), Slots)
  BY <1>1 DEF Injection, IsInjective
<1>3. IsFiniteSet(Open(p)) /\ Cardinality(Open(p)) <= Cardinality(Slots)
  BY <1>2, FS_Injection, SlotsAssumption
<1> QED  BY <1>3, FS_CardinalityType, SlotsAssumption

\* What a step of one transaction does to the leases of its process: nothing, or it takes one
\* while the store is open, or it gives one back.
Leased(s, t, before, after) ==
    /\ t \in StoreType /\ t.closing = s.closing
    /\ \/ (before = "idle" <=> after = "idle") /\ t.leases = s.leases /\ t.closed = s.closed
       \/ before = "idle" /\ after # "idle" /\ t.leases = s.leases + 1 /\ t.closed = s.closed /\ ~s.closing /\ ~s.closed
       \/ before # "idle" /\ after = "idle" /\ t.leases = s.leases - 1 /\ (t.closed <=> s.closed \/ (s.closing /\ s.leases = 1))

\* A step of one transaction keeps the count.
LEMMA LeaseStep ==
    ASSUME IInv, LInv, NEW h \in Handles, NEW k \in HandleType, NEW t,
           handle' = [handle EXCEPT ![h] = k],
           store' = [store EXCEPT ![Home(h)] = t],
           Leased(store[Home(h)], t, handle[h].pc, k.pc)
    PROVE  store' \in [Processes -> StoreType] /\ \A p \in Processes : Counted(p)'
<1>1. Home(h) \in Processes /\ handle \in [Handles -> HandleType] /\ store \in [Processes -> StoreType]
  BY DEF Handles, Home, IInv, Typed, LInv
<1>2. store' \in [Processes -> StoreType]
  BY <1>1 DEF Leased
<1>3. ASSUME NEW p \in Processes, p # Home(h) PROVE Counted(p)'
  <2>1. Open(p)' = Open(p) /\ store'[p] = store[p]
    BY <1>1, <1>3 DEF Open
  <2> QED  BY <2>1 DEF LInv, Counted
<1>4. Counted(Home(h))'
  <2> DEFINE p == Home(h)
  <2>1. store'[p] = t /\ t \in StoreType /\ store[p] \in StoreType
    BY <1>1 DEF Leased
  <2>2. /\ handle'[h] = k
        /\ \A x \in Handles : x # h => handle'[x] = handle[x]
    BY <1>1
  <2>3. IsFiniteSet(Open(p)) /\ Cardinality(Open(p)) \in Nat /\ (Cardinality(Open(p)) = 0 <=> Open(p) = {})
    BY <1>1, OpenIsFinite, FS_EmptySet, FS_CardinalityType
  <2>4. /\ store[p].leases = Cardinality(Open(p))
        /\ store[p].closed <=> store[p].closing /\ Open(p) = {}
    BY <1>1 DEF LInv, Counted
  <2>5. CASE handle[h].pc = "idle" <=> k.pc = "idle"
    <3>1. Open(p)' = Open(p)
      BY <2>2, <2>5 DEF Open
    <3>2. t.leases = store[p].leases /\ t.closed = store[p].closed /\ t.closing = store[p].closing
      BY <2>5 DEF Leased
    <3> QED  BY <2>1, <2>4, <3>1, <3>2 DEF Counted
  <2>6. CASE handle[h].pc = "idle" /\ k.pc # "idle"
    <3>1. Open(p)' = Open(p) \cup {h} /\ h \notin Open(p)
      BY <2>2, <2>6 DEF Open
    <3>2. Cardinality(Open(p)') = Cardinality(Open(p)) + 1 /\ Open(p)' # {}
      BY <2>3, <3>1, FS_AddElement
    <3>3. t.leases = store[p].leases + 1 /\ ~t.closed /\ ~t.closing
      BY <2>1, <2>6 DEF Leased, StoreType
    <3> QED  BY <2>1, <2>4, <3>2, <3>3 DEF Counted
  <2>7. CASE handle[h].pc # "idle" /\ k.pc = "idle"
    <3>1. Open(p)' = Open(p) \ {h} /\ h \in Open(p)
      BY <2>2, <2>7 DEF Open
    <3>2. Cardinality(Open(p)') = Cardinality(Open(p)) - 1 /\ IsFiniteSet(Open(p)')
      BY <2>3, <3>1, FS_RemoveElement
    <3>3. Cardinality(Open(p)') = 0 <=> Open(p)' = {}
      BY <3>2, FS_EmptySet
    <3>4. /\ t.leases = store[p].leases - 1 /\ t.closing = store[p].closing
          /\ t.closed <=> store[p].closed \/ (store[p].closing /\ store[p].leases = 1)
      BY <2>1, <2>7 DEF Leased, StoreType
    <3> QED  BY <2>1, <2>3, <2>4, <3>1, <3>2, <3>3, <3>4 DEF Counted
  <2> QED  BY <2>5, <2>6, <2>7
<1> QED  BY <1>2, <1>3, <1>4

\* The operations of a store, as steps of a lease.
LEMMA StoreUpdates ==
    ASSUME NEW s \in StoreType, NEW r \in Runs, NEW a, NEW b
    PROVE  /\ (a = "idle" <=> b = "idle") => Leased(s, s, a, b) /\ Leased(s, MarkUncertain(s, r), a, b)
           /\ a = "idle" /\ b # "idle" /\ ~s.closing /\ ~s.closed => Leased(s, BeginLease(s), a, b)
           /\ a # "idle" /\ b = "idle" /\ s.leases > 0 =>
                 Leased(s, EndLease(s), a, b) /\ Leased(s, EndLease(MarkUncertain(s, r)), a, b)
<1> DEFINE m == MarkUncertain(s, r)
           n == BeginLease(s)
           u == EndLease(s)
           v == EndLease(m)
<1>1. /\ m \in StoreType /\ m.leases = s.leases /\ m.closing = s.closing /\ m.closed = s.closed
  BY DEF MarkUncertain, StoreType
<1>2. /\ n \in StoreType /\ n.leases = s.leases + 1 /\ n.closing = s.closing /\ n.closed = s.closed
  BY DEF BeginLease, StoreType
<1>3. ASSUME NEW x \in StoreType, x.leases > 0
      PROVE  /\ EndLease(x) \in StoreType /\ EndLease(x).leases = x.leases - 1
             /\ EndLease(x).closing = x.closing
             /\ EndLease(x).closed <=> x.closed \/ (x.closing /\ x.leases = 1)
  <2> DEFINE l == x.leases - 1
             c == x.closed \/ (x.closing /\ x.leases = 1)
  <2>1. l \in Nat /\ c \in BOOLEAN
    BY <1>3 DEF StoreType
  <2>2. EndLease(x) = [x EXCEPT !.leases = l, !.closed = c]
    BY Zenon DEF EndLease
  <2> HIDE DEF l, c
  <2>3. /\ EndLease(x) \in StoreType /\ EndLease(x).leases = l
        /\ EndLease(x).closing = x.closing /\ EndLease(x).closed = c
    BY Zenon, <2>1, <2>2 DEF StoreType
  <2> QED  BY Zenon, <2>3 DEF l, c
<1>4. s.leases > 0 =>
        /\ u \in StoreType /\ u.leases = s.leases - 1 /\ u.closing = s.closing
        /\ u.closed <=> s.closed \/ (s.closing /\ s.leases = 1)
  BY <1>3
<1>5. s.leases > 0 =>
        /\ v \in StoreType /\ v.leases = s.leases - 1 /\ v.closing = s.closing
        /\ v.closed <=> s.closed \/ (s.closing /\ s.leases = 1)
  BY <1>1, <1>3
<1> HIDE DEF m, n, u, v
<1>6. /\ (a = "idle" <=> b = "idle") => Leased(s, s, a, b) /\ Leased(s, m, a, b)
      /\ a = "idle" /\ b # "idle" /\ ~s.closing /\ ~s.closed => Leased(s, n, a, b)
      /\ a # "idle" /\ b = "idle" /\ s.leases > 0 => Leased(s, u, a, b) /\ Leased(s, v, a, b)
  BY Zenon, <1>1, <1>2, <1>4, <1>5 DEF Leased
<1> QED  BY Zenon, <1>6 DEF m, n, u, v

\* A transaction that is open has a lease to give back.
LEMMA OpenHasLease ==
    ASSUME LInv, NEW h \in Handles, handle[h].pc # "idle"
    PROVE  Home(h) \in Processes /\ store[Home(h)] \in StoreType /\ store[Home(h)].leases > 0
<1>1. Home(h) \in Processes /\ h \in Open(Home(h))
  BY DEF Handles, Home, Open
<1>2. IsFiniteSet(Open(Home(h))) /\ Cardinality(Open(Home(h))) \in Nat
  BY <1>1, OpenIsFinite, FS_CardinalityType
<1>3. Cardinality(Open(Home(h))) # 0
  BY <1>1, <1>2, FS_EmptySet
<1> QED  BY <1>1, <1>2, <1>3 DEF LInv, Counted

\* A step of one transaction that keeps generations positive keeps LInv.
LEMMA TransactionStep ==
    ASSUME IInv, LInv, NEW h \in Handles, NEW k \in HandleType, NEW t,
           handle' = [handle EXCEPT ![h] = k],
           store' = [store EXCEPT ![Home(h)] = t],
           Leased(store[Home(h)], t, handle[h].pc, k.pc),
           k.pc \in {"import", "prepared", "active"} => k.gen >= 1,
           \A e \in issued' : e \in issued \/ e.gen >= 1,
           \A r \in Runs, g \in 0 .. MaxGen : <<r, g>> \in continued' => <<r, g>> \in continued \/ g >= 1
    PROVE  LInv'
<1>1. store' \in [Processes -> StoreType] /\ \A p \in Processes : Counted(p)'
  BY LeaseStep, ZenonT(40)
<1>2. Positive'
  <2>1. \A x \in Handles : handle'[x] = IF x = h THEN k ELSE handle[x]
    BY DEF IInv, Typed
  <2> QED  BY <2>1 DEF LInv, Positive
<1> QED  BY <1>1, <1>2 DEF LInv

\* Calls begin with a lease and give it back when they are refused.
LEMMA BeginLeases ==
    ASSUME IInv, IInv', LInv, NEW h \in Handles,
           \/ \E r \in Runs : Start(h, r)
           \/ \E e \in issued : PrepareImport(h, e)
           \/ StartRefused(h) \/ ImportRefused(h)
    PROVE  LInv'
<1> DEFINE s == store[Home(h)]
<1>1. handle \in [Handles -> HandleType] /\ handle' \in [Handles -> HandleType] /\ handle[h].run \in Runs
  BY DEF IInv, Typed, HandleType
<1>2. Home(h) \in Processes /\ s \in StoreType
  BY DEF LInv, Handles, Home
<1>3. ASSUME NEW r \in Runs, Start(h, r)  PROVE LInv'
  <2> DEFINE k == [IdleHandle(r) EXCEPT !.pc = "start"]
  <2>1. k.pc = "start"
    BY Zenon DEF IdleHandle
  <2>2. handle' = [handle EXCEPT ![h] = k] /\ handle[h].pc = "idle" /\ ~s.closing /\ ~s.closed
        /\ store' = [store EXCEPT ![Home(h)] = BeginLease(s)] /\ UNCHANGED <<issued, continued>>
    BY <1>3 DEF Start, Admitted
  <2> HIDE DEF k
  <2>3. k \in HandleType
    BY <1>1, <2>2
  <2>4. Leased(s, BeginLease(s), handle[h].pc, k.pc)
    BY Zenon, <1>2, <2>1, <2>2, StoreUpdates
  <2> QED  BY ZenonT(40), <2>1, <2>2, <2>3, <2>4, TransactionStep
<1>4. ASSUME NEW e \in issued, PrepareImport(h, e)  PROVE LInv'
  <2> DEFINE k == [IdleHandle(e.run) EXCEPT !.pc = "import", !.gen = e.gen, !.snap = e.snap]
  <2>1. k.pc = "import" /\ k.gen = e.gen
    BY Zenon DEF IdleHandle
  <2>2. handle' = [handle EXCEPT ![h] = k] /\ handle[h].pc = "idle" /\ ~s.closing /\ ~s.closed
        /\ store' = [store EXCEPT ![Home(h)] = BeginLease(s)] /\ UNCHANGED <<issued, continued>>
    BY <1>4 DEF PrepareImport, Admitted
  <2> HIDE DEF k
  <2>3. k \in HandleType /\ k.gen >= 1
    BY <1>1, <2>1, <2>2 DEF LInv, Positive
  <2>4. Leased(s, BeginLease(s), handle[h].pc, k.pc)
    BY Zenon, <1>1, <1>2, <2>1, <2>2, StoreUpdates
  <2> QED  BY ZenonT(40), <2>1, <2>2, <2>3, <2>4, TransactionStep
<1>5. ASSUME StartRefused(h) \/ ImportRefused(h)  PROVE LInv'
  <2> DEFINE k == IdleHandle(handle[h].run)
  <2>1. k.pc = "idle" /\ handle[h].pc # "idle"
    BY <1>5 DEF IdleHandle, StartRefused, ImportRefused
  <2>2. handle' = [handle EXCEPT ![h] = k]
        /\ store' = [store EXCEPT ![Home(h)] = EndLease(s)] /\ UNCHANGED <<issued, continued>>
    BY <1>5 DEF StartRefused, ImportRefused, Refuse
  <2> HIDE DEF k
  <2>3. k \in HandleType /\ s.leases > 0
    BY <1>1, <2>1, <2>2, OpenHasLease
  <2>4. Leased(s, EndLease(s), handle[h].pc, k.pc)
    BY Zenon, <1>1, <1>2, <2>1, <2>3, StoreUpdates
  <2> QED  BY ZenonT(40), <2>1, <2>2, <2>3, <2>4, TransactionStep
<1> QED  BY <1>3, <1>4, <1>5

\* A transaction that finishes gives its lease back.
LEMMA FinishLeases ==
    ASSUME IInv, IInv', LInv, NEW h \in Handles, handle[h].pc # "idle", UNCHANGED <<issued, continued>>,
           NEW r \in Runs,
           handle' = [handle EXCEPT ![h] = IdleHandle(handle[h].run)],
           \/ store' = [store EXCEPT ![Home(h)] = EndLease(store[Home(h)])]
           \/ store' = [store EXCEPT ![Home(h)] = EndLease(MarkUncertain(store[Home(h)], r))]
    PROVE  LInv'
<1> DEFINE k == IdleHandle(handle[h].run)
           s == store[Home(h)]
<1>1. k.pc = "idle"
  BY DEF IdleHandle
<1>2. handle' = [handle EXCEPT ![h] = k]
  OBVIOUS
<1> HIDE DEF k
<1>3. k \in HandleType
  BY <1>2 DEF IInv, Typed
<1>4. s \in StoreType /\ s.leases > 0
  BY OpenHasLease
<1>5. /\ Leased(s, EndLease(s), handle[h].pc, k.pc)
      /\ Leased(s, EndLease(MarkUncertain(s, r)), handle[h].pc, k.pc)
  BY Zenon, <1>1, <1>4, StoreUpdates
<1>6. PICK t \in {EndLease(s), EndLease(MarkUncertain(s, r))} : store' = [store EXCEPT ![Home(h)] = t]
  BY Zenon
<1> QED  BY ZenonT(40), <1>1, <1>2, <1>3, <1>5, <1>6, TransactionStep

\* A transaction that goes on keeps its lease, whether its write was certain or not.
LEMMA KeepsLease ==
    ASSUME IInv, IInv', LInv, NEW h \in Handles, handle[h].pc # "idle", NEW k,
           handle' = [handle EXCEPT ![h] = k], k.pc \in {"prepared", "active"}, k.gen >= 1,
           \/ store' = store
           \/ store' = [store EXCEPT ![Home(h)] = MarkUncertain(store[Home(h)], handle[h].run)],
           \A e \in issued' : e \in issued \/ e.gen >= 1,
           \A r \in Runs, g \in 0 .. MaxGen : <<r, g>> \in continued' => <<r, g>> \in continued \/ g >= 1
    PROVE  LInv'
<1> DEFINE s == store[Home(h)]
           m == MarkUncertain(s, handle[h].run)
<1>1. k \in HandleType /\ handle[h].run \in Runs
  BY DEF IInv, Typed, HandleType
<1>2. Home(h) \in Processes /\ s \in StoreType /\ store \in [Processes -> StoreType]
  BY OpenHasLease DEF LInv
<1>3. k.pc # "idle"
  OBVIOUS
<1>4. Leased(s, s, handle[h].pc, k.pc) /\ Leased(s, m, handle[h].pc, k.pc)
  BY Zenon, <1>1, <1>2, <1>3, StoreUpdates
<1>5. store' = [store EXCEPT ![Home(h)] = s] \/ store' = [store EXCEPT ![Home(h)] = m]
  BY <1>2
<1>6. PICK t \in {s, m} : store' = [store EXCEPT ![Home(h)] = t]
  BY Zenon, <1>5
<1> HIDE DEF s, m
<1>7. Leased(s, t, handle[h].pc, k.pc)
  BY Zenon, <1>4, <1>6
<1> QED  BY ZenonT(40), <1>1, <1>6, <1>7, TransactionStep DEF s

\* The first write and the lock of an import keep or end the lease.
LEMMA FirstLeases ==
    ASSUME IInv, IInv', LInv, NEW h \in Handles,
           \/ Started(h) \/ Prepared(h) \/ CloseActive(h) \/ Abort(h)
           \/ \E outcome \in Outcomes \ {"written"} : StartUncertain(h, outcome)
    PROVE  LInv'
<1>1. handle \in [Handles -> HandleType] /\ handle[h] \in HandleType /\ handle[h].run \in Runs
  BY DEF IInv, Typed, HandleType
<1>2. CASE Started(h)
  <2> DEFINE k == [handle[h] EXCEPT !.pc = "active", !.gen = 1]
  <2>1. k.pc = "active" /\ k.gen = 1
    BY Zenon, <1>1 DEF HandleType
  <2>2. handle' = [handle EXCEPT ![h] = k] /\ handle[h].pc # "idle" /\ UNCHANGED <<store, issued, continued>>
    BY ZenonT(40), <1>2 DEF Started
  <2> HIDE DEF k
  <2>3. k.gen >= 1
    BY <2>1
  <2> QED  BY ZenonT(40), <2>1, <2>2, <2>3, KeepsLease
<1>3. CASE Prepared(h)
  <2> DEFINE k == [handle[h] EXCEPT !.pc = "prepared"]
  <2>1. k.pc = "prepared" /\ k.gen = handle[h].gen
    BY Zenon, <1>1 DEF HandleType
  <2>2. /\ handle' = [handle EXCEPT ![h] = k] /\ handle[h].pc # "idle" /\ UNCHANGED <<store, issued, continued>>
        /\ handle[h].pc = "import"
    BY <1>3 DEF Prepared
  <2> HIDE DEF k
  <2>3. k.gen >= 1
    BY <2>1, <2>2 DEF LInv, Positive
  <2> QED  BY ZenonT(40), <2>1, <2>2, <2>3, KeepsLease
<1>4. CASE CloseActive(h) \/ Abort(h)
  <2>1. /\ handle' = [handle EXCEPT ![h] = IdleHandle(handle[h].run)] /\ handle[h].pc # "idle"
        /\ store' = [store EXCEPT ![Home(h)] = EndLease(store[Home(h)])] /\ UNCHANGED <<issued, continued>>
    BY <1>4 DEF CloseActive, Abort, Finish
  <2> QED  BY ZenonT(40), <1>1, <2>1, FinishLeases
<1>5. ASSUME NEW outcome \in Outcomes, StartUncertain(h, outcome)  PROVE LInv'
  <2>1. /\ handle' = [handle EXCEPT ![h] = IdleHandle(handle[h].run)] /\ handle[h].pc # "idle"
        /\ store' = [store EXCEPT ![Home(h)] = EndLease(MarkUncertain(store[Home(h)], handle[h].run))]
        /\ UNCHANGED <<issued, continued>>
    BY <1>5 DEF StartUncertain
  <2> QED  BY ZenonT(40), <1>1, <2>1, FinishLeases
<1> QED  BY <1>2, <1>3, <1>4, <1>5

\* A write of an owner keeps its lease, but for the tombstone.
LEMMA WriteLeases ==
    ASSUME IInv, IInv', LInv, NEW h \in Handles, NEW outcome \in Outcomes,
           \/ Resume(h, outcome) \/ Terminal(h, outcome) \/ Consume(h, outcome) \/ Activate(h, outcome)
           \/ \E p \in Payloads : SignSuspended(h, p, outcome)
    PROVE  LInv'
<1> DEFINE j == handle[h]
<1>1. /\ handle \in [Handles -> HandleType] /\ j \in HandleType /\ j.run \in Runs
      /\ j.pc \in {"active", "prepared"} /\ j.pc # "idle"
  BY DEF IInv, Typed, HandleType, Resume, Terminal, Consume, Activate, SignSuspended, Owner
<1>2. j.gen >= 1 /\ j.gen \in Nat
  BY <1>1 DEF LInv, Positive, HandleType
<1>3. ASSUME NEW u \in HandleType, u.pc = j.pc, u.gen = j.gen, Uncertain(h, u), UNCHANGED <<issued, continued>>
      PROVE  LInv'
  <2> DEFINE k == [u EXCEPT !.uncertain = TRUE]
  <2>1. k.pc = j.pc /\ k.gen = j.gen
    BY Zenon, <1>3 DEF HandleType
  <2>2. /\ handle' = [handle EXCEPT ![h] = k]
        /\ store' = [store EXCEPT ![Home(h)] = MarkUncertain(store[Home(h)], handle[h].run)]
    BY <1>3 DEF Uncertain
  <2> HIDE DEF k
  <2>3. k.pc \in {"prepared", "active"} /\ k.gen >= 1
    BY <1>1, <1>2, <2>1
  <2> QED  BY ZenonT(40), <1>1, <1>3, <2>2, <2>3, KeepsLease
<1>4. CASE outcome # "written"
  <2>1. CASE Consume(h, outcome)
    <3> DEFINE u == [j EXCEPT !.consumed = TRUE]
    <3>1. Uncertain(h, u) /\ UNCHANGED <<issued, continued>>
      BY ZenonT(40), <1>4, <2>1 DEF Consume
    <3>2. u \in HandleType /\ u.pc = j.pc /\ u.gen = j.gen
      BY Zenon, <1>1, ConsumedHandle
    <3> HIDE DEF u
    <3> QED  BY Zenon, <3>1, <3>2, <1>3
  <2>2. ASSUME ~Consume(h, outcome)  PROVE Uncertain(h, j) /\ UNCHANGED <<issued, continued>>
    BY ZenonT(40), <1>4, <2>2 DEF Resume, Terminal, Activate, SignSuspended
  <2> QED  BY Zenon, <1>1, <1>3, <2>1, <2>2
<1>5. CASE outcome = "written" /\ Terminal(h, outcome)
  <2>1. /\ handle' = [handle EXCEPT ![h] = IdleHandle(handle[h].run)]
        /\ store' = [store EXCEPT ![Home(h)] = EndLease(store[Home(h)])] /\ UNCHANGED <<issued, continued>>
    BY <1>5 DEF Terminal, Finish
  <2> QED  BY ZenonT(40), <1>1, <2>1, FinishLeases
<1>6. CASE outcome = "written" /\ Resume(h, outcome)
  <2> DEFINE k == [j EXCEPT !.snap = None, !.gen = j.gen + 1]
  <2>1. k.pc = j.pc /\ k.gen = j.gen + 1
    BY Zenon, <1>1 DEF HandleType
  <2>2. handle' = [handle EXCEPT ![h] = k] /\ store' = store /\ issued' = issued
        /\ continued' = continued \cup {<<j.run, j.gen>>}
    BY ZenonT(40), <1>6 DEF Resume
  <2> HIDE DEF k
  <2>3. k.pc \in {"prepared", "active"} /\ k.gen >= 1
    BY <1>1, <1>2, <2>1
  <2>4. \A r \in Runs, g \in 0 .. MaxGen : <<r, g>> \in continued' => <<r, g>> \in continued \/ g >= 1
    BY <1>2, <2>2
  <2> QED  BY ZenonT(40), <1>1, <2>2, <2>3, <2>4, KeepsLease
<1>7. CASE outcome = "written" /\ Consume(h, outcome)
  <2> DEFINE k == [j EXCEPT !.consumed = TRUE]
  <2>1. k.pc = j.pc /\ k.gen = j.gen
    BY Zenon, <1>1, ConsumedHandle
  <2>2. handle' = [handle EXCEPT ![h] = k] /\ store' = store /\ UNCHANGED <<issued, continued>>
    BY ZenonT(40), <1>7 DEF Consume
  <2> HIDE DEF k
  <2>3. k.pc \in {"prepared", "active"} /\ k.gen >= 1
    BY <1>1, <1>2, <2>1
  <2> QED  BY ZenonT(40), <1>1, <2>2, <2>3, KeepsLease
<1>8. CASE outcome = "written" /\ Activate(h, outcome)
  <2> DEFINE k == [IdleHandle(j.run) EXCEPT !.pc = "active", !.gen = j.gen + 1]
  <2>1. k.pc = "active" /\ k.gen = j.gen + 1
    BY Zenon DEF IdleHandle
  <2>2. handle' = [handle EXCEPT ![h] = k] /\ store' = store /\ issued' = issued
        /\ continued' = continued \cup {<<j.run, j.gen>>}
    BY ZenonT(40), <1>8 DEF Activate
  <2> HIDE DEF k
  <2>3. k.pc \in {"prepared", "active"} /\ k.gen >= 1
    BY <1>2, <2>1
  <2>4. \A r \in Runs, g \in 0 .. MaxGen : <<r, g>> \in continued' => <<r, g>> \in continued \/ g >= 1
    BY <1>2, <2>2
  <2> QED  BY ZenonT(40), <1>1, <2>2, <2>3, <2>4, KeepsLease
<1>9. ASSUME outcome = "written", NEW p \in Payloads, SignSuspended(h, p, outcome)  PROVE LInv'
  <2> DEFINE k == [j EXCEPT !.snap = p]
  <2>1. k.pc = j.pc /\ k.gen = j.gen
    BY Zenon, <1>1 DEF HandleType
  <2>2. handle' = [handle EXCEPT ![h] = k] /\ store' = store /\ continued' = continued
        /\ issued' = issued \cup {[run |-> j.run, gen |-> j.gen, snap |-> p]}
    BY ZenonT(40), <1>9 DEF SignSuspended
  <2> HIDE DEF k
  <2>3. k.pc \in {"prepared", "active"} /\ k.gen >= 1
    BY <1>1, <1>2, <2>1
  <2>4. \A e \in issued' : e \in issued \/ e.gen >= 1
    BY <1>2, <2>2
  <2> QED  BY ZenonT(40), <1>1, <2>2, <2>3, <2>4, KeepsLease
<1> QED  BY Zenon, <1>4, <1>5, <1>6, <1>7, <1>8, <1>9

\* Close closes at once without leases; a restart begins with none.
LEMMA ProcessLeases ==
    ASSUME IInv, LInv, NEW p \in Processes, CloseStore(p) \/ Restart(p)
    PROVE  LInv'
<1>1. store \in [Processes -> StoreType] /\ \A q \in Processes : Counted(q)
  BY DEF LInv
<1>2. CASE CloseStore(p)
  <2> DEFINE s == store[p]
             t == [s EXCEPT !.closing = TRUE, !.closed = (s.leases = 0)]
  <2>1. s \in StoreType /\ (s.leases = 0) \in BOOLEAN
    BY <1>1
  <2>2. t \in StoreType /\ t.leases = s.leases /\ t.closing /\ (t.closed <=> s.leases = 0)
    BY Zenon, <2>1 DEF StoreType
  <2>3. store' = [store EXCEPT ![p] = t] /\ UNCHANGED <<handle, issued, continued>>
    BY Zenon, <1>2 DEF CloseStore
  <2> HIDE DEF t
  <2>4. store' \in [Processes -> StoreType] /\ store'[p] = t /\ \A q \in Processes : q # p => store'[q] = store[q]
    BY <1>1, <2>2, <2>3
  <2>5. \A q \in Processes : Open(q)' = Open(q)
    BY <2>3 DEF Open
  <2>6. Cardinality(Open(p)) = 0 <=> Open(p) = {}
    BY OpenIsFinite, FS_EmptySet
  <2>7. \A q \in Processes : Counted(q)'
    BY <1>1, <2>2, <2>4, <2>5, <2>6 DEF Counted
  <2>8. Positive'
    BY <2>3 DEF LInv, Positive
  <2> QED  BY <2>4, <2>7, <2>8 DEF LInv
<1>3. CASE Restart(p)
  <2>1. /\ store' = [store EXCEPT ![p] = NewStore] /\ UNCHANGED <<issued, continued>>
        /\ \A h \in Handles : handle'[h] = IF Home(h) = p THEN IdleHandle(handle[h].run) ELSE handle[h]
    BY <1>3 DEF Restart
  <2>2. \A h \in Handles : IdleHandle(handle[h].run).pc = "idle"
    BY DEF IdleHandle
  <2>3. NewStore \in StoreType /\ NewStore.leases = 0 /\ ~NewStore.closing /\ ~NewStore.closed
    BY DEF NewStore, StoreType
  <2>4. store' \in [Processes -> StoreType] /\ store'[p] = NewStore /\ \A q \in Processes : q # p => store'[q] = store[q]
    BY <1>1, <2>1, <2>3
  <2>5. Open(p)' = {} /\ \A q \in Processes : q # p => Open(q)' = Open(q)
    BY <2>1, <2>2 DEF Open
  <2>6. \A q \in Processes : Counted(q)'
    BY <1>1, <2>3, <2>4, <2>5, FS_EmptySet DEF Counted
  <2>7. Positive'
    BY <2>1, <2>2, SMTT(30) DEF LInv, Positive
  <2> QED  BY <2>4, <2>6, <2>7 DEF LInv
<1> QED  BY <1>2, <1>3

\* Every process counts its leases and closes after the last; every generation is positive.
THEOREM LeasesAreCounted == Spec => []LInv
<1>1. Init => LInv
  <2> SUFFICES ASSUME Init PROVE LInv
    OBVIOUS
  <2>1. NewStore \in StoreType /\ NewStore.leases = 0 /\ ~NewStore.closing /\ ~NewStore.closed
    BY DEF NewStore, StoreType
  <2>2. \A h \in Handles : handle[h].pc = "idle"
    BY DEF Init, IdleHandle
  <2>3. \A p \in Processes : Open(p) = {}
    BY <2>2 DEF Open
  <2>4. store \in [Processes -> StoreType] /\ \A p \in Processes : Counted(p)
    BY <2>1, <2>3, FS_EmptySet DEF Init, Counted
  <2>5. Positive
    BY <2>2 DEF Init, Positive
  <2> QED  BY <2>4, <2>5 DEF LInv
<1>2. ASSUME IInv, IInv', LInv, [Next]_vars  PROVE LInv'
  <2>1. CASE UNCHANGED vars
    BY <1>2, <2>1 DEF vars, LInv, Counted, Open, Positive
  <2>2. ASSUME NEW h \in Handles, Transaction(h)  PROVE LInv'
    BY <1>2, <2>2, BeginLeases, FirstLeases, WriteLeases, ZenonT(40) DEF Transaction
  <2>3. ASSUME NEW h \in Handles, (\E r \in Runs : Start(h, r)) \/ \E e \in issued : PrepareImport(h, e)
        PROVE  LInv'
    BY <1>2, <2>3, BeginLeases
  <2>4. ASSUME NEW p \in Processes, CloseStore(p) \/ Restart(p)  PROVE LInv'
    BY <1>2, <2>4, ProcessLeases
  <2> QED  BY <1>2, <2>1, <2>2, <2>3, <2>4 DEF Next
<1>3. IInv /\ IInv' /\ LInv /\ [Next]_vars => LInv'
  BY <1>2
<1> QED  BY <1>1, <1>3, Inductive, PTL DEF Spec

\* For any number of processes, transactions and runs, crashing and writing uncertainly: owners
\* know their records, envelopes stand, generations stay in their range and a store closes after
\* its last lease.
THEOREM RecordsStayKnown == Spec => []RecordsAreKnown
<1>1. ASSUME IInv, LInv  PROVE RecordsAreKnown
  <2>1. store \in [Processes -> [uncertain : SUBSET Runs, leases : 0 .. Cardinality(Slots), closing : BOOLEAN, closed : BOOLEAN]]
    <3>1. ASSUME NEW p \in Processes
          PROVE  store[p] \in [uncertain : SUBSET Runs, leases : 0 .. Cardinality(Slots), closing : BOOLEAN, closed : BOOLEAN]
      <4>1. store[p] \in StoreType /\ store[p].leases \in 0 .. Cardinality(Slots)
        BY <1>1, OpenIsFinite DEF LInv, Counted
      <4> QED  BY <4>1 DEF StoreType
    <3> QED  BY <1>1, <3>1 DEF LInv
  <2>2. issued \subseteq [run : Runs, gen : Gens, snap : Payloads] /\ continued \subseteq Runs \X Gens
    BY <1>1, GenAssumption DEF IInv, Typed, LInv, Positive, Gens
  <2>3. TypeOK
    BY <1>1, <2>1, <2>2 DEF IInv, Typed, TypeOK
  <2>4. StoreClosesLast
    BY <1>1, Zenon DEF LInv, Counted, Open, StoreClosesLast
  <2> QED  BY <1>1, <2>3, <2>4 DEF IInv, RecordsAreKnown
<1>2. IInv /\ LInv => RecordsAreKnown
  BY <1>1
<1> QED  BY <1>2, Inductive, LeasesAreCounted, PTL
=============================================================================
