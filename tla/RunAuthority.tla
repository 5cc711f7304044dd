---------------------------- MODULE RunAuthority ----------------------------
(***************************************************************************)
(* The durable run authority (daemon/internal/runauthority): one signed    *)
(* record and one operating-system lock per run, shared by every process   *)
(* that opens the directory.  A run is started, suspended with a signed    *)
(* snapshot, resumed by its owner or imported by another process, and      *)
(* ended by a tombstone.                                                   *)
(*                                                                         *)
(* A handle is a goroutine in Start or PrepareImport, and then the Active  *)
(* or Import it returned.  A record write succeeds, fails with the record  *)
(* replaced, or fails with the record as it was.  A process may die at any *)
(* time and open the directory again.                                      *)
(***************************************************************************)
EXTENDS Integers, FiniteSets

CONSTANTS
    Processes,
    Slots,          \* handles per process
    Runs,
    Payloads,       \* the contents a snapshot of a run can have
    None,
    MaxGen          \* math.MaxUint64

ASSUME GenAssumption == MaxGen \in Nat \ {0}
ASSUME NoneAssumption == None \notin (Processes \X Slots) \cup Payloads
ASSUME SlotsAssumption == IsFiniteSet(Slots)

VARIABLES
    disk,       \* the record of each run
    lock,       \* the owner of each run's lock file
    store,      \* the Store of each process
    handle,     \* Active and Import transactions
    issued,     \* the suspended snapshot envelopes handed out
    continued   \* history: the generations whose snapshot was resumed or imported

vars == <<disk, lock, store, handle, issued, continued>>

Handles == Processes \X Slots
Home(h) == h[1]
Gens == 1 .. MaxGen

NoRecord == [phase |-> "ABSENT", gen |-> 0, snap |-> None]
Record(phase, gen) == [phase |-> phase, gen |-> gen, snap |-> None]

NewStore == [uncertain |-> {}, leases |-> 0, closing |-> FALSE, closed |-> FALSE]

IdleHandle(r) == [pc |-> "idle", run |-> r, gen |-> 0, snap |-> None, consumed |-> FALSE, uncertain |-> FALSE]

\* The results of an attempted write.
Outcomes == {"written", "late", "lost"}

-----------------------------------------------------------------------------
(* Store.                                                                  *)

BeginLease(s) == [s EXCEPT !.leases = @ + 1]

\* endLease: the last lease of a closing store closes the directory.
EndLease(s) ==
    [s EXCEPT !.leases = @ - 1, !.closed = @ \/ (s.closing /\ s.leases = 1)]

MarkUncertain(s, r) == [s EXCEPT !.uncertain = @ \cup {r}]

\* writeRecord: what is on disk after the attempt.
Write(r, record, outcome) ==
    disk' = [disk EXCEPT ![r] = IF outcome = "lost" THEN @ ELSE record]

\* A transaction's attempt failed: it keeps its lock and lease.
Uncertain(h, update) ==
    /\ handle' = [handle EXCEPT ![h] = [update EXCEPT !.uncertain = TRUE]]
    /\ store' = [store EXCEPT ![Home(h)] = MarkUncertain(@, handle[h].run)]

\* The lock and the lease are released.
Finish(h) ==
    /\ lock' = [lock EXCEPT ![handle[h].run] = None]
    /\ store' = [store EXCEPT ![Home(h)] = EndLease(@)]
    /\ handle' = [handle EXCEPT ![h] = IdleHandle(handle[h].run)]

\* Start and PrepareImport return an error without having kept the lock.
Refuse(h) ==
    /\ store' = [store EXCEPT ![Home(h)] = EndLease(@)]
    /\ handle' = [handle EXCEPT ![h] = IdleHandle(handle[h].run)]
    /\ UNCHANGED <<disk, lock, issued, continued>>

\* beginLease and isUncertain, before the lock is asked for.
Admitted(h, r) ==
    /\ handle[h].pc = "idle"
    /\ ~store[Home(h)].closing /\ ~store[Home(h)].closed
    /\ r \notin store[Home(h)].uncertain

\* Close: with leases out, the last of them closes the store.
CloseStore(p) ==
    /\ ~store[p].closing
    /\ store' = [store EXCEPT ![p].closing = TRUE, ![p].closed = store[p].leases = 0]
    /\ UNCHANGED <<disk, lock, handle, issued, continued>>

\* The process ends, by a crash or after Close, and opens the directory again.
Restart(p) ==
    /\ store' = [store EXCEPT ![p] = NewStore]
    /\ handle' = [h \in Handles |-> IF Home(h) = p THEN IdleHandle(handle[h].run) ELSE handle[h]]
    /\ lock' = [r \in Runs |-> IF lock[r] # None /\ Home(lock[r]) = p THEN None ELSE lock[r]]
    /\ UNCHANGED <<disk, issued, continued>>

-----------------------------------------------------------------------------
(* Start.                                                                  *)

Start(h, r) ==
    /\ Admitted(h, r)
    /\ store' = [store EXCEPT ![Home(h)] = BeginLease(@)]
    /\ handle' = [handle EXCEPT ![h] = [IdleHandle(r) EXCEPT !.pc = "start"]]
    /\ UNCHANGED <<disk, lock, issued, continued>>

\* The lock is owned, the run has a record already, or the context ended.
StartRefused(h) ==
    /\ handle[h].pc = "start"
    /\ Refuse(h)

MayStart(r) == lock[r] = None /\ disk[r].phase = "ABSENT"

Started(h) ==
    LET r == handle[h].run
    IN  /\ handle[h].pc = "start"
        /\ MayStart(r)
        /\ Write(r, Record("ACTIVE", 1), "written")
        /\ lock' = [lock EXCEPT ![r] = h]
        /\ handle' = [handle EXCEPT ![h].pc = "active", ![h].gen = 1]
        /\ UNCHANGED <<store, issued, continued>>

\* The first write is uncertain: the lock and the lease go at once.
StartUncertain(h, outcome) ==
    LET r == handle[h].run
    IN  /\ handle[h].pc = "start"
        /\ MayStart(r)
        /\ Write(r, Record("ACTIVE", 1), outcome)
        /\ store' = [store EXCEPT ![Home(h)] = EndLease(MarkUncertain(@, r))]
        /\ handle' = [handle EXCEPT ![h] = IdleHandle(r)]
        /\ UNCHANGED <<lock, issued, continued>>

-----------------------------------------------------------------------------
(* Active.                                                                 *)

Owner(h) == handle[h].pc = "active" /\ ~handle[h].uncertain

\* SignSnapshot of a suspended run.  At a suspension the same snapshot is signed again without a
\* write and a different one is refused; at the last generation none is signed.
MaySign(h, p) == handle[h].gen < MaxGen /\ handle[h].snap = None

SignSuspended(h, p, outcome) ==
    LET k == handle[h]
    IN  /\ Owner(h)
        /\ MaySign(h, p)
        /\ Write(k.run, [phase |-> "SUSPENDED", gen |-> k.gen, snap |-> p], outcome)
        /\ IF outcome = "written"
           THEN /\ handle' = [handle EXCEPT ![h].snap = p]
                /\ issued' = issued \cup {[run |-> k.run, gen |-> k.gen, snap |-> p]}
                /\ UNCHANGED store
           ELSE Uncertain(h, k) /\ UNCHANGED issued
        /\ UNCHANGED <<lock, continued>>

\* Resume: the next generation becomes active, and the snapshot is void.
Resume(h, outcome) ==
    LET k == handle[h]
    IN  /\ Owner(h)
        /\ k.snap # None /\ k.gen < MaxGen
        /\ Write(k.run, Record("ACTIVE", k.gen + 1), outcome)
        /\ IF outcome = "written"
           THEN /\ handle' = [handle EXCEPT ![h].snap = None, ![h].gen = k.gen + 1]
                /\ continued' = continued \cup {<<k.run, k.gen>>}
                /\ UNCHANGED store
           ELSE Uncertain(h, k) /\ UNCHANGED continued
        /\ UNCHANGED <<lock, issued>>

\* Terminal, and SignSnapshot of a terminal state: the tombstone, then the release.
Terminal(h, outcome) ==
    LET k == handle[h]
    IN  /\ Owner(h)
        /\ Write(k.run, Record("TERMINAL", k.gen), outcome)
        /\ IF outcome = "written" THEN Finish(h) ELSE Uncertain(h, k) /\ UNCHANGED lock
        /\ UNCHANGED <<issued, continued>>

\* Close without a tombstone: the record stays as it is.
CloseActive(h) ==
    /\ handle[h].pc = "active"
    /\ Finish(h)
    /\ UNCHANGED <<disk, issued, continued>>

-----------------------------------------------------------------------------
(* PrepareImport and Import.                                               *)

PrepareImport(h, e) ==
    /\ Admitted(h, e.run)
    /\ store' = [store EXCEPT ![Home(h)] = BeginLease(@)]
    /\ handle' = [handle EXCEPT ![h] = [IdleHandle(e.run) EXCEPT !.pc = "import", !.gen = e.gen, !.snap = e.snap]]
    /\ UNCHANGED <<disk, lock, issued, continued>>

\* The lock is owned, the record is not this suspended snapshot, or the context ended.
ImportRefused(h) ==
    /\ handle[h].pc = "import"
    /\ Refuse(h)

\* Mutant of MatchesSuspended: the signature's generation is not compared.
MatchesPayload(record, k) == record.phase = "SUSPENDED" /\ record.snap = k.snap

\* matchesSuspended; the signature covers the generation.
MatchesSuspended(record, k) == record = [phase |-> "SUSPENDED", gen |-> k.gen, snap |-> k.snap]

Prepared(h) ==
    LET k == handle[h]
    IN  /\ k.pc = "import"
        /\ lock[k.run] = None
        /\ MatchesSuspended(disk[k.run], k)
        /\ lock' = [lock EXCEPT ![k.run] = h]
        /\ handle' = [handle EXCEPT ![h].pc = "prepared"]
        /\ UNCHANGED <<disk, store, issued, continued>>

\* Mutant of Consume: the import keeps the generation of its source.
ConsumeSameGeneration(h, outcome) ==
    LET k == handle[h]
    IN  /\ k.pc = "prepared" /\ ~k.uncertain /\ ~k.consumed
        /\ k.gen < MaxGen
        /\ Write(k.run, Record("IMPORTING", k.gen), outcome)
        /\ IF outcome = "written" THEN handle' = [handle EXCEPT ![h].consumed = TRUE] /\ UNCHANGED store
           ELSE Uncertain(h, [k EXCEPT !.consumed = TRUE])
        /\ UNCHANGED <<lock, issued, continued>>

\* Consume: the point of no return.
Consume(h, outcome) ==
    LET k == handle[h]
    IN  /\ k.pc = "prepared" /\ ~k.uncertain /\ ~k.consumed
        /\ k.gen < MaxGen
        /\ Write(k.run, Record("IMPORTING", k.gen + 1), outcome)
        /\ IF outcome = "written" THEN handle' = [handle EXCEPT ![h].consumed = TRUE] /\ UNCHANGED store
           ELSE Uncertain(h, [k EXCEPT !.consumed = TRUE])
        /\ UNCHANGED <<lock, issued, continued>>

\* Activate: the held lock passes to the Active.
Activate(h, outcome) ==
    LET k == handle[h]
    IN  /\ k.pc = "prepared" /\ ~k.uncertain /\ k.consumed
        /\ Write(k.run, Record("ACTIVE", k.gen + 1), outcome)
        /\ IF outcome = "written"
           THEN /\ handle' = [handle EXCEPT ![h] = [IdleHandle(k.run) EXCEPT !.pc = "active", !.gen = k.gen + 1]]
                /\ continued' = continued \cup {<<k.run, k.gen>>}
                /\ UNCHANGED store
           ELSE Uncertain(h, k) /\ UNCHANGED continued
        /\ UNCHANGED <<lock, issued>>

\* Abort and Import.Close.
Abort(h) ==
    /\ handle[h].pc = "prepared"
    /\ Finish(h)
    /\ UNCHANGED <<disk, issued, continued>>

-----------------------------------------------------------------------------

Init ==
    /\ disk = [r \in Runs |-> NoRecord]
    /\ lock = [r \in Runs |-> None]
    /\ store = [p \in Processes |-> NewStore]
    /\ handle \in [Handles -> {IdleHandle(r) : r \in Runs}]
    /\ issued = {}
    /\ continued = {}

\* The steps of one handle that are not a first call.
Transaction(h) ==
    \/ StartRefused(h) \/ Started(h) \/ ImportRefused(h) \/ Prepared(h) \/ CloseActive(h) \/ Abort(h)
    \/ \E outcome \in Outcomes \ {"written"} : StartUncertain(h, outcome)
    \/ \E outcome \in Outcomes :
           Resume(h, outcome) \/ Terminal(h, outcome) \/ Consume(h, outcome) \/ Activate(h, outcome)
    \/ \E p \in Payloads, outcome \in Outcomes : SignSuspended(h, p, outcome)

Next ==
    \/ \E h \in Handles : Transaction(h) \/ (\E r \in Runs : Start(h, r)) \/ \E e \in issued : PrepareImport(h, e)
    \/ \E p \in Processes : CloseStore(p) \/ Restart(p)

Spec == Init /\ [][Next]_vars

-----------------------------------------------------------------------------
(* Properties.                                                             *)

RecordType ==
    [phase : {"ABSENT", "ACTIVE", "SUSPENDED", "IMPORTING", "TERMINAL"}, gen : 0 .. MaxGen, snap : Payloads \cup {None}]

HandleType ==
    [pc : {"idle", "start", "import", "active", "prepared"}, run : Runs, gen : 0 .. MaxGen,
     snap : Payloads \cup {None}, consumed : BOOLEAN, uncertain : BOOLEAN]

\* Every field has its type; generations stay within MaxGen.
TypeOK ==
    /\ disk \in [Runs -> RecordType]
    /\ lock \in [Runs -> Handles \cup {None}]
    /\ store \in [Processes -> [uncertain : SUBSET Runs, leases : 0 .. Cardinality(Slots), closing : BOOLEAN, closed : BOOLEAN]]
    /\ handle \in [Handles -> HandleType]
    /\ issued \subseteq [run : Runs, gen : Gens, snap : Payloads]
    /\ continued \subseteq Runs \X Gens

Holding(h) == handle[h].pc \in {"active", "prepared"}

\* What a transaction believes of the record.
View(k) ==
    IF k.pc = "active"
    THEN IF k.snap = None THEN Record("ACTIVE", k.gen) ELSE [phase |-> "SUSPENDED", gen |-> k.gen, snap |-> k.snap]
    ELSE IF k.consumed THEN Record("IMPORTING", k.gen + 1) ELSE [phase |-> "SUSPENDED", gen |-> k.gen, snap |-> k.snap]

\* A transaction whose writes were all certain knows the durable record exactly, and it alone
\* holds the run's lock, whatever other processes do or wherever they crash.
OwnerKnowsRecord ==
    /\ \A h \in Handles : Holding(h) => lock[handle[h].run] = h /\ (~handle[h].uncertain => disk[handle[h].run] = View(handle[h]))
    /\ \A r \in Runs : lock[r] # None => Holding(lock[r]) /\ handle[lock[r]].run = r

\* A step that continues the run r from the suspended generation g.
Continues(r, g) == <<r, g>> \in continued'
                   /\ \E h \in Handles : /\ handle[h].run = r /\ handle[h].gen = g /\ Holding(h)
                                        /\ handle'[h].pc = "active" /\ handle'[h].gen = g + 1

\* A suspended snapshot is continued at most once, by a local Resume or by one Import, across
\* processes, crashes and writes whose outcome was never known.
OnceStep ==
    \A r \in Runs, g \in Gens :
        handle' # handle /\ <<r, g>> \in continued => ~Continues(r, g)

\* The record of a run only moves forward: never back to an older generation, never out of a
\* tombstone, and never back to a suspension that was left.
AdvanceStep ==
    \A r \in Runs :
        LET old == disk[r]  new == disk'[r]
        IN  new # old => /\ old.phase # "TERMINAL" /\ new.phase # "ABSENT"
                         /\ new.gen >= old.gen
                         /\ new.gen = old.gen => <<old.phase, new.phase>> \in
                               {<<"ACTIVE", "SUSPENDED">>, <<"ACTIVE", "TERMINAL">>, <<"SUSPENDED", "TERMINAL">>,
                                <<"IMPORTING", "ACTIVE">>}

\* An envelope that was handed out is durable: its run is at that suspension, with exactly that
\* snapshot, until it is continued, ended, or its continuation is uncertain.
IssuedIsDurable ==
    \A e \in issued :
        LET d == disk[e.run]
        IN  \/ d.gen > e.gen
            \/ d.gen = e.gen /\ (d.phase = "TERMINAL" \/ d = [phase |-> "SUSPENDED", gen |-> e.gen, snap |-> e.snap])

\* The store counts its leases, and closes only when there is none.
StoreClosesLast ==
    \A p \in Processes :
        LET open == {h \in Handles : Home(h) = p /\ handle[h].pc # "idle"}
        IN  store[p].leases = Cardinality(open) /\ (store[p].closed <=> store[p].closing /\ open = {})

\* The durable records are known to their owners: types and bounds, exact views under the
\* lock, envelopes that stand, and a store that closes after its last lease.
RecordsAreKnown == TypeOK /\ OwnerKnowsRecord /\ IssuedIsDurable /\ StoreClosesLast

\* A run has one history: its record only advances and no suspension is continued twice.
HistoryIsOne == [][AdvanceStep /\ OnceStep]_vars

\* "The store also fences same-process retries": once an outcome of a run is uncertain in a
\* process, no transaction on that run is opened in it.
RetriesAreFenced ==
    [][\A h \in Handles : ~Holding(h) /\ Holding(h)' => handle[h].run \notin store[Home(h)].uncertain]_vars
=============================================================================
