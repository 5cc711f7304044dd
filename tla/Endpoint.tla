------------------------------ MODULE Endpoint ------------------------------
(***************************************************************************)
(* The endpoint record of a user's daemon (daemon/endpoint/store.go over   *)
(* daemon/internal/userstorage): processes that publish, discover and      *)
(* withdraw one metadata file under three advisory locks, the startup      *)
(* lease, and the store that keeps its directory bound while any of them   *)
(* needs it.  A process may crash at any step; the system then drops its   *)
(* locks and leaves the file.                                              *)
(*                                                                         *)
(* Every process opens one store and runs one operation at a time.  A      *)
(* record is the incarnation that wrote it; Bad is a file that             *)
(* decodeMetadata or validateCurrentPlatform refuses.                      *)
(***************************************************************************)
EXTENDS Integers, FiniteSets

CONSTANTS
    Procs,
    None, Bad,
    MaxOps,         \* operations begun
    MaxFaults       \* crashes and failing file operations

VARIABLES
    file,       \* endpoint.json
    lock,       \* holders of endpoint.lock, daemon.lock and startup.lock
    op,         \* the operation each process runs
    store,      \* per process: closing, references, whether the directory is bound
    pub,        \* per process: its Publication: none, active, closed
    inst,       \* per process: its incarnation
    ops, faults

vars == <<file, lock, op, store, pub, inst, ops, faults>>

Locks == {"metadata", "daemon", "startup"}

Record(p) == [proc |-> p, inst |-> inst[p]]
IsRecord(f) == f \notin {None, Bad}

IdleOp == [kind |-> None, pc |-> "idle", read |-> None]
NewStore == [closing |-> FALSE, references |-> 0, bound |-> TRUE]

At(p, kind, pc) == op[p].kind = kind /\ op[p].pc = pc
Go(p, pc) == op' = [op EXCEPT ![p].pc = pc]
Acquired(l, p) == lock' = [lock EXCEPT ![l] = p]
Closed(ls) == lock' = [l \in Locks |-> IF l \in ls THEN None ELSE lock[l]]

\* takeDirectoryIfDrained
Drained(s) == [s EXCEPT !.bound = @ /\ ~(s.closing /\ s.references = 0)]

releaseReference(p) == store' = [store EXCEPT ![p] = Drained([@ EXCEPT !.references = @ - 1])]

Finished(p) == op' = [op EXCEPT ![p] = IdleOp]
Same == UNCHANGED <<inst, ops, faults>>

-----------------------------------------------------------------------------
(* Beginning and abandoning an operation.                                  *)

\* retain
Begin(p, kind) ==
    /\ op[p].pc = "idle" /\ ops < MaxOps
    /\ ~store[p].closing /\ store[p].bound
    /\ kind = "publish" => pub[p] = "none"
    /\ kind = "startup" => lock.startup # p
    /\ op' = [op EXCEPT ![p] = [kind |-> kind, pc |-> "lock", read |-> None]]
    /\ store' = [store EXCEPT ![p].references = @ + 1]
    /\ ops' = ops + 1
    /\ UNCHANGED <<file, lock, pub, inst, faults>>

\* Publication.CloseContext, whose publication holds its reference already.
Withdraw(p) ==
    /\ op[p].pc = "idle" /\ pub[p] = "active" /\ ops < MaxOps
    /\ op' = [op EXCEPT ![p] = [kind |-> "withdraw", pc |-> "lock", read |-> None]]
    /\ ops' = ops + 1
    /\ UNCHANGED <<file, lock, store, pub, inst, faults>>

LockOf(kind) == IF kind = "startup" THEN "startup" ELSE "metadata"

\* acquireDirectoryLock polls a non-blocking lock.
AcquireLock(p) ==
    /\ op[p].pc = "lock" /\ lock[LockOf(op[p].kind)] = None
    /\ Acquired(LockOf(op[p].kind), p)
    /\ IF op[p].kind = "startup" THEN Finished(p)
       ELSE Go(p, IF op[p].kind = "withdraw" THEN "remove" ELSE "read")
    /\ UNCHANGED <<file, store, pub>> /\ Same

\* The context ends first: a withdrawal may be tried again, its publication is still active.
Abandon(p) ==
    /\ op[p].pc = "lock" /\ lock[LockOf(op[p].kind)] # None
    /\ Finished(p)
    /\ IF op[p].kind = "withdraw" THEN UNCHANGED store ELSE releaseReference(p)
    /\ UNCHANGED <<file, lock, pub>> /\ Same

\* StartupLease.Release
ReleaseStartup(p) ==
    /\ lock.startup = p /\ op[p].pc = "idle"
    /\ Closed({"startup"})
    /\ releaseReference(p)
    /\ UNCHANGED <<file, op, pub>> /\ Same

-----------------------------------------------------------------------------
(* Discover and Publish, under the metadata lock.                          *)

\* readRecord
Read(p) ==
    /\ op[p].pc = "read"
    /\ IF file = Bad \/ (file = None /\ op[p].kind = "discover")
       THEN op' = [op EXCEPT ![p].pc = "leave", ![p].read = None]
       ELSE op' = [op EXCEPT ![p].pc = "probe", ![p].read = file]
    /\ UNCHANGED <<file, lock, store, pub>> /\ Same

\* Discover's probe of daemon.lock: busy means that the record's daemon lives.
Probe(p) ==
    /\ At(p, "discover", "probe")
    /\ IF lock.daemon # None THEN Go(p, "found") /\ UNCHANGED lock
       ELSE Acquired("daemon", p) /\ Go(p, "stale")
    /\ UNCHANGED <<file, store, pub>> /\ Same

Found(p) ==
    /\ op[p].pc = "found"
    /\ Closed({"metadata"}) /\ releaseReference(p) /\ Finished(p)
    /\ UNCHANGED <<file, pub>> /\ Same

\* removeExactRecord, which may fail, then both locks.
RemoveStale(p, failed) ==
    /\ op[p].pc = "stale" /\ (failed => faults < MaxFaults)
    /\ file' = IF ~failed /\ file = op[p].read THEN None ELSE file
    /\ Closed({"daemon", "metadata"}) /\ releaseReference(p) /\ Finished(p)
    /\ faults' = faults + (IF failed THEN 1 ELSE 0)
    /\ UNCHANGED <<pub, inst, ops>>

\* Publish is refused while another daemon holds daemon.lock.
Live(p) ==
    /\ At(p, "publish", "probe")
    /\ IF lock.daemon # None THEN Go(p, "leave") /\ UNCHANGED lock
       ELSE Acquired("daemon", p) /\ Go(p, "write")
    /\ UNCHANGED <<file, store, pub>> /\ Same

\* WriteFileAtomic replaces the file or leaves it, and may fail after the rename.
Write(p, replaced, failed) ==
    /\ op[p].pc = "write" /\ (failed => faults < MaxFaults) /\ (~failed => replaced)
    /\ file' = IF replaced THEN Record(p) ELSE file
    /\ Go(p, IF failed THEN "fail" ELSE "published")
    /\ faults' = faults + (IF failed THEN 1 ELSE 0)
    /\ UNCHANGED <<lock, store, pub, inst, ops>>

\* Mutant of Leave: a failed publication keeps its liveness lock.
LeaveLive(p) ==
    /\ op[p].pc \in {"leave", "fail"}
    /\ Closed({"metadata"})
    /\ releaseReference(p) /\ Finished(p)
    /\ UNCHANGED <<file, pub>> /\ Same

Leave(p) ==
    /\ op[p].pc \in {"leave", "fail"}
    /\ Closed(IF op[p].pc = "fail" THEN {"metadata", "daemon"} ELSE {"metadata"})
    /\ releaseReference(p) /\ Finished(p)
    /\ UNCHANGED <<file, pub>> /\ Same

Published(p) ==
    /\ op[p].pc = "published"
    /\ Closed({"metadata"}) /\ Finished(p)
    /\ pub' = [pub EXCEPT ![p] = "active"]
    /\ UNCHANGED <<file, store>> /\ Same

-----------------------------------------------------------------------------
(* CloseContext: the record, then liveness, then the metadata lock.        *)

Remove(p, failed) ==
    /\ op[p].pc = "remove" /\ (failed => faults < MaxFaults)
    /\ file' = IF ~failed /\ file = Record(p) THEN None ELSE file
    /\ Go(p, "unlive")
    /\ faults' = faults + (IF failed THEN 1 ELSE 0)
    /\ UNCHANGED <<lock, store, pub, inst, ops>>

Unlive(p) ==
    /\ op[p].pc = "unlive"
    /\ Closed({"daemon"}) /\ Go(p, "withdrawn")
    /\ UNCHANGED <<file, store, pub>> /\ Same

Withdrawn(p) ==
    /\ op[p].pc = "withdrawn"
    /\ Closed({"metadata"}) /\ releaseReference(p) /\ Finished(p)
    /\ pub' = [pub EXCEPT ![p] = "closed"]
    /\ UNCHANGED file /\ Same

-----------------------------------------------------------------------------
(* The store, and crashes.                                                 *)

Close(p) ==
    /\ ~store[p].closing
    /\ store' = [store EXCEPT ![p] = Drained([@ EXCEPT !.closing = TRUE])]
    /\ UNCHANGED <<file, lock, op, pub>> /\ Same

\* The process dies and a new incarnation opens the store.
Crash(p) ==
    /\ faults < MaxFaults
    /\ lock' = [l \in Locks |-> IF lock[l] = p THEN None ELSE lock[l]]
    /\ op' = [op EXCEPT ![p] = IdleOp]
    /\ store' = [store EXCEPT ![p] = NewStore]
    /\ pub' = [pub EXCEPT ![p] = "none"]
    /\ inst' = [inst EXCEPT ![p] = @ + 1]
    /\ faults' = faults + 1
    /\ UNCHANGED <<file, ops>>

Init ==
    /\ file \in {None, Bad}
    /\ lock = [l \in Locks |-> None]
    /\ op = [p \in Procs |-> IdleOp]
    /\ store = [p \in Procs |-> NewStore]
    /\ pub = [p \in Procs |-> "none"]
    /\ inst = [p \in Procs |-> 0]
    /\ ops = 0 /\ faults = 0

Step(p) ==
    \/ \E kind \in {"publish", "discover", "startup"} : Begin(p, kind)
    \/ Withdraw(p) \/ AcquireLock(p) \/ Abandon(p) \/ ReleaseStartup(p)
    \/ Read(p) \/ Probe(p) \/ Found(p) \/ Live(p) \/ Leave(p) \/ Published(p)
    \/ \E failed \in BOOLEAN : RemoveStale(p, failed) \/ Remove(p, failed)
    \/ \E replaced, failed \in BOOLEAN : Write(p, replaced, failed)
    \/ Unlive(p) \/ Withdrawn(p) \/ Close(p) \/ Crash(p)

Next == \E p \in Procs : Step(p)

Spec == Init /\ [][Next]_vars

-----------------------------------------------------------------------------
(* Properties.                                                             *)

\* With the metadata lock free, a record seen while daemon.lock is held is the holder's own: a
\* new daemon never makes an older record appear active (Publish's lock order, Discover).
\* A record that a discovery answers belongs to the daemon that holds daemon.lock, unless that
\* daemon has crashed since.
ActiveRecordIsHolders ==
    /\ lock.metadata = None /\ lock.daemon # None /\ IsRecord(file) =>
           file = Record(lock.daemon)
    /\ \A p \in Procs : op[p].pc = "found" =>
           /\ file = op[p].read
           /\ lock.daemon # None => file = Record(lock.daemon)

\* An active publication keeps its record and daemon.lock, whatever other processes do
\* (Publish, Discover and CloseContext under the metadata lock).
PublicationsStand ==
    \A p \in Procs : pub[p] = "active" /\ op[p].kind # "withdraw" =>
        file = Record(p) /\ lock.daemon = p

\* The directory stays bound while anything of the process uses it, and a closed store with
\* nothing outstanding has given it up (retain, releaseReference, takeDirectoryIfDrained).
DirectoryFollowsUse ==
    \A p \in Procs :
        LET uses == (IF op[p].kind \in {"publish", "discover", "startup"} THEN 1 ELSE 0)
                    + (IF lock.startup = p THEN 1 ELSE 0)
                    + (IF pub[p] = "active" THEN 1 ELSE 0)
        IN  store[p].references = uses /\ store[p].bound = ~(store[p].closing /\ uses = 0)
=============================================================================
