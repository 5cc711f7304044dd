----------------------------- MODULE Executable -----------------------------
(***************************************************************************)
(* Verified executables (package process): a lease holds the file object   *)
(* whose digest was checked, and a private snapshot of it is made, checked *)
(* again and removed when the child is contained.                          *)
(*                                                                         *)
(* A file is its parts, each with the expected bytes or not; its digest is *)
(* right when every part read had the expected bytes.  Others may replace  *)
(* the configured path and rewrite its objects at any time; the private    *)
(* directory is the process's own.  Every system call may fail and every   *)
(* context may end, which is a fault.                                      *)
(***************************************************************************)
EXTENDS Integers

CONSTANTS
    Parts,       \* 1..n, the pieces in which a file is read
    Objects,     \* file objects the configured path may name
    MaxChanges,  \* changes by others, a bound of the model
    MaxFaults,   \* failing calls, a bound of the model
    None

VARIABLES
    path,      \* the object that the configured path names
    bytes,     \* for each object and part: is it what was expected
    lease,     \* ExecutableLease: the object that it holds open, or None
    op,        \* the call in progress: [at, next part, right so far, object, result]
    dir,       \* the private directory: [made, file], file: its parts or None
    snapshot,  \* MaterializedExecutable: [held, open]
    told,      \* history: a call said that it could not remove its directory
    changes, faults

vars == <<path, bytes, lease, op, dir, snapshot, told, changes, faults>>

IdleOp == [at |-> "idle", part |-> 1, right |-> TRUE, object |-> None]
NoFile == [made |-> FALSE, file |-> None]

Init ==
    /\ path \in Objects
    /\ bytes \in [Objects -> [Parts -> BOOLEAN]]
    /\ lease = None
    /\ op = IdleOp
    /\ dir = NoFile
    /\ snapshot = [held |-> FALSE, open |-> FALSE]
    /\ told = FALSE
    /\ changes = 0 /\ faults = 0

Fault == faults < MaxFaults /\ faults' = faults + 1
Fine == UNCHANGED faults
Returns(result) == op' = [IdleOp EXCEPT !.at = result]
Idle == op.at \in {"idle", "ok", "error"}

\* Other programs own the configured path and the objects behind it.
Change ==
    /\ changes < MaxChanges
    /\ changes' = changes + 1
    /\ \/ path' \in Objects \ {path} /\ UNCHANGED bytes
       \/ UNCHANGED path /\ \E o \in Objects, p \in Parts : bytes' = [bytes EXCEPT ![o][p] = ~@]
    /\ UNCHANGED <<lease, op, dir, snapshot, told, faults>>

(***************************************************************************)
(* The lease.                                                              *)
(***************************************************************************)
\* VerifyExecutable and Recheck open the path and hash what they opened;
\* Recheck also compares the object with the one that is leased.
Open(at) ==
    /\ Idle
    /\ at = "verify" => lease = None
    /\ at = "recheck" => lease # None
    /\ \/ Fault /\ Returns("error")
       \/ Fine /\ IF at = "recheck" /\ path # lease THEN Returns("error")
                  ELSE op' = [IdleOp EXCEPT !.at = at, !.object = path]
    /\ UNCHANGED <<path, bytes, lease, dir, snapshot, told, changes>>

Hash ==
    /\ op.at \in {"verify", "recheck"} /\ op.part \in Parts
    /\ \/ Fault /\ Returns("error")
       \/ Fine /\ op' = [op EXCEPT !.part = @ + 1, !.right = @ /\ bytes[op.object][op.part]]
    /\ UNCHANGED <<path, bytes, lease, dir, snapshot, told, changes>>

Hashed ==
    /\ op.at \in {"verify", "recheck"} /\ op.part \notin Parts
    /\ Returns(IF op.right THEN "ok" ELSE "error")
    /\ lease' = IF op.at = "verify" /\ op.right THEN op.object ELSE lease
    /\ UNCHANGED <<path, bytes, dir, snapshot, told, changes, faults>>

\* ExecutableLease.Close: the file is given up whether or not closing it fails.
CloseLease ==
    /\ Idle /\ lease # None
    /\ \/ Fault /\ Returns("error")
       \/ Fine /\ Returns("ok")
    /\ lease' = None
    /\ UNCHANGED <<path, bytes, dir, snapshot, told, changes>>

(***************************************************************************)
(* The snapshot.                                                           *)
(***************************************************************************)
\* cleanupMaterializedExecutable: what can be removed is; a directory that is
\* not empty stays.
Cleaned(files, directories) ==
    LET file == IF files THEN None ELSE dir.file
    IN [made |-> dir.made /\ ~(directories /\ file = None), file |-> file]

\* The failing of a removal is a fault.
Removal(files, directories) == IF files /\ directories THEN Fine ELSE Fault

\* materializeForLaunch: a directory, then an empty file in it.
Materialize ==
    /\ Idle /\ ~snapshot.held /\ ~dir.made
    /\ lease # None
    /\ \/ Fault /\ Returns("error") /\ UNCHANGED dir
       \/ /\ Fine /\ op' = [IdleOp EXCEPT !.at = "chmod", !.object = lease]
          /\ dir' = [made |-> TRUE, file |-> None]
    /\ UNCHANGED <<path, bytes, lease, snapshot, told, changes>>

OpenDestination ==
    /\ op.at = "chmod"
    /\ \/ Fault /\ op' = [op EXCEPT !.at = "discard"] /\ UNCHANGED dir
       \/ Fine /\ op' = [op EXCEPT !.at = "copy"] /\ dir' = [dir EXCEPT !.file = [p \in Parts |-> FALSE]]
    /\ UNCHANGED <<path, bytes, lease, snapshot, told, changes>>

\* The bytes come from the leased object, whatever the path names now.
Copy ==
    /\ op.at = "copy" /\ op.part \in Parts
    /\ \/ Fault /\ op' = [op EXCEPT !.at = "discard"] /\ UNCHANGED dir
       \/ Fine /\ op' = [op EXCEPT !.part = @ + 1] /\ dir' = [dir EXCEPT !.file[op.part] = bytes[op.object][op.part]]
    /\ UNCHANGED <<path, bytes, lease, snapshot, told, changes>>

\* Mutant of VerifyCopy: the copy is trusted as the leased object was.
VerifyCopyTrusted ==
    /\ op.at = "copy" /\ op.part \notin Parts
    /\ Fine /\ Returns("ok") /\ snapshot' = [held |-> TRUE, open |-> TRUE]
    /\ UNCHANGED <<path, bytes, lease, dir, told, changes>>
\* The writer is closed, and the copy is verified as the source was.
VerifyCopy ==
    /\ op.at = "copy" /\ op.part \notin Parts
    /\ \/ Fault /\ op' = [op EXCEPT !.at = "discard"] /\ UNCHANGED snapshot
       \/ Fine /\ IF \A p \in Parts : dir.file[p]
                  THEN Returns("ok") /\ snapshot' = [held |-> TRUE, open |-> TRUE]
                  ELSE op' = [op EXCEPT !.at = "discard"] /\ UNCHANGED snapshot
    /\ UNCHANGED <<path, bytes, lease, dir, told, changes>>

\* The deferred cleanup of a call that fails; its own failure is joined.
Discard ==
    /\ op.at = "discard"
    /\ \E files, directories \in BOOLEAN :
          /\ Removal(files, directories)
          /\ dir' = Cleaned(files, directories)
          /\ Returns("error")
          /\ told' = dir'.made
    /\ UNCHANGED <<path, bytes, lease, snapshot, changes>>

\* MaterializedExecutable.Close, once the child is contained: what failed is
\* kept for the next call.
Close ==
    /\ Idle /\ snapshot.held
    /\ \E closes, files, directories \in BOOLEAN :
          /\ snapshot.open \/ closes
          /\ IF closes THEN Removal(files, directories) ELSE Fault
          /\ dir' = Cleaned(files, directories)
          /\ IF closes /\ files /\ directories
             THEN snapshot' = [held |-> FALSE, open |-> FALSE] /\ Returns("ok")
             ELSE snapshot' = [snapshot EXCEPT !.open = FALSE] /\ Returns("error")
    /\ UNCHANGED <<path, bytes, lease, told, changes>>

Next ==
    \/ Change
    \/ Open("verify") \/ Open("recheck") \/ Hash \/ Hashed \/ CloseLease
    \/ Materialize \/ OpenDestination \/ Copy \/ VerifyCopy \/ Discard \/ Close

Spec == Init /\ [][Next]_vars

-----------------------------------------------------------------------------
\* A snapshot that is handed out holds the expected bytes, however its source
\* was replaced or rewritten while it was verified and copied; and the private
\* files are accounted for: a directory exists only while a call works on it,
\* while a snapshot that can be closed again holds it, or after a call that
\* told its caller that the cleanup failed.
SnapshotIsExact ==
    /\ snapshot.held /\ dir.file # None => \A p \in Parts : dir.file[p]
    /\ snapshot.open => dir.file # None
    /\ dir.made \/ dir.file # None => snapshot.held \/ told \/ op.at \in {"chmod", "copy", "discard"}
=============================================================================
