------------------------------- MODULE Status -------------------------------
(***************************************************************************)
(* The failed statuses of the engine protocol: what common/v1 accepts as a *)
(* well-formed status, and the typed error the gRPC client makes of one.   *)
(*                                                                         *)
(* Messages are safe text and are left out.  A detail is a record whose    *)
(* field "kind" says which member of the protobuf union it is.  Sequence   *)
(* numbers and epochs are unsigned and at most MaxUint, the largest value  *)
(* of their width.                                                         *)
(***************************************************************************)
EXTENDS Integers, FiniteSets

CONSTANTS MaxUint,   \* the largest sequence number or epoch: 2^64 - 1
          NoOp       \* the absent operation identity

NoDetail == [kind |-> "none"]

\* A failed status without, and with, its recovery detail.
Plain(code, retryable) == [code |-> code, retryable |-> retryable, op |-> NoOp, detail |-> NoDetail]
Detailed(code, retryable, detail) == [Plain(code, retryable) EXCEPT !.detail = detail]

Invalid == Plain("INVALID_ARGUMENT", FALSE)
Internal == Plain("INTERNAL", FALSE)
Unavailable == Plain("UNAVAILABLE", TRUE)
OK == Plain("OK", FALSE)

Overload(limit, observed, retryable) ==
    Detailed("RESOURCE_EXHAUSTED", retryable, [kind |-> "overload", limit |-> limit, observed |-> observed])
StaleClient(expected, observed) ==
    Detailed("STALE_CLIENT", FALSE, [kind |-> "stale", expected |-> expected, observed |-> observed])
CapabilityMismatch(required, available, missing) ==
    Detailed("MISSING_CAPABILITY", FALSE,
             [kind |-> "capabilities", required |-> required, available |-> available, missing |-> missing])
Uncertain(op) ==
    [Detailed("UNCERTAIN_OPERATION", FALSE, [kind |-> "uncertain", op |-> op]) EXCEPT !.op = op]

Generic == {"INVALID_ARGUMENT", "UNAUTHENTICATED", "NOT_FOUND", "UNAVAILABLE", "CANCELLED",
            "DEADLINE_EXCEEDED", "CONFLICT", "INTERNAL"}

(***************************************************************************)
(* Protocol versions, as <<major, minor, patch>>, and inclusive ranges.    *)
(***************************************************************************)
Less(a, b) == \E i \in 1..3 : a[i] < b[i] /\ \A j \in 1..(i - 1) : a[j] = b[j]
Later(a, b) == IF Less(a, b) THEN b ELSE a
Earlier(a, b) == IF Less(b, a) THEN b ELSE a

ValidRange(r) == r.min[1] > 0 /\ ~Less(r.max, r.min) /\ r.min[1] = r.max[1]

Overlap(a, b) ==
    LET low == Later(a.min, b.min)
        high == Earlier(a.max, b.max)
    IN  low[1] = high[1] /\ ~Less(high, low)

(***************************************************************************)
(* CheckReplayCursor: nothing to report when the cursor is inside the      *)
(* retained window, or at the end of an empty one; else where to restart.  *)
(***************************************************************************)
Holds(requested, earliest, latest) ==
    \/ earliest > 0 /\ latest < MaxUint /\ earliest = latest + 1 /\ requested = latest
    \/ earliest > 0 /\ latest >= earliest /\ requested # MaxUint /\ requested + 1 >= earliest /\ requested <= latest

CheckReplayCursor(requested, earliest, latest) ==
    IF Holds(requested, earliest, latest) THEN OK
    ELSE Detailed("OUT_OF_RANGE", FALSE,
                  [kind |-> "replay", requested |-> requested, earliest |-> earliest, latest |-> latest,
                   recovery |-> IF requested < earliest THEN earliest - 1 ELSE latest])

(***************************************************************************)
(* ValidateStatus: the codes that carry recovery data carry it, consistent,*)
(* and the others carry none.                                              *)
(***************************************************************************)
ValidVersionMismatch(d) == ValidRange(d.client) /\ ValidRange(d.server) /\ ~Overlap(d.client, d.server)
ValidCapabilityMismatch(d) == d.missing # {} /\ d.missing = d.required \ d.available
ValidReplay(d) ==
    /\ d.earliest > 0 /\ d.latest >= d.earliest
    /\ ~(d.requested # MaxUint /\ d.requested + 1 >= d.earliest /\ d.requested <= d.latest)
    /\ IF d.requested < d.earliest
       THEN (d.recovery + 1) % (MaxUint + 1) = d.earliest
       ELSE d.recovery = d.latest
ValidOverload(d) == d.limit > 0 /\ d.observed > d.limit
ValidStaleClient(d) == d.expected > 0 /\ d.expected # d.observed
ValidSnapshotMismatch(d) == d.expected # d.observed
ValidUncertain(d) == d.op # NoOp

ValidStatus(s) ==
    CASE s.code = "OK" -> ~s.retryable /\ s.op = NoOp /\ s.detail = NoDetail
      [] s.code = "INCOMPATIBLE_VERSION" -> s.detail.kind = "version" /\ ValidVersionMismatch(s.detail)
      [] s.code = "MISSING_CAPABILITY" -> s.detail.kind = "capabilities" /\ ValidCapabilityMismatch(s.detail)
      [] s.code = "OUT_OF_RANGE" -> s.detail.kind = "replay" /\ ValidReplay(s.detail)
      [] s.code = "RESOURCE_EXHAUSTED" -> s.detail.kind = "overload" /\ ValidOverload(s.detail)
      [] s.code = "STALE_CLIENT" -> s.detail.kind = "stale" /\ ValidStaleClient(s.detail)
      [] s.code = "SNAPSHOT_VERSION_MISMATCH" -> s.detail.kind = "snapshot" /\ ValidSnapshotMismatch(s.detail)
      [] s.code = "UNCERTAIN_OPERATION" -> s.detail.kind = "uncertain" /\ ValidUncertain(s.detail)
      [] OTHER -> s.code \in Generic /\ s.detail = NoDetail

(***************************************************************************)
(* statusToError: the typed error of a failed status that answers a call   *)
(* which expected what "e" holds: the run, cursor, operation and session   *)
(* epoch of the call (FALSE, NoCursor, NoOp, 0 when it has none).  A       *)
(* status that does not correlate with its call is a protocol error.       *)
(***************************************************************************)
NoCursor == -1
Call == [run |-> FALSE, after |-> NoCursor, op |-> NoOp, epoch |-> 0, readOnly |-> FALSE]

ProtocolError == [type |-> "protocol", code |-> "INTERNAL", detail |-> NoDetail]
Typed(s) == [type |-> IF s.code \in Generic THEN "status" ELSE s.detail.kind, code |-> s.code, detail |-> s.detail]

\* statusFacts.
Correlates(s, e) ==
    /\ e.readOnly => s.op = NoOp
    /\ e.op # NoOp /\ s.op # NoOp => s.op = e.op

\* The constructors of the client's errors check the facts by rules of their own.
NewCursorGapError(d) ==
    /\ d.earliest # 0 /\ d.latest >= d.earliest
    /\ \/ d.requested < d.earliest - 1 /\ d.recovery = d.earliest - 1
       \/ d.requested > d.latest /\ d.recovery = d.latest
NewStaleSessionError(d) == d.expected # 0 /\ d.expected # d.observed
NewVersionMismatchError(d) ==
    /\ ValidRange(d.client) /\ ValidRange(d.server)
    /\ ~(d.client.min[1] = d.server.min[1] /\ ~Less(Earlier(d.client.max, d.server.max), Later(d.client.min, d.server.min)))
NewCapabilityMismatchError(d) == d.missing # {} /\ d.missing = {c \in d.required : c \notin d.available}
NewOverloadError(d) == d.limit # 0 /\ d.observed > d.limit
NewSnapshotVersionMismatchError(d) == d.expected # d.observed
NewUncertainOperationError(d) == d.op # NoOp
NewStatusError(code) == code \in Generic

\* recoveryStatusError.
Recoverable(s, e) ==
    CASE s.code = "OUT_OF_RANGE" -> e.run /\ (e.after # NoCursor => s.detail.requested = e.after) /\ NewCursorGapError(s.detail)
      [] s.code = "STALE_CLIENT" -> (e.epoch # 0 => s.detail.observed = e.epoch) /\ NewStaleSessionError(s.detail)
      [] s.code = "UNCERTAIN_OPERATION" -> (e.op # NoOp => s.detail.op = e.op) /\ NewUncertainOperationError(s.detail)
      [] s.code = "INCOMPATIBLE_VERSION" -> NewVersionMismatchError(s.detail)
      [] s.code = "MISSING_CAPABILITY" -> NewCapabilityMismatchError(s.detail)
      [] s.code = "RESOURCE_EXHAUSTED" -> NewOverloadError(s.detail)
      [] s.code = "SNAPSHOT_VERSION_MISMATCH" -> NewSnapshotVersionMismatchError(s.detail)
      [] OTHER -> NewStatusError(s.code)

StatusToError(s, e) ==
    IF s.code # "OK" /\ ValidStatus(s) /\ Correlates(s, e) /\ Recoverable(s, e) THEN Typed(s) ELSE ProtocolError
=============================================================================
