----------------------------- MODULE EngineCall -----------------------------
(***************************************************************************)
(* One lifecycle call of a client session to the daemon and back: the      *)
(* checks of the client, a transport that may fail before or after the     *)
(* daemon acted, the handler, the translation of the run host's answer to  *)
(* a status and of that status to the error the caller sees.               *)
(*                                                                         *)
(* The run host (module RunHost) is what the handlers use of it: it acts   *)
(* for the current ownership epoch only, once per operation identity, or   *)
(* it refuses.  The owner of a client may advance at any moment            *)
(* (module Negotiation).  A request has a size; an answer has the outcome  *)
(* flags and the sequence number that both sides check.  The rest of their *)
(* contents is left out.                                                   *)
(***************************************************************************)
EXTENDS Status

CONSTANTS Calls,        \* the calls made, each one RPC
          Ops,          \* operation identities; a retry reuses one
          MaxEpoch,     \* the last ownership epoch explored
          Items         \* the negotiated limit of a collection

VARIABLES daemon,       \* the epochs of store and registry, what was negotiated, what is stopping
          call,         \* the calls
          applied       \* the operations the run host has carried out

vars == <<daemon, call, applied>>

Snapshots == {"snapshots", "snapshot-authority-v1"}
ReadOnly == {"export", "health"}
Mutations == {"start", "cancel", "respond", "suspend", "resume", "import"}
Kinds == ReadOnly \cup Mutations

Sizes == 1..3           \* of encoded requests
Limit == 1              \* the negotiated limit
ServerLimit == 2        \* the limit of the server

\* What the handlers and the session check of a request.
ValidRequest(r, limit) == r.size <= limit /\ r.epoch > 0 /\ (r.kind \in Mutations => r.op # NoOp)

Answers == [yes : BOOLEAN, already : BOOLEAN, seq : {0, 1, MaxUint}]
NoAnswer == [yes |-> FALSE, already |-> FALSE, seq |-> 0]

\* The results the client library can express; the run host answers with them.
NewResult(kind, a) ==
    CASE kind \in {"start", "import"} -> a.yes /\ ~a.already /\ a.seq # 0
      [] kind = "cancel" -> a.yes # a.already /\ a.already = (a.seq > 0)
      [] kind \in {"suspend", "resume"} -> a.yes /\ ~a.already /\ a.seq # 0
      [] kind = "respond" -> (a.yes \/ a.already) /\ a.seq = 0
      [] OTHER -> a = NoAnswer

\* The answers the protocol accepts as successful ones.
ValidAnswer(kind, a) ==
    CASE kind = "start" -> a.seq = 1
      [] kind = "cancel" -> a.yes # a.already /\ (a.already => a.seq # 0) /\ (a.yes => a.seq = 0)
      [] kind \in {"suspend", "resume"} -> a.yes /\ a.seq \notin {0, MaxUint}
      [] kind = "import" -> a.seq \notin {0, MaxUint}
      [] kind = "respond" -> a.yes
      [] OTHER -> TRUE

NoReply == [code |-> "none", status |-> OK, answer |-> NoAnswer]
NoOut == [type |-> "none", code |-> "none", detail |-> NoDetail]
Idle == [at |-> "idle", kind |-> "none", op |-> NoOp, epoch |-> 0, size |-> 1, live |-> TRUE, found |-> FALSE,
         reply |-> NoReply, effect |-> FALSE, out |-> NoOut]

Set(c, r) == call' = [call EXCEPT ![c] = r]
Waiting(c) == call[c].at # "idle" /\ call[c].out = NoOut

(***************************************************************************)
(* The client session.                                                     *)
(***************************************************************************)
Out(type) == [type |-> type, code |-> "none", detail |-> NoDetail]

\* What a call expects of the status that answers it.
Expected(r) ==
    [run |-> r.kind \in {"cancel", "respond", "suspend", "resume", "export"}, after |-> NoCursor,
     op |-> r.op, epoch |-> IF r.kind = "start" THEN 0 ELSE r.epoch, readOnly |-> r.kind \in ReadOnly]

\* A request that does not fit, and one of a closed session, is never sent.
Begin(c) ==
    /\ call[c] = Idle
    /\ \E kind \in Kinds, op \in Ops, e \in 1..daemon.owner, size \in Sizes, open \in BOOLEAN :
          LET r == [Idle EXCEPT !.kind = kind, !.op = IF kind \in ReadOnly THEN NoOp ELSE op, !.epoch = e, !.size = size]
              Unsent(type) == [r EXCEPT !.size = 1, !.at = "over", !.out = Out(type)]
          IN  Set(c, IF ~open THEN Unsent("closed")
                     ELSE IF ~ValidRequest(r, Limit) THEN Unsent("protocol") ELSE [r EXCEPT !.at = "sent"])
    /\ UNCHANGED <<daemon, applied>>

\* The caller has its answer, and the handler has ended: another call may be made.
Return(c) ==
    /\ call[c].out # NoOut /\ call[c].at \in {"over", "replied"}
    /\ Set(c, Idle)
    /\ UNCHANGED <<daemon, applied>>

\* The caller's context ends; the transport tells the handler.
Cancel(c) ==
    /\ Waiting(c) /\ call[c].live
    /\ Set(c, [call[c] EXCEPT !.live = FALSE])
    /\ UNCHANGED <<daemon, applied>>

Definitely == {"Unauthenticated", "PermissionDenied"}
Rejections == {"InvalidArgument", "FailedPrecondition", "NotFound", "AlreadyExists"}

TransportError(r, code) ==
    CASE ~r.live -> Out("context")
      [] r.live -> [type |-> "status", code |-> code, detail |-> NoDetail]

\* Mutant of MutationTransportError: an ended context is reported as itself.
MutationTransportErrorContext(r, code) ==
    IF ~r.live \/ code \in Definitely \cup Rejections THEN TransportError(r, code)
    ELSE [type |-> "uncertain", code |-> "UNCERTAIN_OPERATION", detail |-> [kind |-> "uncertain", op |-> r.op]]
MutationTransportError(r, code) ==
    IF code \in Definitely \/ (r.live /\ code \in Rejections) THEN TransportError(r, code)
    ELSE [type |-> "uncertain", code |-> "UNCERTAIN_OPERATION", detail |-> [kind |-> "uncertain", op |-> r.op]]

Failed(r, code) ==
    IF r.kind \in Mutations THEN MutationTransportError(r, code) ELSE TransportError(r, code)

\* validateStatusCollections, and what else a failed response is checked for.
ResponseError(r) ==
    LET s == r.reply.status
    IN  IF ValidStatus(s) /\ (s.detail.kind = "capabilities" => Cardinality(s.detail.required) <= Items)
        THEN StatusToError(s, Expected(r)) ELSE ProtocolError

\* The answer arrives.
Receive(c) ==
    /\ Waiting(c) /\ call[c].at = "replied"
    /\ LET r == call[c]
       IN  Set(c, [r EXCEPT !.at = "over",
                            !.out = IF r.reply.code # "OK" THEN Failed(r, r.reply.code)
                                    ELSE IF r.reply.status = OK
                                    THEN Out(IF ValidAnswer(r.kind, r.reply.answer) /\ NewResult(r.kind, r.reply.answer)
                                             THEN "ok" ELSE "protocol")
                                    ELSE ResponseError(r)])
    /\ UNCHANGED <<daemon, applied>>

\* External: gRPC fails the call.  One that never reached a handler may fail
\* with any code; afterwards the code says nothing of what the handler did.
Lost(c) ==
    /\ Waiting(c)
    /\ \/ /\ call[c].at = "sent"
          /\ \E code \in Definitely \cup Rejections \cup {"Unavailable", "Internal"} :
                Set(c, [call[c] EXCEPT !.at = "over", !.out = Failed(call[c], code)])
       \/ /\ call[c].at # "sent"
          /\ \E code \in {"Unavailable", "ResourceExhausted", "Internal"} :
                Set(c, [call[c] EXCEPT !.out = Failed(call[c], code)])
       \/ /\ ~call[c].live
          /\ Set(c, [call[c] EXCEPT !.out = Failed(call[c], "Canceled")])
    /\ UNCHANGED <<daemon, applied>>

(***************************************************************************)
(* The handler.                                                            *)
(***************************************************************************)
Reply(c, r, code, status) ==
    Set(c, [r EXCEPT !.at = "replied", !.reply = [code |-> code, status |-> status, answer |-> NoAnswer]])

\* An answer that the protocol does not accept is an internal failure.
Succeed(c, r, a) ==
    IF ValidAnswer(r.kind, a)
    THEN Set(c, [r EXCEPT !.at = "replied", !.reply = [code |-> "OK", status |-> OK, answer |-> a]])
    ELSE Reply(c, r, "OK", Internal)

\* requireAuthenticated, the request checks and the registry lookup.
Arrive(c) ==
    /\ call[c].at = "sent"
    /\ IF daemon.stopping THEN Reply(c, call[c], "Unavailable", OK)
       ELSE IF ~ValidRequest(call[c], ServerLimit) THEN Reply(c, call[c], "OK", Invalid)
       ELSE Set(c, [call[c] EXCEPT !.at = "check", !.found = daemon.entry = call[c].epoch])
    /\ UNCHANGED <<daemon, applied>>

\* snapshotCapabilityStatus.
TransferStatus == CapabilityMismatch(Snapshots, {}, Snapshots)

\* lifecycleSession: the store is asked either way; sessionFailureStatus.
Check(c) ==
    /\ call[c].at = "check"
    /\ LET r == call[c]
       IN  IF daemon.closed THEN Reply(c, r, "OK", Unavailable)
           ELSE IF daemon.owner # r.epoch THEN Reply(c, r, "OK", StaleClient(daemon.owner, r.epoch))
           ELSE IF ~r.found THEN Reply(c, r, "OK", Unavailable)
           ELSE IF ~ValidRequest(r, Limit) THEN Reply(c, r, "OK", Invalid)
           ELSE IF r.kind \in {"export", "import"} /\ ~daemon.transfers THEN Reply(c, r, "OK", TransferStatus)
           ELSE Set(c, [r EXCEPT !.at = "host"])
    /\ UNCHANGED <<daemon, applied>>

\* lifecycleStatusWithoutOperation, for what the run host may answer.
HostStatus(err, r) ==
    CASE err = "stale" -> StaleClient(daemon.owner, r.epoch)
      [] err = "capacity" -> Overload(1, 2, TRUE)
      [] err = "run" -> Plain("NOT_FOUND", FALSE)
      [] err = "closed" -> Unavailable
      [] err = "state" -> Plain("CONFLICT", FALSE)
      [] OTHER -> Internal

\* The operation is named in every answer; an uncertain outcome prevails.
LifecycleFailureStatus(err, r) ==
    LET s == IF err = "uncertain" THEN Uncertain(r.op) ELSE [HostStatus(err, r) EXCEPT !.op = r.op]
    IN  IF ValidStatus(s) THEN s ELSE Internal

\* A failure of a call whose context has ended is a transport failure.
Refuse(c, r, err) ==
    IF r.live THEN Reply(c, r, "OK", LifecycleFailureStatus(err, r)) ELSE Reply(c, r, "Canceled", OK)

\* The run host acts, or not.
Host(c) ==
    /\ call[c].at = "host"
    /\ LET r == call[c]
           Effect == IF r.op \in Ops THEN applied' = applied \cup {r.op} ELSE UNCHANGED applied
       IN  \/ /\ daemon.owner = r.epoch /\ ~daemon.closed
              /\ Effect
              /\ \E a \in Answers : NewResult(r.kind, a) /\ Succeed(c, [r EXCEPT !.effect = r.op \notin applied], a)
           \/ /\ daemon.owner = r.epoch /\ ~daemon.closed
              /\ \/ Effect /\ Refuse(c, [r EXCEPT !.effect = r.op \notin applied], "uncertain")
                 \/ UNCHANGED applied /\ Refuse(c, r, "uncertain")
           \/ /\ \E err \in {"capacity", "run", "closed", "state", "other"} : Refuse(c, r, err)
              /\ UNCHANGED applied
           \/ daemon.owner # r.epoch /\ Refuse(c, r, "stale") /\ UNCHANGED applied
    /\ UNCHANGED daemon

(***************************************************************************)
(* The surroundings: reconnects and the two ways the daemon winds down.    *)
(***************************************************************************)
Advance ==
    /\ daemon.owner < MaxEpoch /\ ~daemon.closed
    /\ daemon' = [daemon EXCEPT !.owner = @ + 1]
    /\ UNCHANGED <<call, applied>>

Install ==
    /\ daemon.entry # daemon.owner
    /\ daemon' = [daemon EXCEPT !.entry = daemon.owner]
    /\ UNCHANGED <<call, applied>>

Stop ==
    /\ \/ ~daemon.stopping /\ daemon' = [daemon EXCEPT !.stopping = TRUE]
       \/ daemon.stopping /\ ~daemon.closed /\ daemon' = [daemon EXCEPT !.closed = TRUE]
    /\ UNCHANGED <<call, applied>>

Init ==
    /\ daemon \in [owner : {1}, entry : {1}, transfers : BOOLEAN, stopping : {FALSE}, closed : {FALSE}]
    /\ call = [c \in Calls |-> Idle]
    /\ applied = {}

Next ==
    \/ \E c \in Calls : Begin(c) \/ Return(c) \/ Cancel(c) \/ Receive(c) \/ Lost(c) \/ Arrive(c) \/ Check(c) \/ Host(c)
    \/ Advance \/ Install \/ Stop

Spec == Init /\ [][Next]_vars

-----------------------------------------------------------------------------
\* A definite failure: the caller may try again with a new operation.
Definite(o) ==
    \/ o.type \in {"stale", "overload", "capabilities", "closed", "context"}
    \/ o.type = "status" /\ o.code \notin {"INTERNAL", "Internal"}

\* What a caller is told of a mutation is true, whatever was lost on the way and
\* whatever the handler does after the caller has gone: a definite failure means
\* that this call had no effect, nor will have, and success means that the
\* operation took effect.
CallersAreToldTrue ==
    \A c \in Calls : call[c].kind \in Mutations =>
        /\ Definite(call[c].out) => ~call[c].effect
        /\ call[c].out.type = "ok" => call[c].op \in applied

\* Between a client and a daemon of this code no answer is taken for a protocol
\* violation, no request that was sent is refused as invalid, and a stale session is told an epoch later than its own that its
\* client did reach, so that a reconnect from it can succeed.
StatusesAreUnderstood ==
    \A c \in Calls :
        /\ call[c].at = "over" /\ call[c].reply # NoReply => call[c].out.type # "protocol" /\ call[c].reply.status # Invalid
        /\ call[c].out.type = "stale" =>
              call[c].out.detail.expected \in (call[c].epoch + 1)..daemon.owner
=============================================================================
