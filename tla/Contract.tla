------------------------------ MODULE Contract ------------------------------
(***************************************************************************)
(* What an Initialize exchange agrees on.  The client library builds a     *)
(* request, the server negotiates it against its own version range,        *)
(* capabilities, limits, health and definitions, a session is granted only *)
(* once the negotiation exists, and the client checks the answer before it *)
(* makes a connection of it.                                               *)
(*                                                                         *)
(* Capabilities are sets of names, definitions and degraded reasons are    *)
(* counts, and an encoded message is its size: that is all the two sides   *)
(* compare.  A response weighs its definitions plus the client identity.   *)
(* Builds and texts are left out.  The grant itself, with its epochs and   *)
(* its replays, is the subject of module Negotiation.                      *)
(***************************************************************************)
EXTENDS Status, Sequences, FiniteSetsExt

CONSTANTS Wishes,     \* what callers ask: [range, attempt, supported, required, limits, claim, size]
          Servers,    \* what servers offer: [range, caps, limits, reasons, defs]
          Versions,   \* the versions the greatest common one is sought in
          MaxId,      \* the longest client identity, in units of size
          Bootstrap,  \* InitializeBootstrapMaximumBytes
          MaxInt      \* the largest int of the client's platform

VARIABLE x            \* the exchange

NoClaim == 0
Target == <<1, 3, 0>>
LegacyMaximum == <<1, 2, 0>>
Implemented == [min |-> <<1, 0, 0>>, max |-> <<1, 3, 0>>]
Snapshots == {"snapshots", "snapshot-authority-v1"}

Fields == {"message", "items", "events", "bytes", "streams", "runs"}
AtMost(a, b) == \A f \in Fields : a[f] <= b[f]

ValidLimits(l) == (\A f \in Fields : l[f] > 0) /\ l.events <= l.bytes
NegotiateLimits(requested, available) ==
    [f \in Fields |-> IF requested[f] < available[f] THEN requested[f] ELSE available[f]]
FitsPlatform(l) == \A f \in Fields : l[f] <= MaxInt

(***************************************************************************)
(* The client library: a request with an attempt identity speaks exactly   *)
(* the version that can replay it, one without stays below that version.   *)
(***************************************************************************)
LegacyProtocol(r) ==
    IF r.max[1] # Target[1] \/ Less(r.max, Target) THEN [ok |-> TRUE, range |-> r]
    ELSE [ok |-> ~Less(LegacyMaximum, r.min), range |-> [min |-> r.min, max |-> LegacyMaximum]]

AttemptProtocol(r) ==
    [ok |-> ~Less(Target, r.min) /\ ~Less(r.max, Target), range |-> [min |-> Target, max |-> Target]]

NewRequest(w) ==
    LET p == IF w.attempt THEN AttemptProtocol(w.range) ELSE LegacyProtocol(w.range)
    IN  [ok |-> /\ ValidRange(w.range) /\ p.ok /\ w.required \subseteq w.supported
                /\ ValidLimits(w.limits) /\ FitsPlatform(w.limits)
                /\ w.claim # NoClaim => w.claim < MaxUint,
         request |-> [w EXCEPT !.range = p.range]]

(***************************************************************************)
(* ValidateInitializeRequest.                                              *)
(***************************************************************************)
ValidAttempt(q) ==
    /\ ~(q.range.min[1] = 1 /\ q.range.min[2] < 3 /\ q.range.max[2] >= 3)
    /\ q.attempt <=> (q.range.min[1] = 1 /\ q.range.min[2] >= 3)

ValidRequest(q) ==
    /\ ValidRange(q.range) /\ ValidAttempt(q)
    /\ q.required \subseteq q.supported
    /\ ValidLimits(q.limits)
    /\ q.claim # NoClaim => q.claim < MaxUint
    /\ q.size <= Bootstrap

ValidDefinitions(d, l) == d.count \in 1..l.items /\ d.size <= l.message
ValidServer(s) == ValidRange(s.range) /\ ValidLimits(s.limits) /\ ValidDefinitions(s.defs, s.limits)

SnapshotCapabilities(version, caps) ==
    IF version[1] = 1 /\ version[2] >= 1 THEN caps ELSE caps \ Snapshots

Answer(n, id, client, epoch) ==
    [status |-> OK, version |-> n.version, caps |-> n.caps, limits |-> n.limits, capacity |-> n.capacity,
     reasons |-> n.reasons, defs |-> n.defs, attempt |-> n.attempt, client |-> client, epoch |-> epoch,
     size |-> n.defs.size + id]

Failure(s) == [status |-> s]

(***************************************************************************)
(* ValidateInitializeResponse, and what a client requires beyond it.       *)
(***************************************************************************)
Selected(v, r) == Overlap([min |-> v, max |-> v], r)

\* From minor 2 on a snapshot of the interactions must fit one message.
ServerSized(version, l, capacity) ==
    version[2] >= 2 => l.message = capacity.message /\ l.items = capacity.items

ValidResponse(r) ==
    /\ Selected(r.version, Implemented)
    /\ r.attempt <=> (r.version[1] = 1 /\ r.version[2] >= 3)
    /\ r.version[2] >= 1 \/ r.caps \cap Snapshots = {}
    /\ ValidLimits(r.limits)
    /\ Cardinality(r.caps) <= r.limits.items /\ r.reasons <= r.limits.items
    /\ ServerSized(r.version, r.limits, r.capacity)
    /\ r.epoch > 0
    /\ ValidDefinitions(r.defs, r.limits)
    /\ r.size <= r.limits.message

ReconnectResult(claim, client, claimed, epoch) ==
    IF claim = NoClaim THEN epoch = 1 ELSE client = claimed /\ epoch = claim + 1

ValidForRequest(q, r) ==
    /\ ValidRequest(q) /\ ValidResponse(r)
    /\ Selected(r.version, q.range)
    /\ r.caps \subseteq q.supported /\ q.required \subseteq r.caps
    /\ AtMost(r.limits, q.limits) /\ q.size <= r.limits.message /\ AtMost(r.limits, r.capacity)
    /\ q.attempt <=> r.attempt
    /\ ReconnectResult(q.claim, r.client, "claimed", r.epoch)

\* connectionFromWire, NewHealth and NewCatalog look at the same facts again.
Connectable(r) ==
    /\ FitsPlatform(r.limits) /\ FitsPlatform(r.capacity)
    /\ r.defs.count \in 1..r.limits.items /\ r.epoch > 0

(***************************************************************************)
(* PreflightInitialize: the first check that fails answers the request.    *)
(***************************************************************************)
FirstFailure(checks) ==
    LET bad == {i \in DOMAIN checks : ~checks[i].ok}
    IN  IF bad = {} THEN OK ELSE checks[Min(bad)].status

\* Mutant of Previewed: the answer is weighed with the shortest identity.
PreviewedShort(n) == Answer(n, 1, "claimed", MaxUint)
Previewed(n) == Answer(n, MaxId, "claimed", MaxUint)

RequestedLimits(version, requested, available) ==
    version[2] >= 2 => requested.message >= available.message /\ requested.items >= available.items

NegotiateProtocol(client, server) == Earlier(client.max, server.max)

Negotiated(q, s) ==
    LET version == NegotiateProtocol(q.range, s.range)
    IN  [version |-> version, attempt |-> q.attempt, limits |-> NegotiateLimits(q.limits, s.limits),
         caps |-> q.supported \cap SnapshotCapabilities(version, s.caps),
         capacity |-> s.limits, reasons |-> s.reasons, defs |-> s.defs]

Preflight(q, s) ==
    LET n == Negotiated(q, s)
        offered == SnapshotCapabilities(n.version, s.caps)
        Check(ok, status) == [ok |-> ok, status |-> status]
    IN  FirstFailure(<<
            Check(ValidRequest(q), Invalid),
            Check(ValidServer(s), Internal),
            Check(Overlap(q.range, s.range),
                  Detailed("INCOMPATIBLE_VERSION", FALSE,
                           [kind |-> "version", client |-> q.range, server |-> s.range])),
            Check(Selected(n.version, Implemented), Internal),
            Check(RequestedLimits(n.version, q.limits, s.limits), Invalid),
            Check(q.size <= n.limits.message, Invalid),
            Check(q.required \subseteq offered,
                  CapabilityMismatch(q.required, offered, q.required \ offered)),
            Check(Cardinality(n.caps) <= n.limits.items, Invalid),
            Check(n.reasons <= n.limits.items, Invalid),
            Check(ValidDefinitions(n.defs, n.limits), Invalid),
            Check(Previewed(n).size <= n.limits.message, Invalid),
            Check(ValidResponse(Previewed(n)), Internal) >>)

(***************************************************************************)
(* CompleteInitialize.                                                     *)
(***************************************************************************)
Complete(q, n, id, client, epoch) ==
    LET r == Answer(n, id, client, epoch)
    IN  IF ReconnectResult(q.claim, client, "claimed", epoch) /\ r.size <= n.limits.message
        THEN r ELSE Failure(Internal)

(***************************************************************************)
(* The exchange.                                                           *)
(***************************************************************************)
Init == x \in [stage: {"new"}, wish: Wishes, server: Servers]

\* NewInitializeRequest and its siblings, initializeRequestToWire.
Ask ==
    /\ x.stage = "new"
    /\ LET b == NewRequest(x.wish)
       IN  x' = IF b.ok THEN [stage |-> "asked", wish |-> x.wish, server |-> x.server, request |-> b.request]
                ELSE [x EXCEPT !.stage = "refused"]

With(stage, response, granted) ==
    [stage |-> stage, wish |-> x.wish, server |-> x.server, request |-> x.request,
     response |-> response, granted |-> granted]

Negotiate ==
    /\ x.stage = "asked"
    /\ LET s == Preflight(x.request, x.server)
       IN  x' = IF s = OK THEN [x EXCEPT !.stage = "negotiated"] ELSE With("answered", Failure(s), FALSE)

\* The store grants a fresh identity, or the claimed one at its next epoch.
Grant(id) ==
    /\ x.stage = "negotiated"
    /\ LET fresh == x.request.claim = NoClaim
           n == Negotiated(x.request, x.server)
           r == Complete(x.request, n, id, IF fresh THEN "fresh" ELSE "claimed",
                         IF fresh THEN 1 ELSE x.request.claim + 1)
       IN  x' = With("answered", r, TRUE)

\* sessionFailureStatus: what a registry or store that refuses is told as.
SessionFailures(q) ==
    {Plain("CONFLICT", FALSE), Overload(1, 2, FALSE), Unavailable}
        \cup {StaleClient(current, q.claim) : current \in (1..MaxUint) \ {q.claim}}

Refuse ==
    /\ x.stage = "negotiated"
    /\ \E s \in SessionFailures(x.request) :
          /\ s.code = "STALE_CLIENT" => x.request.claim # NoClaim
          /\ x' = With("answered", Failure(s), FALSE)

\* The client's Initialize, from the response on.
Judge(q, r) ==
    IF r.status # OK THEN StatusToError(r.status, Call)
    ELSE IF ValidForRequest(q, r) /\ Connectable(r) THEN [type |-> "connected"] ELSE ProtocolError

Receive ==
    /\ x.stage = "answered"
    /\ x' = [stage |-> "done", wish |-> x.wish, server |-> x.server, request |-> x.request,
             response |-> x.response, granted |-> x.granted, verdict |-> Judge(x.request, x.response)]

Finished == x.stage \in {"refused", "done"} /\ UNCHANGED x

Next == Ask \/ Negotiate \/ (\E id \in 1..MaxId : Grant(id)) \/ Refuse \/ Receive \/ Finished

Spec == Init /\ [][Next]_x

-----------------------------------------------------------------------------
\* A session that was granted is one the client can use: once the store has
\* changed, neither CompleteInitialize nor any check of the client can fail, so
\* no ownership is left behind that its client does not know of; and every
\* failure reaches the client as a typed error, never as a protocol violation,
\* and as an internal one only if the server's own configuration is at fault.
GrantsAreUsable ==
    x.stage = "done" =>
        /\ x.granted => x.verdict.type = "connected"
        /\ x.verdict.type # "protocol"
        /\ ValidServer(x.server) => x.response.status # Internal

\* What a connection agrees on is what both sides can do: the greatest version
\* that both ranges hold and that the library may speak with or without an
\* attempt, the capabilities of both (none of the snapshot ones below minor 1),
\* and no limit above either side's.
InRange(v, r) == ~Less(v, r.min) /\ ~Less(r.max, v)
AgreementIsMutual ==
    x.stage = "done" /\ x.verdict.type = "connected" =>
        LET v == x.response.version
            common == {u \in Versions : /\ InRange(u, x.wish.range) /\ InRange(u, x.server.range)
                                        /\ x.wish.attempt <=> ~Less(u, Target)}
        IN  /\ v \in common /\ \A u \in common : ~Less(v, u)
            /\ x.response.caps = {c \in x.wish.supported \cap x.server.caps : c \in Snapshots => v[2] >= 1}
            /\ x.wish.required \subseteq x.response.caps
            /\ AtMost(x.response.limits, x.wish.limits) /\ AtMost(x.response.limits, x.server.limits)
=============================================================================
