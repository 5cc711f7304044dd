--------------------------- MODULE PluginContract ---------------------------
(***************************************************************************)
(* What the host and a runtime plugin say to each other (plugin/v1): the   *)
(* bootstrap record on the plugin's stdin, the authenticated Initialize    *)
(* exchange, the stream of one call and the lifecycle requests.  The       *)
(* plugin is internal/pluginfixture up to its answer to Initialize; what   *)
(* it streams afterwards is any frame, for a plugin is another program.    *)
(*                                                                         *)
(* A name is a number, ordered as the strings are, a text or JSON value is *)
(* its length, 0 stands for a malformed one, an identity of the wrong size *)
(* is None.  A message field that is not set is None as well.  A keyed     *)
(* digest is the pair of the secret and what it covers.  A record may be   *)
(* cut short on its way and a message may arrive damaged.                  *)
(* Admission, timeouts and containment are the subject of PluginLink.      *)
(***************************************************************************)
EXTENDS Status, Sequences, SequencesExt, TLC

CONSTANTS
    Executables,       \* configurations of the host: [id, limits, capabilities, name, version, timeout]
    Plugins,           \* what the plugin was built with: [limits, definitions, name, version]
    Addresses,         \* lengths of endpoint addresses
    Frames,            \* what the plugin may stream: [call, sequence, kind, size, state, retry, text]
    Arguments,         \* lengths of call arguments
    BootstrapMaximum,  \* BootstrapMaximumBytes
    MaxMessage,        \* InitializeBootstrapMaximumBytes
    MaxTools,          \* maximumToolCount
    MaxCalls,          \* maximumConcurrentCalls
    MaxPayload,        \* tool.MaximumPayloadBytes
    MaxProgress,       \* tool.MaximumProgressBytes
    MaxToken,          \* maximumTokenBytes
    MaxTimeout,        \* MaximumOperationTimeout
    MaxFrames,         \* frames the host reads of one call, a bound of the model
    None

VARIABLES
    host,    \* the launch: [at, exe, address, request, limits, session, catalog, verdict]
    plug,    \* the service: [at, built, secret, asked, answer, limits, session, initialized]
    wire,    \* the message on its way to the host or to the plugin
    val      \* the StreamValidator of the call

vars == <<host, plug, wire, val>>

Secret == "secret"
LaunchID == "launch"
Challenge == "challenge"
SessionID == "session"
CallID == "call"
RuntimeTools == "runtime-tools-v1"

(***************************************************************************)
(* Texts, limits and versions.                                             *)
(***************************************************************************)
\* token, boundedText and boundedJSON.
Token(length, maximum) == length \in 1..maximum

LimitFields == {"message", "tools", "schema", "arguments", "result", "progress", "calls"}
AtMost(a, b) == \A f \in LimitFields : a[f] <= b[f]

ValidateLimits(l) ==
    /\ l # None
    /\ \A f \in LimitFields : l[f] > 0
    /\ l.tools <= MaxTools /\ l.calls <= MaxCalls /\ l.message <= MaxMessage
    /\ \A f \in {"schema", "arguments", "result", "progress"} : l[f] <= l.message
    /\ \A f \in {"schema", "arguments", "result"} : l[f] <= MaxPayload
    /\ l.progress <= MaxProgress

NegotiateLimits(requested, available) ==
    [f \in LimitFields |-> IF requested[f] < available[f] THEN requested[f] ELSE available[f]]

SupportedProtocolRange == [min |-> <<1, 0, 0>>, max |-> <<1, 0, 0>>]
SupportedProtocol(v) ==
    /\ v # None /\ v[1] = 1 /\ v[2] \in SupportedProtocolRange.min[2]..SupportedProtocolRange.max[2] /\ v[3] = 0
ProtocolSelectedFrom(r, v) == ValidRange(r) /\ ~Less(v, r.min) /\ ~Less(r.max, v) /\ SupportedProtocol(v)

CapabilityRequest(supported, required) ==
    /\ RuntimeTools \in supported /\ RuntimeTools \in required
    /\ required \subseteq supported
CapabilitiesSelectedFrom(supported, required, selected) == selected \subseteq supported /\ required \subseteq selected

LimitsSelectedFrom(requested, selected) ==
    ValidateLimits(requested) /\ ValidateLimits(selected) /\ AtMost(selected, requested)

(***************************************************************************)
(* Tool definitions, manifests and catalogs.  A read-only tool replays     *)
(* safely and declares no capability that mutates, a mutating one does not *)
(* replay safely.                                                          *)
(***************************************************************************)
Capabilities == {"filesystem.read", "filesystem.write", "process.execute", "network.access",
                 "secrets.read", "environment.read", "environment.write"}
Mutating == {"filesystem.write", "process.execute", "environment.write"}
Effects == {"read_only", "mutating"}
Replays == {"safe", "idempotent", "unsafe"}

NewDefinition(d) ==
    /\ Token(d.name, MaxToken) /\ Token(d.description, MaxProgress) /\ Token(d.schema, MaxPayload)
    /\ d.effect \in Effects /\ d.replay \in Replays
    /\ (d.effect = "read_only") <=> (d.replay = "safe")
    /\ d.capabilities \subseteq Capabilities
    /\ d.effect = "read_only" => d.capabilities \cap Mutating = {}

DecodeToolDefinition(t, l) ==
    /\ Token(t.name, MaxToken) /\ Token(t.description, MaxProgress) /\ Token(t.schema, l.schema)
    /\ t.effect \in Effects /\ t.replay \in Replays /\ t.capabilities \subseteq Capabilities
    /\ NewDefinition(t)

ManifestSize(m) == FoldSeq(LAMBDA t, n : n + t.schema, 1, m.tools)

DecodeManifest(m, l) ==
    /\ m # None /\ ValidateLimits(l)
    /\ Token(m.name, MaxToken) /\ Token(m.version, MaxToken)
    /\ Len(m.tools) \in 1..l.tools
    /\ \A i \in DOMAIN m.tools : DecodeToolDefinition(m.tools[i], l)
    /\ \A i \in 2..Len(m.tools) : m.tools[i - 1].name < m.tools[i].name
    /\ ManifestSize(m) <= l.message

Manifest(name, version, definitions) ==
    [name |-> name, version |-> version, tools |-> SortSeq(definitions, LAMBDA a, b : a.name < b.name)]

NewCatalog(name, version, definitions, l) ==
    /\ \A i \in DOMAIN definitions : NewDefinition(definitions[i])
    /\ DecodeManifest(Manifest(name, version, definitions), l)

(***************************************************************************)
(* The transcript that the proof of an answer covers: every field of the   *)
(* request and of the response but the proof, and the fields that this     *)
(* version of the protocol does not know.                                  *)
(***************************************************************************)
CanonicalMessage(name, fields, unknown) == <<name>> \o fields \o <<unknown>>

CanonicalRange(r) == <<"ProtocolRange", r.min, r.max>>
CanonicalLimits(l) ==
    IF l = None THEN None
    ELSE <<"Limits", l.message, l.tools, l.schema, l.arguments, l.result, l.progress, l.calls>>
CanonicalToolDefinition(t) ==
    <<"ToolDefinition", t.name, t.description, t.schema, t.effect, t.replay, t.capabilities>>
CanonicalManifest(m) ==
    IF m = None THEN None
    ELSE <<"Manifest", m.name, m.version, [i \in DOMAIN m.tools |-> CanonicalToolDefinition(m.tools[i])]>>
CanonicalStatusDetail(d) ==
    IF d = NoDetail THEN None ELSE <<d.kind, [f \in DOMAIN d \ {"kind"} |-> d[f]]>>
CanonicalStatus(s) == <<"Status", s.code, s.retryable, s.op, CanonicalStatusDetail(s.detail)>>

CanonicalRequest(q) ==
    CanonicalMessage("InitializeRequest",
        <<CanonicalRange(q.protocol), q.host, q.supported, q.required, CanonicalLimits(q.limits), q.launch, q.challenge>>,
        q.unknown)

\* Mutant of CanonicalResponse: the session identity is left out of the transcript.
CanonicalResponseShort(r) ==
    CanonicalMessage("InitializeResponse",
        <<CanonicalStatus(r.status), r.protocol, r.plugin, r.capabilities, CanonicalLimits(r.limits),
          CanonicalManifest(r.manifest), r.launch, r.challenge, None>>,
        r.unknown)
CanonicalResponse(r) ==
    CanonicalMessage("InitializeResponse",
        <<CanonicalStatus(r.status), r.protocol, r.plugin, r.capabilities, CanonicalLimits(r.limits),
          CanonicalManifest(r.manifest), r.launch, r.session, r.challenge, None>>,
        r.unknown)

\* Unknown fields that cannot be read leave no transcript, and so no proof.
Transcribed(q, r) == q.unknown # None /\ r.unknown # None
Transcript(q, r) == <<CanonicalRequest(q), CanonicalResponse(r)>>

InitializeProof(q, r, secret) == <<secret, Transcript(q, r)>>
SignInitializeResponse(q, r, secret) == [r EXCEPT !.proof = InitializeProof(q, r, secret)]

(***************************************************************************)
(* Validation of the Initialize messages.                                  *)
(***************************************************************************)
ValidateInitializeRequest(q) ==
    /\ ValidRange(q.protocol) /\ Token(q.host, MaxToken)
    /\ CapabilityRequest(q.supported, q.required)
    /\ ValidateLimits(q.limits)
    /\ q.launch # None /\ q.challenge # None

Answered(r) == [protocol |-> r.protocol, capabilities |-> r.capabilities, limits |-> r.limits,
                manifest |-> r.manifest, session |-> r.session]
NothingAnswered == [protocol |-> None, capabilities |-> None, limits |-> None, manifest |-> None, session |-> None]

ResponseSize(r) == 1 + (IF r.manifest = None THEN 0 ELSE ManifestSize(r.manifest)) + Len(r.unknown)

ValidateInitializeResponse(r) ==
    /\ ValidStatus(r.status) /\ Token(r.plugin, MaxToken)
    /\ r.launch # None /\ r.challenge # None /\ r.proof # None
    /\ IF r.status.code # "OK" THEN Answered(r) = NothingAnswered
       ELSE /\ SupportedProtocol(r.protocol) /\ r.capabilities # None
            /\ ValidateLimits(r.limits) /\ r.session # None
            /\ DecodeManifest(r.manifest, r.limits)
            /\ ResponseSize(r) <= r.limits.message

\* What the answer to "q" is for the host: accepted, the failure the plugin
\* reports, or not an answer.
ValidateInitializeResponseForRequest(q, r, secret) ==
    LET genuine == /\ ValidateInitializeRequest(q) /\ Transcribed(q, r) /\ ValidateInitializeResponse(r)
                   /\ r.launch = q.launch /\ r.challenge = q.challenge
                   /\ r.proof = InitializeProof(q, r, secret)
        selected == /\ ProtocolSelectedFrom(q.protocol, r.protocol)
                    /\ CapabilitiesSelectedFrom(q.supported, q.required, r.capabilities)
                    /\ LimitsSelectedFrom(q.limits, r.limits)
                    /\ DecodeManifest(r.manifest, r.limits)
    IN  IF ~genuine THEN "invalid"
        ELSE IF r.status.code # "OK" THEN "failed"
        ELSE IF selected THEN "accepted" ELSE "invalid"

(***************************************************************************)
(* The launch and its bootstrap record: one line with an address and a     *)
(* secret, each exactly once.                                              *)
(***************************************************************************)
NewExecutable(e) ==
    /\ Token(e.id, MaxToken) /\ Token(e.name, MaxToken) /\ Token(e.version, MaxToken)
    /\ ValidateLimits(e.limits)
    /\ e.timeout \in 1..MaxTimeout
    /\ e.capabilities \subseteq Capabilities

ValidBootstrapAddress(address) == address \in 1..BootstrapMaximum
Record(address, secret) ==
    [size |-> address + 1, lines |-> 1, fields |-> <<<<"address", address>>, <<"secret", secret>>>>]
EncodeBootstrap(address) == ValidBootstrapAddress(address) /\ Record(address, Secret).size <= BootstrapMaximum

FieldsNamed(record, name) == {i \in DOMAIN record.fields : record.fields[i][1] = name}
StrictBootstrapRecord(record) ==
    /\ \A i \in DOMAIN record.fields : record.fields[i][1] \in {"address", "secret"}
    /\ \A name \in {"address", "secret"} : Cardinality(FieldsNamed(record, name)) = 1
FieldOf(record, name) == record.fields[CHOOSE i \in FieldsNamed(record, name) : TRUE][2]

DecodeBootstrap(record) ==
    /\ record.size <= BootstrapMaximum /\ record.lines = 1 /\ StrictBootstrapRecord(record)
    /\ ValidBootstrapAddress(FieldOf(record, "address")) /\ FieldOf(record, "secret") # None

InitializeRequest(e) ==
    [protocol |-> SupportedProtocolRange, host |-> 1, supported |-> {RuntimeTools}, required |-> {RuntimeTools},
     limits |-> e.limits, launch |-> LaunchID, challenge |-> Challenge, unknown |-> <<>>]

\* approveCatalog.
Approved(m, e) == \A i \in DOMAIN m.tools : m.tools[i].capabilities \subseteq e.capabilities

(***************************************************************************)
(* The actions.  A launch that fails ends the model.                       *)
(***************************************************************************)
Init ==
    /\ \E e \in Executables, a \in Addresses :
          host = [at |-> "configured", exe |-> e, address |-> a, request |-> None, limits |-> None,
                  session |-> None, catalog |-> None, verdict |-> None]
    /\ \E b \in Plugins :
          plug = [at |-> "waiting", built |-> b, secret |-> None, asked |-> None, answer |-> None,
                  limits |-> b.limits, session |-> None, initialized |-> FALSE]
    /\ wire = None
    /\ val = None

Fail == host' = [host EXCEPT !.at = "failed"]

\* NewExecutable, and the record the launcher writes to the plugin's stdin.
Launch ==
    /\ host.at = "configured"
    /\ IF NewExecutable(host.exe) /\ EncodeBootstrap(host.address)
       THEN /\ host' = [host EXCEPT !.at = "launched"]
            /\ wire' = Record(host.address, Secret)
       ELSE Fail /\ UNCHANGED wire
    /\ UNCHANGED <<plug, val>>

\* How a record or message may differ from the one that was sent.
CutRecord(record) == {[record EXCEPT !.lines = 0], [record EXCEPT !.fields = SubSeq(@, 1, 1)]}
DamagedRequest(q) == {[q EXCEPT !.limits = [@ EXCEPT !.calls = @ + 1]], [q EXCEPT !.unknown = <<1>>]}
DamagedResponse(r) ==
    {[r EXCEPT !.session = IF @ = None THEN SessionID ELSE "other"], [r EXCEPT !.unknown = <<1>>], [r EXCEPT !.unknown = None],
     [r EXCEPT !.launch = "other"], [r EXCEPT !.challenge = "other"], [r EXCEPT !.proof = None],
     [r EXCEPT !.status = Unavailable], [r EXCEPT !.protocol = <<1, 1, 0>>]}
        \cup (IF r.limits = None THEN {} ELSE {[r EXCEPT !.limits = [@ EXCEPT !.result = @ + 1]]})
        \cup (IF r.manifest = None THEN {} ELSE {[r EXCEPT !.manifest = [@ EXCEPT !.version = @ + 1]]})

\* Serve: the plugin reads its record, builds its service and says it is ready.
Serve ==
    /\ host.at = "launched" /\ plug.at = "waiting"
    /\ \E record \in {wire} \cup CutRecord(wire) :
          IF /\ DecodeBootstrap(record)
             /\ NewCatalog(plug.built.name, plug.built.version, plug.built.definitions, plug.built.limits)
          THEN /\ plug' = [plug EXCEPT !.at = "ready", !.secret = FieldOf(record, "secret")]
               /\ host' = [host EXCEPT !.at = "ready"]
          ELSE Fail /\ plug' = [plug EXCEPT !.at = "exited"]
    /\ wire' = None
    /\ UNCHANGED val

Ask ==
    /\ host.at = "ready" /\ wire = None /\ plug.at = "ready"
    /\ LET q == InitializeRequest(host.exe)
       IN  /\ host' = [host EXCEPT !.at = "asking", !.request = q]
           /\ wire' \in {q} \cup DamagedRequest(q)
    /\ UNCHANGED <<plug, val>>

Failed(q, code) ==
    [status |-> Plain(code, FALSE), protocol |-> None, plugin |-> 1, capabilities |-> None, limits |-> None,
     manifest |-> None, launch |-> q.launch, session |-> None, challenge |-> q.challenge, proof |-> None, unknown |-> <<>>]

\* The answer of the service to a request, before it is signed.
Answer(q, b) ==
    LET l == NegotiateLimits(q.limits, b.limits)
        m == Manifest(b.name, b.version, b.definitions)
    IN  IF ~ValidateInitializeRequest(q) THEN Failed(q, "INVALID_ARGUMENT")
        ELSE IF ~ValidateLimits(b.limits) \/ ~DecodeManifest(m, l) THEN Failed(q, "INVALID_ARGUMENT")
        ELSE [status |-> OK, protocol |-> q.protocol.max, plugin |-> 1, capabilities |-> q.supported \cap {RuntimeTools},
              limits |-> l, manifest |-> m, launch |-> q.launch, session |-> SessionID,
              challenge |-> q.challenge, proof |-> None, unknown |-> <<>>]

\* The service answers one Initialize; its answer may be damaged on the way.
Initialize ==
    /\ host.at = "asking" /\ plug.at = "ready"
    /\ LET q == wire
           r == Answer(q, plug.built)
           signed == SignInitializeResponse(q, r, plug.secret)
       IN  /\ plug' = [plug EXCEPT !.at = "answered", !.asked = q, !.answer = signed,
                                   !.initialized = r.status = OK,
                                   !.session = r.session,
                                   !.limits = IF r.status = OK THEN r.limits ELSE @]
           /\ wire' \in {signed} \cup DamagedResponse(signed)
    /\ UNCHANGED <<host, val>>

\* authenticate: what the launcher keeps of an answer it accepts.
Authenticate ==
    /\ host.at = "asking" /\ plug.at = "answered"
    /\ LET verdict == ValidateInitializeResponseForRequest(host.request, wire, Secret)
           known == wire.manifest # None /\ wire.manifest.name = host.exe.name /\ wire.manifest.version = host.exe.version
       IN  host' = IF verdict = "accepted" /\ known /\ Approved(wire.manifest, host.exe)
                   THEN [host EXCEPT !.at = "accepted", !.verdict = verdict, !.limits = wire.limits,
                                     !.session = wire.session, !.catalog = wire.manifest]
                   ELSE [host EXCEPT !.at = "failed", !.verdict = verdict]
    /\ UNCHANGED <<plug, wire, val>>

(***************************************************************************)
(* One call.                                                               *)
(***************************************************************************)
ValidateSession(observed, expected) == expected # None /\ observed = expected

DecodeExecuteRequest(q, session, l) ==
    /\ ValidateSession(q.session, session) /\ ValidateLimits(l)
    /\ Token(q.tool, MaxToken)
    /\ q.arguments \in 1..l.arguments
    /\ q.arguments + 1 <= l.message

\* Execute of the host's tool: the validator accepts the request or it is not sent.
Execute(t, arguments) ==
    /\ host.at = "accepted" /\ val = None
    /\ LET q == [session |-> host.session, call |-> CallID, tool |-> t.name, arguments |-> arguments]
       IN  IF DecodeExecuteRequest(q, host.session, host.limits)
           THEN /\ wire' = q
                /\ val' = [tool |-> t, next |-> 1, terminal |-> FALSE, frames |-> <<>>, refused |-> None, end |-> None,
                           understood |-> None]
           ELSE UNCHANGED <<wire, val>>
    /\ UNCHANGED <<host, plug>>

\* Execute of the plugin, up to its admission of the call.
Admit ==
    /\ val # None /\ val.understood = None
    /\ val' = [val EXCEPT !.understood = /\ DecodeExecuteRequest(wire, plug.session, plug.limits)
                                         /\ \E i \in DOMAIN plug.built.definitions :
                                                plug.built.definitions[i].name = wire.tool]
    /\ wire' = None
    /\ UNCHANGED <<host, plug>>

DecodeExecutionFailure(f) ==
    /\ f.state \in {"definitive", "uncertain"} /\ f.retry \in {"never", "allowed"}
    /\ Token(f.text, MaxProgress)
    /\ f.state = "uncertain" => f.retry = "never"

DecodeFrame(f, l) ==
    CASE f.kind = "progress" -> f.size <= l.progress /\ f.size >= 1
      [] f.kind = "result" -> f.size <= l.result /\ f.size >= 1 /\ f.text \in 0..MaxProgress
      [] f.kind = "failure" -> DecodeExecutionFailure(f)
      [] OTHER -> FALSE

Terminal(f) == f.kind \in {"result", "failure"}

\* compatibleTerminalFailure: a failure must fit the tool that reports it.
Compatible(f, t) ==
    f.kind = "failure" => /\ f.state = "uncertain" => t.effect = "mutating"
                          /\ f.retry = "allowed" => t.replay # "unsafe"

Accept(v, f, l) ==
    /\ ~v.terminal
    /\ f.size + 1 <= l.message /\ f.call = CallID /\ f.sequence = v.next /\ DecodeFrame(f, l)

Receive(f) ==
    /\ val # None /\ val.understood = TRUE /\ val.refused = None /\ val.end = None /\ Len(val.frames) < MaxFrames
    /\ val' = IF Accept(val, f, host.limits) /\ Compatible(f, val.tool)
              THEN [val EXCEPT !.next = @ + 1, !.terminal = Terminal(f), !.frames = Append(@, f)]
              ELSE [val EXCEPT !.refused = f]
    /\ UNCHANGED <<host, plug, wire>>

\* Finish: the stream ends; it was complete if its last frame was terminal.
Finish ==
    /\ val # None /\ val.understood = TRUE /\ val.refused = None /\ val.end = None
    /\ val' = [val EXCEPT !.end = IF val.terminal THEN "complete" ELSE "missing"]
    /\ UNCHANGED <<host, plug, wire>>

(***************************************************************************)
(* The end of the session: the answers to Drain and Shutdown.              *)
(***************************************************************************)
ValidateLifecycleRequest(session, expected, l) == ValidateSession(session, expected) /\ ValidateLimits(l)
ValidateDrainResponse(r, l) ==
    /\ ValidStatus(r.status)
    /\ r.status.code = "OK" => r.active = 0
    /\ r.active <= l.calls
ValidateShutdownResponse(r) == ValidStatus(r.status)

Drain ==
    /\ host.at = "accepted" /\ val # None /\ (val.end # None \/ val.refused # None)
    /\ \E s \in {OK, Unavailable}, active \in 0..(host.limits.calls + 1) :
          LET drained == /\ ValidateLifecycleRequest(host.session, plug.session, plug.limits)
                         /\ ValidateDrainResponse([status |-> s, active |-> active], host.limits)
          IN  host' = [host EXCEPT !.at = IF drained /\ s = OK THEN "drained" ELSE "failed"]
    /\ UNCHANGED <<plug, wire, val>>

Shutdown ==
    /\ host.at = "drained"
    /\ \E s \in {OK, Unavailable} :
          host' = [host EXCEPT !.at = IF ValidateShutdownResponse([status |-> s]) /\ s = OK THEN "stopped" ELSE "failed"]
    /\ UNCHANGED <<plug, wire, val>>

Ended == host.at \in {"failed", "stopped"} /\ UNCHANGED vars

Next ==
    \/ Launch \/ Serve \/ Ask \/ Initialize \/ Authenticate
    \/ \E a \in Arguments : host.catalog # None /\ \E i \in DOMAIN host.catalog.tools : Execute(host.catalog.tools[i], a)
    \/ Admit \/ (\E f \in Frames : Receive(f)) \/ Finish
    \/ Drain \/ Shutdown \/ Ended

Spec == Init /\ [][Next]_vars

-----------------------------------------------------------------------------
\* A candidate that authenticates is the plugin that was launched: the answer
\* is the one the plugin signed, with the secret of this launch, for the very
\* request the host sent; both sides then hold the same session and the same
\* limits, above neither side's own; and the catalog is what the plugin was
\* built with, in order and within the approved capabilities.  And an answer
\* that does arrive unharmed from a plugin that could negotiate, is the one
\* configured and asks for no more than was approved, is never turned away
\* unless it is too large for the message limit it negotiated.
HandshakeIsExact ==
    /\ host.session # None =>
        /\ wire = plug.answer \/ val # None
        /\ plug.asked = host.request /\ plug.secret = Secret /\ plug.initialized
        /\ host.session = plug.session /\ host.limits = plug.limits
        /\ AtMost(host.limits, host.exe.limits) /\ AtMost(host.limits, plug.built.limits)
        /\ {host.catalog.tools[i] : i \in DOMAIN host.catalog.tools}
             = {plug.built.definitions[i] : i \in DOMAIN plug.built.definitions}
        /\ Len(host.catalog.tools) = Len(plug.built.definitions)
        /\ \A i, j \in DOMAIN host.catalog.tools : i < j => host.catalog.tools[i].name < host.catalog.tools[j].name
        /\ Approved(host.catalog, host.exe)
    /\ host.verdict # None /\ host.session = None /\ wire = plug.answer /\ plug.initialized /\ plug.asked = host.request
         => \/ ResponseSize(wire) > wire.limits.message
            \/ <<host.exe.name, host.exe.version>> # <<plug.built.name, plug.built.version>>
            \/ ~Approved(wire.manifest, host.exe)

\* What the host takes from the stream of a call is progress, then at most one
\* result or failure, numbered without a gap, all of this call and within the
\* negotiated limits, and never the advice to retry what may have happened; a
\* frame is refused only if it continues the stream in none of these ways; and
\* a request that the host's validator lets out is one its plugin decodes.
Legal(frames, f) ==
    /\ \A i \in DOMAIN frames : frames[i].kind = "progress"
    /\ f.call = CallID /\ f.sequence = Len(frames) + 1 /\ f.size < host.limits.message
    /\ \/ f.kind = "progress" /\ f.size \in 1..host.limits.progress
       \/ f.kind = "result" /\ f.size \in 1..host.limits.result /\ f.text \in 0..MaxProgress
       \/ /\ f.kind = "failure" /\ f.text \in 1..MaxProgress
          /\ <<f.state, f.retry>> \in {<<"definitive", "never">>, <<"definitive", "allowed">>, <<"uncertain", "never">>}
          /\ f.state = "uncertain" => val.tool.effect = "mutating"
          /\ f.retry = "allowed" => val.tool.replay # "unsafe"
StreamIsExact ==
    val # None =>
        /\ val.understood # FALSE
        /\ \A i \in DOMAIN val.frames : Legal(SubSeq(val.frames, 1, i - 1), val.frames[i])
        /\ val.refused # None => ~Legal(val.frames, val.refused)
        /\ val.end = "complete" <=> (val.end # None /\ val.frames # <<>> /\ Terminal(Last(val.frames)))
=============================================================================
