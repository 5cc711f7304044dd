-------------------------- MODULE PluginContractCases -----------------------
(* The executables, plugins and frames with which PluginContract is        *)
(* checked.                                                                *)
EXTENDS Integers

CaseLimit(message, tools, schema, arguments, progress, calls) ==
    [message |-> message, tools |-> tools, schema |-> schema, arguments |-> arguments, result |-> 2,
     progress |-> progress, calls |-> calls]

\* Limits that meet from both sides, and two that are not valid.
CaseLimits ==
    {CaseLimit(5, 2, 2, 2, 2, 1), CaseLimit(4, 2, 2, 1, 1, 2), CaseLimit(3, 1, 1, 2, 1, 1),
     CaseLimit(3, 1, 4, 1, 1, 1), CaseLimit(4, 0, 2, 1, 1, 1)}

CaseExecutables ==
    {[id |-> 1, limits |-> l, capabilities |-> c, name |-> 1, version |-> v, timeout |-> t] :
        l \in CaseLimits, c \in {{}, {"filesystem.read"}, {"filesystem.read", "filesystem.write"}}, v \in {0, 1}, t \in {1, 3}}

CaseTool(name, schema, effect, replay, capabilities) ==
    [name |-> name, description |-> 1, schema |-> schema, effect |-> effect, replay |-> replay, capabilities |-> capabilities]

Reader == CaseTool(1, 1, "read_only", "safe", {"filesystem.read"})
Writer == CaseTool(2, 2, "mutating", "unsafe", {"filesystem.write"})
Setter == CaseTool(2, 1, "mutating", "idempotent", {})
Odd == CaseTool(1, 1, "read_only", "idempotent", {})

CasePlugins ==
    {[limits |-> l, definitions |-> d, name |-> 1, version |-> v] :
        l \in CaseLimits, v \in {1, 2},
        d \in {<<Reader>>, <<Setter>>, <<Writer, Reader>>, <<Setter, Setter>>, <<Odd>>, <<>>}}

CaseFrame(call, sequence, kind, size, state, retry, text) ==
    [call |-> call, sequence |-> sequence, kind |-> kind, size |-> size, state |-> state, retry |-> retry, text |-> text]

\* Progress, results and failures, in and out of their limits and of order.
CaseFrames ==
    {CaseFrame("call", s, k, n, "none", "none", 0) : s \in 1..3, k \in {"progress", "result"}, n \in {0, 2, 3}}
        \cup {CaseFrame("call", s, "failure", 1, st, r, 1) :
                 s \in 1..2, st \in {"definitive", "uncertain", "none"}, r \in {"never", "allowed"}}
        \cup {CaseFrame("other", 1, "progress", 1, "none", "none", 0), CaseFrame("call", 1, "none", 1, "none", "none", 0),
              CaseFrame("call", 1, "failure", 1, "definitive", "never", 0)}
=============================================================================
