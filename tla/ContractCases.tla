---------------------------- MODULE ContractCases ---------------------------
(* The daemons and callers between which Contract is checked.              *)
EXTENDS Integers

V(major, minor) == <<major, minor, 0>>
R(a, b) == [min |-> a, max |-> b]

\* The protocol has had no patch release: every patch is 0.
CaseVersions == {V(1, m) : m \in 0..4} \cup {V(2, 0)}

\* Every range of minors 0 to 4 and one of another major.
CaseRanges == {R(V(1, m[1]), V(1, m[2])) : m \in {n \in (0..4) \X (0..4) : n[1] <= n[2]}} \cup {R(V(2, 0), V(2, 0))}

L(message, items, events, bytes) ==
    [message |-> message, items |-> items, events |-> events, bytes |-> bytes, streams |-> 1, runs |-> 2]

\* What a caller supports and requires, how large its request is and what it claims.
SnapshotCaps == {"snapshots", "snapshot-authority-v1"}
AllCaps == SnapshotCaps \cup {"other"}
CaseOffers ==
    {<<{}, {}>>, <<SnapshotCaps, {}>>, <<SnapshotCaps, {"snapshots"}>>, <<AllCaps, {"other"}>>, <<{}, {"other"}>>}
CaseClaims == {<<0, 2>>, <<1, 4>>, <<2, 2>>}

CaseWishes ==
    {[range |-> r, attempt |-> a, supported |-> o[1], required |-> o[2], limits |-> l, claim |-> c[1], size |-> c[2]] :
        r \in CaseRanges, a \in BOOLEAN, o \in CaseOffers, c \in CaseClaims,
        l \in {L(3, 2, 1, 1), L(4, 3, 2, 2), L(9, 2, 1, 3)}}

\* Limits, degraded reasons and definitions that meet the limits from below and above.
CaseLoads ==
    {<<L(4, 2, 2, 3), 0, 1, 1>>, <<L(4, 2, 2, 3), 0, 2, 2>>, <<L(4, 2, 2, 3), 3, 1, 1>>,
     <<L(3, 3, 1, 1), 0, 3, 2>>, <<L(4, 3, 1, 1), 3, 1, 3>>}

CaseServers ==
    {[range |-> r, caps |-> c, limits |-> l[1], reasons |-> l[2], defs |-> [count |-> l[3], size |-> l[4]]] :
        r \in {R(V(1, 0), V(1, 3)), R(V(1, 0), V(1, 2)), R(V(1, 0), V(1, 0)), R(V(1, 2), V(1, 3))},
        c \in {{"other"}, SnapshotCaps, AllCaps}, l \in CaseLoads}
=============================================================================
