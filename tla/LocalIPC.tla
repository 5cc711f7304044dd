------------------------------ MODULE LocalIPC ------------------------------
(***************************************************************************)
(* The endpoint of one plugin launch (localendpoint.ownedEndpoint) on the  *)
(* Unix sockets of package daemon/localipc.  The plugin's process listens  *)
(* at the address, the host dials it, and when the host closes the         *)
(* endpoint it cleans the address by listening there itself and closing.   *)
(*                                                                         *)
(* A launch has an address of its own, and the host closes the endpoint    *)
(* only once the process is contained (the cleanup of a candidate), so     *)
(* the two never listen at the same time; dials go on until they return.   *)
(* The path holds a socket, known by its inode, or a node that is not a    *)
(* private socket.  The walk to the directory is one check that may fail.  *)
(***************************************************************************)
EXTENDS Integers

CONSTANTS
    Dials,      \* calls of Dial
    MaxFaults,  \* failing checks and system calls, a bound of the model
    None

VARIABLES
    node,    \* what the path names: [id, private] or None; id 0 is not a socket
    inodes,  \* inodes given out
    listen,  \* Listen and the listener's Close, of the plugin and of the cleanup
    closed,  \* ownedEndpoint.closed
    dial,    \* the calls of Dial
    faults

vars == <<node, inodes, listen, closed, dial, faults>>

Sides == {"plugin", "host"}
NotStarted == [at |-> "idle", found |-> None, id |-> None]

\* A launch's address is new; a foreign node may hold its name.
Init ==
    /\ node \in {None, [id |-> 0, private |-> FALSE]}
    /\ inodes = 0
    /\ listen = [s \in Sides |-> NotStarted]
    /\ closed = FALSE
    /\ dial = [d \in Dials |-> [at |-> "idle", peer |-> None]]
    /\ faults = 0

Fault == faults < MaxFaults /\ faults' = faults + 1
At(s, at) == listen' = [listen EXCEPT ![s].at = at]

\* Contained: the plugin never ran, or its process has ended.
Contained == listen["plugin"].at \in {"idle", "killed"}

\* Who accepts at the path: a socket is served while its listener holds it.
Serving(s) == listen[s].at \in {"listening", "open"} /\ node # None /\ listen[s].id = node.id

(***************************************************************************)
(* Listen.                                                                 *)
(***************************************************************************)
\* openPrivateUnixDirectory and the first look of prepareUnixSocket.
Inspect(s) ==
    /\ listen[s].at = "begin"
    /\ \/ Fault /\ At(s, "failed")
       \/ /\ UNCHANGED faults
          /\ IF node = None THEN At(s, "bind")
             ELSE IF ~node.private THEN At(s, "failed")
             ELSE listen' = [listen EXCEPT ![s].at = "probe", ![s].found = node.id]
    /\ UNCHANGED <<node, inodes, closed, dial>>

\* Only a refused connection proves that the socket is stale.
Probe(s) ==
    /\ listen[s].at = "probe"
    /\ \/ Fault /\ At(s, "failed")
       \/ /\ UNCHANGED faults
          /\ At(s, IF node = None \/ \E other \in Sides : Serving(other) THEN "failed" ELSE "stale")
    /\ UNCHANGED <<node, inodes, closed, dial>>

\* removeOwnedSocket: the identity is compared, then the name is unlinked.
Compare(s) ==
    /\ listen[s].at \in {"stale", "remove"}
    /\ At(s, IF node = None THEN IF listen[s].at = "stale" THEN "bind" ELSE "closed"
             ELSE IF ~node.private \/ node.id # listen[s].found THEN "failed"
             ELSE IF listen[s].at = "stale" THEN "unlink" ELSE "unlinkOwn")
    /\ UNCHANGED <<node, inodes, closed, dial, faults>>

Unlink(s) ==
    /\ listen[s].at \in {"unlink", "unlinkOwn"}
    /\ \/ Fault /\ At(s, "failed") /\ UNCHANGED node
       \/ UNCHANGED faults /\ node' = None /\ At(s, IF listen[s].at = "unlink" THEN "bind" ELSE "closed")
    /\ UNCHANGED <<inodes, closed, dial>>

\* The mode of a new socket is the umask's.
Bind(s) ==
    /\ listen[s].at = "bind"
    /\ IF node # None THEN At(s, "failed") /\ UNCHANGED <<node, inodes>>
       ELSE /\ inodes' = inodes + 1
            /\ \E private \in BOOLEAN : node' = [id |-> inodes + 1, private |-> private]
            /\ listen' = [listen EXCEPT ![s].at = "bound", ![s].id = inodes + 1]
    /\ UNCHANGED <<closed, dial, faults>>

Accept(s) ==
    /\ listen[s].at = "bound"
    /\ At(s, "listening")
    /\ UNCHANGED <<node, inodes, closed, dial, faults>>

\* The directory and the socket are checked and its mode set; until then a
\* failure closes the listener, which unlinks the name.
Secure(s) ==
    /\ listen[s].at = "listening"
    /\ \/ Fault /\ At(s, "failed") /\ node' = None
       \/ /\ UNCHANGED faults
          /\ node' = [node EXCEPT !.private = TRUE]
          /\ listen' = [listen EXCEPT ![s].at = "open", ![s].found = node.id]
    /\ UNCHANGED <<inodes, closed, dial>>

\* unixListener.Close: the socket first, then its name.
CloseListener(s) ==
    /\ listen[s].at = "open"
    /\ At(s, "remove")
    /\ UNCHANGED <<node, inodes, closed, dial, faults>>

Listening(s) == Inspect(s) \/ Probe(s) \/ Compare(s) \/ Unlink(s) \/ Bind(s) \/ Accept(s) \/ Secure(s) \/ CloseListener(s)

(***************************************************************************)
(* The plugin's process (external): it listens once and may end anywhere.  *)
(***************************************************************************)
PluginListens ==
    /\ listen["plugin"].at = "idle" /\ ~closed
    /\ At("plugin", "begin")
    /\ UNCHANGED <<node, inodes, closed, dial, faults>>

PluginEnds ==
    /\ listen["plugin"].at \notin {"idle", "killed"}
    /\ At("plugin", "killed")
    /\ UNCHANGED <<node, inodes, closed, dial, faults>>

(***************************************************************************)
(* ownedEndpoint.                                                          *)
(***************************************************************************)
\* Mutant of Close: the flag is not set before the address is cleaned.
CloseUnmarked ==
    /\ listen["host"].at = "idle" /\ Contained
    /\ At("host", "begin")
    /\ UNCHANGED <<node, inodes, closed, dial, faults>>
\* Close marks the endpoint and begins the cleanup, cleanupPlatformAddress.
Close ==
    /\ listen["host"].at = "idle" /\ Contained
    /\ closed' = TRUE
    /\ At("host", "begin")
    /\ UNCHANGED <<node, inodes, dial, faults>>

DialAt(d, at, peer) == dial' = [dial EXCEPT ![d] = [at |-> at, peer |-> peer]]

\* The flag and the socket are looked at before the call connects.
Dial(d) ==
    /\ dial[d].at = "idle"
    /\ DialAt(d, IF closed \/ node = None \/ ~node.private THEN "failed" ELSE "connect", None)
    /\ UNCHANGED <<node, inodes, listen, closed, faults>>

Connect(d) ==
    /\ dial[d].at = "connect"
    /\ IF \E s \in Sides : Serving(s)
       THEN DialAt(d, "connected", CHOOSE s \in Sides : Serving(s))
       ELSE DialAt(d, "failed", None)
    /\ UNCHANGED <<node, inodes, listen, closed, faults>>

\* The flag is looked at again: a connection made during the cleanup is closed.
DialReturns(d) ==
    /\ dial[d].at = "connected"
    /\ IF closed THEN DialAt(d, "failed", None) ELSE DialAt(d, "returned", dial[d].peer)
    /\ UNCHANGED <<node, inodes, listen, closed, faults>>

Next ==
    \/ PluginListens \/ PluginEnds
    \/ Close
    \/ \E s \in Sides : (s = "host" \/ ~Contained) /\ Listening(s)
    \/ \E d \in Dials : Dial(d) \/ Connect(d) \/ DialReturns(d)

Spec == Init /\ [][Next]_vars

-----------------------------------------------------------------------------
\* The endpoint belongs to the plugin: a connection the host is given is one to
\* the plugin, never to the listener by which the host cleans the address, even
\* when a dial runs into the close; a listener that is open owns the name; and a
\* cleanup that reports success leaves nothing at the address, wherever the
\* process ended.
EndpointIsPlugins ==
    /\ \A d \in Dials : dial[d].at = "returned" => dial[d].peer = "plugin"
    /\ \A s \in Sides : listen[s].at = "open" => node # None /\ node.id = listen[s].id
    /\ listen["host"].at = "closed" => closed /\ node = None
=============================================================================
