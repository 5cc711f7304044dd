--------------------------- MODULE SessionSystemMC --------------------------
(*****************************************************************************)
(* Sessions for TLC: the session store, and the registry of initializations  *)
(* with both ends of the call. They share no state here; a behaviour is      *)
(* about one of them. The callers of the store are the peers and the         *)
(* attempts, so that one symmetry serves both.                               *)
(*****************************************************************************)
EXTENDS SessionStore, TLC

CONSTANTS
    Peers,         \* callers of Initialize
    Attempts,      \* initialization attempts
    Members        \* clients of the registry

VARIABLES
    focus,
    regStore, regReg, regHandler, regCaller, regConn, regEffects

regVars == <<regStore, regReg, regHandler, regCaller, regConn, regEffects>>
all == <<focus, vars, regVars>>

Registry == INSTANCE Negotiation WITH
    Callers <- Peers, Clients <- Members, MaxSessions <- 1, MaxWaiters <- 1, MaxUsers <- 2, MaxEpoch <- 3,
    MaxCalls <- 2, MaxFaults <- 1, store <- regStore, reg <- regReg, handler <- regHandler, caller <- regCaller,
    conn <- regConn, effects <- regEffects

\* One attempt that is repeated more often.
Retried == INSTANCE Negotiation WITH
    Callers <- Peers, Clients <- Members, Attempts <- {"t"}, MaxSessions <- 1, MaxWaiters <- 1, MaxUsers <- 2,
    MaxEpoch <- 3, MaxCalls <- 3, MaxFaults <- 1, store <- regStore, reg <- regReg, handler <- regHandler,
    caller <- regCaller, conn <- regConn, effects <- regEffects

\* The component that a behaviour is about; the others do not run.
Focus == {"store", "registry", "retried"}

regOff ==
    regStore = None /\ regReg = None /\ regHandler = None /\ regCaller = None /\ regConn = None /\
    regEffects = None

MCInit ==
    /\ focus \in Focus
    /\ Init
    /\ CASE focus = "registry" -> Registry!Init
         [] focus = "retried" -> Retried!Init
         [] OTHER -> regOff

MCNext ==
    \/ focus = "store" /\ Next /\ UNCHANGED <<focus, regVars>>
    \/ focus = "registry" /\ Registry!Next /\ UNCHANGED <<focus, vars>>
    \/ focus = "retried" /\ Retried!Next /\ UNCHANGED <<focus, vars>>

MCSpec == MCInit /\ [][MCNext]_all

Symmetry == Permutations(Peers) \cup Permutations(Attempts) \cup Permutations(Members)

-----------------------------------------------------------------------------
\* Negotiation: an attempt mutates the store once however often it is repeated,
\* the client's view of its session is the store's, and the registry's counters
\* are those of its entries.
InitializationsAreExact ==
    /\ focus = "registry" => Registry!AttemptsMutateOnce /\ Registry!ViewsAgree /\ Registry!RegistryAccounts
    /\ focus = "retried" => Retried!AttemptsMutateOnce /\ Retried!ViewsAgree /\ Retried!RegistryAccounts
=============================================================================
