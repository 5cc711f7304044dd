---------------------------- MODULE PluginHostMC ----------------------------
(* Small instances of PluginHost. *)
EXTENDS PluginHost, TLC

Symmetry == Permutations(Activators) \cup Permutations(Holders)
=============================================================================
