--------------------------- MODULE RunAuthorityMC ---------------------------
(* Small instances of RunAuthority. *)
EXTENDS RunAuthority, TLC

Symmetry == Permutations(Processes) \cup Permutations(Slots) \cup Permutations(Payloads)
=============================================================================
