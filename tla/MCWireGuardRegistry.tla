------------------------ MODULE MCWireGuardRegistry ------------------------
(* Three devices for two addresses: an address is reused after its lease,  *)
(* the search wraps around, and the subnet can be full.                    *)
EXTENDS WireGuardRegistry, TLC

Symmetry == Permutations(Device) \cup Permutations(WgKey)
=============================================================================
