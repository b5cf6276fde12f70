------------------------- MODULE MCWireGuardServer -------------------------
(* Two devices, one of them also on another transport, and two source      *)
(* addresses: a device redials with a new key and from another address     *)
(* while its runtime is there.                                             *)
EXTENDS WireGuardServer, TLC

Symmetry == Permutations(WgKey) \cup Permutations(Addr)
=============================================================================
