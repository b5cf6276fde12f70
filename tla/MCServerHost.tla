---------------------------- MODULE MCServerHost ----------------------------
(* Four hosts: two that pair devices, with and without an operator who     *)
(* edits the file; one in TUN mode; one with ACME.                         *)
EXTENDS ServerHost, TLC

MCHosts == {
  [tun |-> FALSE, acme |-> FALSE, starts |-> 2, hellos |-> 3, edits |-> 0],
  [tun |-> FALSE, acme |-> FALSE, starts |-> 2, hellos |-> 2, edits |-> 1],
  [tun |-> TRUE,  acme |-> FALSE, starts |-> 3, hellos |-> 0, edits |-> 0],
  [tun |-> FALSE, acme |-> TRUE,  starts |-> 3, hellos |-> 0, edits |-> 0]}

Symmetry == Permutations(Conn) \cup Permutations(Device)

=============================================================================
