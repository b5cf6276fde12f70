--------------------------- MODULE InOrderChannel ---------------------------
(***************************************************************************)
(* What the session layer promises one direction of a bonded session: the  *)
(* packets handed to the receiving side are always a prefix of the packets *)
(* accepted from the sending side, whatever the paths in between do.       *)
(***************************************************************************)
EXTENDS Naturals, Sequences

CONSTANT Payload        \* the packets a TUN device can produce

VARIABLES sent,         \* packets accepted from the sender, in order
          delivered     \* packets handed to the receiver, in order

vars == <<sent, delivered>>

Init == sent = <<>> /\ delivered = <<>>

(* The sender accepts one more packet. *)
Accept == /\ \E p \in Payload : sent' = Append(sent, p)
          /\ UNCHANGED delivered

(* The receiver obtains the next packets, one or several at once. *)
Release == /\ \E n \in (Len(delivered) + 1)..Len(sent) :
                delivered' = [i \in 1..n |-> sent[i]]
           /\ UNCHANGED sent

Next == Accept \/ Release

Spec == Init /\ [][Next]_vars
=============================================================================
