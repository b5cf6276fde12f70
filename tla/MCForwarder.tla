---------------------------- MODULE MCForwarder ----------------------------
EXTENDS Forwarder

Flow(c, d) == [client |-> c, dst |-> d, port |-> 443]
Flows == {Flow("p", "B"), Flow("p", "C"), Flow("q", "C")}

TcpLoad(fs, ns, nd, nc, r) ==
  [restless |-> r, flows |-> fs, syns |-> ns, data |-> nd, chunks |-> nc,
   packets |-> 0, probes |-> 0]
DatagramLoad(np, ne) ==
  [restless |-> FALSE, flows |-> {}, syns |-> 0, data |-> 0, chunks |-> 0,
   packets |-> np, probes |-> ne]

(* One connection whose SYN may be repeated, with data both ways; two      *)
(* connections that share a client endpoint and a port, with and without a *)
(* second client; UDP packets that race; UDP with a probe; probes alone.   *)
Loads == {TcpLoad({Flow("p", "B")}, 2, 1, 2, TRUE),
          TcpLoad({Flow("p", "B"), Flow("p", "C")}, 2, 0, 1, TRUE),
          TcpLoad(Flows, 3, 0, 0, FALSE), DatagramLoad(3, 0),
          DatagramLoad(2, 1), DatagramLoad(0, 4)}
=============================================================================
