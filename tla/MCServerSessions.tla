-------------------------- MODULE MCServerSessions --------------------------
(* Three connections: two of client A, one of client B that may be bound   *)
(* to A by a relay registration.                                           *)
EXTENDS ServerSessions, TLC

CONSTANTS c1, c2, c3, A, B

MCClient == {A, B}
MCKind == (c1 :> "tcp") @@ (c2 :> "tcp") @@ (c3 :> "tcp")
MCDevice == (c1 :> A) @@ (c2 :> A) @@ (c3 :> B)
TwoTcpOfA == (c1 :> "tcp") @@ (c2 :> "tcp")
TwoPaths == (c1 :> A) @@ (c2 :> A)
TcpAndQuic == (c1 :> "tcp") @@ (c3 :> "quic")
TwoDevices == (c1 :> A) @@ (c3 :> B)
MCIntroduced == {<<B, A>>}
=============================================================================
