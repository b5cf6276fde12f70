------------------------------ MODULE MCClient ------------------------------
EXTENDS Client

Config(protocols, count, binds, android, pinned, paired) ==
  [protocols |-> protocols, debug |-> FALSE, count |-> count, binds |-> binds,
   android |-> android, pinned |-> pinned, paired |-> paired, plain |-> FALSE,
   sharing |-> FALSE, certs |-> 3, runs |-> 2]

(* Clients that dial. *)
Dialing ==
  { Config(<<"wss", "h3">>, 2, 2, TRUE, 1, TRUE),
    Config(<<"wss">>, 2, 1, TRUE, 0, TRUE),
    Config(<<>>, 2, 1, TRUE, 1, TRUE),
    Config(<<"wireguard">>, 2, 0, FALSE, 0, TRUE),
    [Config(<<"naive_tcp", "other", "wss">>, 2, 1, TRUE, 0, FALSE) EXCEPT !.debug = TRUE] }

(* Clients that share: they dial without trouble to get to it. *)
Sharer(android, count) ==
  [Config(<<"wss">>, count, 0, android, 1, FALSE) EXCEPT
     !.plain = TRUE, !.sharing = TRUE, !.certs = 1, !.runs = 1]

Clients == Dialing \cup {Sharer(TRUE, 1), Sharer(FALSE, 2)}

=============================================================================
