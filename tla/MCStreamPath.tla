---------------------------- MODULE MCStreamPath ----------------------------
(* Three frames of the client, which do not fit the stream at once, and    *)
(* two of the server, which do.                                            *)
EXTENDS StreamPath, TLC

MCFrames == ("client" :> 3) @@ ("server" :> 2)
=============================================================================
