---------------------------- MODULE MCVpnService ----------------------------
(* The main thread, one restart thread and two session ids: a restart can  *)
(* overlap a start of the main thread, a shutdown and the worker it ends.  *)
EXTENDS VpnService
=============================================================================
