--------------------------- MODULE AndroidSession ---------------------------
(***************************************************************************)
(* The native session of the Android app (bonded-ffi/src/lib.rs): one      *)
(* process-wide slot with the handle of the current session, one           *)
(* process-wide TUN writer, and one worker thread per session.  Any thread *)
(* of the app may be inside stop_android_session or start_android_session; *)
(* only the accesses to the slot are under its lock, so two restarts can   *)
(* interleave.                                                             *)
(*                                                                         *)
(* A session exists while its handle or its worker does.  Abstracted: of   *)
(* the transports, only the failure of the last one matters here, since a  *)
(* failover inside the worker shows nowhere else; an outbound packet       *)
(* matters only by its send failing; a received packet goes to the TUN     *)
(* writer or, without one, to a queue that is read by polling, and is not  *)
(* followed further; counters and texts of the snapshot are left out.      *)
(***************************************************************************)
EXTENDS Naturals, FiniteSetsExt, Maps

CONSTANTS Thread,           \* threads that call into the native library
          Sid               \* bound: sessions that exist at one time

ASSUME SessionBounds == Sid \subseteq Nat \ {0}

VARIABLES slot,             \* the session of ANDROID_SESSION, or None
          tunWriter,        \* ANDROID_TUN_WRITER holds a file
          sess,             \* session -> its shared state
          call              \* thread -> where it is in a native call

nativeVars == <<slot, tunWriter, sess, call>>

None == 0

SnapshotState == {"connecting", "connected", "error", "stopped"}

(* held: the handle, and with it the sender of outbound packets, exists. *)
Session == [state : SnapshotState, worker : {"dialing", "running", "ended"},
            cancelled : BOOLEAN, held : BOOLEAN]

(* start: the stop at the beginning of start_android_session. *)
Call == [at : {"out", "take", "join", "spawn", "install"},
         start : BOOLEAN, h : Sid \cup {None}]

Out == [at |-> "out", start |-> FALSE, h |-> None]

NativeInit == /\ slot = None
              /\ tunWriter = FALSE
              /\ sess = Empty
              /\ call = [t \in Thread |-> Out]

At(t, at) == call[t].at = at

Goto(t, at, h) == call' = [call EXCEPT ![t].at = at, ![t].h = h]

-----------------------------------------------------------------------------
(* Ownership: a session disappears with the last of its handle and worker. *)
(* Without the handle nobody reads its snapshot.                           *)

DropHandle(S, s) ==
  IF S[s].worker = "ended" THEN Without(S, s)
  ELSE [S EXCEPT ![s].held = FALSE, ![s].state = "stopped"]

EndWorker(S, s, state) ==
  IF ~S[s].held THEN Without(S, s)
  ELSE [S EXCEPT ![s].worker = "ended", ![s].state = state]

-----------------------------------------------------------------------------
(* The calls. *)

NativeStop(t) == call' = [call EXCEPT ![t] = [Out EXCEPT !.at = "take"]]

NativeStart(t) ==
  call' = [call EXCEPT ![t] = [Out EXCEPT !.at = "take", !.start = TRUE]]

(* The handle leaves the slot; its snapshot says stopped, its token is     *)
(* cancelled and its worker is woken.                                      *)
TakeHandle(t) ==
  /\ At(t, "take")
  /\ sess' = IF slot = None THEN sess
             ELSE [sess EXCEPT ![slot].state = "stopped", ![slot].cancelled = TRUE]
  /\ slot' = None
  /\ Goto(t, "join", slot)
  /\ UNCHANGED tunWriter

(* The worker has ended, or the 250 ms of ANDROID_STOP_JOIN_TIMEOUT are    *)
(* over: either way the handle is dropped and the TUN writer closed.       *)
JoinWorker(t) ==
  /\ At(t, "join")
  /\ sess' = IF call[t].h = None THEN sess ELSE DropHandle(sess, call[t].h)
  /\ tunWriter' = FALSE
  /\ Goto(t, IF call[t].start THEN "spawn" ELSE "out", None)
  /\ UNCHANGED slot

NewSession == [state |-> "connecting", worker |-> "dialing", cancelled |-> FALSE,
               held |-> TRUE]

SpawnWorker(t) ==
  /\ At(t, "spawn")
  /\ Sid \ DOMAIN sess # {}
  /\ LET s == Min(Sid \ DOMAIN sess)
     IN  /\ sess' = Put(sess, s, NewSession)
         /\ Goto(t, "install", s)
  /\ UNCHANGED <<slot, tunWriter>>

(* A handle that is in the slot by now is overwritten: it is dropped       *)
(* without being cancelled.                                                *)
InstallHandle(t) ==
  /\ At(t, "install")
  /\ sess' = IF slot = None THEN sess ELSE DropHandle(sess, slot)
  /\ slot' = call[t].h
  /\ Goto(t, "out", None)
  /\ UNCHANGED tunWriter

CallStep(t) == \/ TakeHandle(t)
               \/ JoinWorker(t)
               \/ SpawnWorker(t)
               \/ InstallHandle(t)

SetTunFd(on) == tunWriter' = on

-----------------------------------------------------------------------------
(* The worker of session s. *)

Is(s, worker) == s \in DOMAIN sess /\ sess[s].worker = worker

DialSucceeds(s) ==
  /\ Is(s, "dialing")
  /\ sess' = [sess EXCEPT ![s].worker = "running",
                          ![s].state = IF sess[s].held THEN "connected" ELSE @]

(* No runtime, no path within ANDROID_PATH_ESTABLISH_TIMEOUT, no           *)
(* peer-share runtime, or a panic.                                         *)
WorkerDies(s) == /\ Is(s, "dialing") \/ Is(s, "running")
                 /\ sess' = EndWorker(sess, s, "error")

(* Seeded fault: the worker leaves its loop without reporting the error. *)
LastPathFailsQuietly(s) == /\ Is(s, "running")
                           /\ sess' = EndWorker(sess, s, sess[s].state)

(* A send or a receive fails on the only transport that is left. *)
LastPathFails(s) == /\ Is(s, "running")
                    /\ sess' = EndWorker(sess, s, "error")

(* Seeded fault: the closed outbound channel is not taken as an end. *)
WorkerStopsOnTokenOnly(s) == /\ Is(s, "running")
                             /\ sess[s].cancelled
                             /\ sess' = EndWorker(sess, s, sess[s].state)

(* Cancelled, or the outbound channel is closed. *)
WorkerStops(s) == /\ Is(s, "running")
                  /\ sess[s].cancelled \/ ~sess[s].held
                  /\ sess' = EndWorker(sess, s, sess[s].state)

DialEnds(s) == DialSucceeds(s) \/ (Is(s, "dialing") /\ WorkerDies(s))

WorkerStep(s) == /\ \/ DialSucceeds(s)
                    \/ WorkerDies(s)
                    \/ LastPathFails(s)
                    \/ WorkerStops(s)
                 /\ UNCHANGED <<slot, tunWriter, call>>

-----------------------------------------------------------------------------
(* A packet of the app's TUN loop for a worker that has ended: the channel *)
(* is closed.                                                              *)
QueueOutbound == /\ slot # None
                 /\ sess[slot].worker = "ended"
                 /\ sess' = [sess EXCEPT ![slot].state = "error"]
                 /\ UNCHANGED <<slot, tunWriter, call>>

=============================================================================
