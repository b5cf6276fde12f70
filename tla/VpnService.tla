----------------------------- MODULE VpnService -----------------------------
(***************************************************************************)
(* One life of BondedVpnService (BondedVpnService.kt) over the native      *)
(* session it drives.  The main thread runs onStartCommand and             *)
(* shutdownVpnNow; the session monitor restarts a session that reports an  *)
(* error; the network callback restarts it when the bind addresses change. *)
(* Each restart is a thread of its own, and the volatile flags are all     *)
(* that keeps them apart: they are read, and set later.                    *)
(*                                                                         *)
(* Abstracted: a callback that finds the bind addresses the session has    *)
(* does nothing and is left out; time passes, so that the recovery         *)
(* cooldown is over whenever the monitor looks.  Left out are the pending  *)
(* queue of outbound packets and a packet thread that fails on its own.    *)
(***************************************************************************)
EXTENDS AndroidSession

CONSTANTS Main,             \* the main thread, one of Thread
          HandoverWorks     \* configureNativeTunFd succeeds

ASSUME HandoverType == HandoverWorks \in BOOLEAN

VARIABLES main,             \* where the main thread is
          vpn,              \* vpnInterface is not null
          managed,          \* networkPathManager and activeDeviceId are set
          over,             \* shutdownVpnNow was called
          startup,          \* sessionStartupInProgress
          rebinding,        \* networkRebindInProgress
          recovering,       \* sessionRecoveryInProgress
          shutting,         \* shutdownInProgress
          loops,            \* the packet thread and the monitor are running
          seen,             \* the state the monitor has read, or its decision
          lastConnected,    \* lastEmittedSessionState is "connected"
          job               \* restart thread -> what it does

flagVars == <<startup, rebinding, recovering>>
monitorVars == <<seen, lastConnected>>
serviceVars == <<main, vpn, managed, over, shutting>>
vpnVars == <<nativeVars, serviceVars, flagVars, loops, monitorVars, job>>

Restarter == Thread \ {Main}

(* kind is the flag the thread holds. *)
Job == [kind : {"recovery", "rebind"},
        at : {"idle", "check", "stopping", "starting"}]

Idle == [kind |-> "recovery", at |-> "idle"]

VpnInit == /\ NativeInit
           /\ main = "idle"
           /\ vpn = FALSE /\ managed = FALSE /\ over = FALSE /\ shutting = FALSE
           /\ startup = FALSE /\ rebinding = FALSE /\ recovering = FALSE
           /\ loops = FALSE
           /\ seen = "none" /\ lastConnected = FALSE
           /\ job = [t \in Restarter |-> Idle]

Returned(t) == At(t, "out")

-----------------------------------------------------------------------------
(* onStartCommand: the first start, or another one while the VPN runs. *)

StartCommand == /\ main = "idle" /\ ~over
                /\ main' = "establish"
                /\ startup' = TRUE
                /\ managed' = TRUE
                /\ UNCHANGED <<nativeVars, vpn, over, rebinding, recovering,
                               shutting, loops, monitorVars, job>>

Establish == /\ main = "establish"
             /\ vpn' = TRUE
             /\ NativeStart(Main)
             /\ main' = "starting"
             /\ UNCHANGED <<slot, tunWriter, sess, managed, over, shutting, flagVars,
                            loops, monitorVars, job>>

(* No permission: stopSelf, and onDestroy shuts the service down. *)
EstablishFails == /\ main = "establish" /\ ~vpn
                  /\ main' = "destroy"
                  /\ UNCHANGED <<nativeVars, vpn, managed, over, shutting, flagVars,
                                 loops, monitorVars, job>>

SessionStarted == /\ main = "starting" /\ Returned(Main)
                  /\ startup' = FALSE
                  /\ main' = "loops"
                  /\ UNCHANGED <<nativeVars, vpn, managed, over, shutting, rebinding,
                                 recovering, loops, monitorVars, job>>

(* startPacketIoLoopIfNeeded hands the TUN to the native library only when *)
(* it starts the packet thread.                                            *)
StartLoops == /\ main = "loops"
              /\ IF ~loops /\ HandoverWorks THEN SetTunFd(TRUE) ELSE UNCHANGED tunWriter
              /\ loops' = TRUE
              /\ main' = "idle"
              /\ UNCHANGED <<slot, sess, call, vpn, managed, over, shutting, flagVars,
                             monitorVars, job>>

-----------------------------------------------------------------------------
(* shutdownVpnNow, for ACTION_STOP or onDestroy. *)

Shutdown == /\ main \in {"idle", "destroy"} /\ ~over
            /\ over' = TRUE
            /\ shutting' = TRUE
            /\ main' = "quit"
            /\ UNCHANGED <<nativeVars, vpn, managed, flagVars, loops,
                           monitorVars, job>>

StopLoops == /\ main = "quit"
             /\ loops' = FALSE
             /\ SetTunFd(FALSE)
             /\ lastConnected' = FALSE
             /\ managed' = FALSE
             /\ startup' = FALSE /\ rebinding' = FALSE /\ recovering' = FALSE
             /\ NativeStop(Main)
             /\ main' = "stopping"
             /\ UNCHANGED <<slot, sess, vpn, over, shutting, seen, job>>

CloseVpn == /\ main = "stopping" /\ Returned(Main)
            /\ vpn' = FALSE
            /\ main' = "closed"
            /\ UNCHANGED <<nativeVars, managed, over, shutting, flagVars, loops,
                           monitorVars, job>>

ShutdownDone == /\ main = "closed" /\ shutting
                /\ shutting' = FALSE
                /\ UNCHANGED <<nativeVars, main, vpn, managed, over, flagVars, loops,
                               monitorVars, job>>

MainStep == \/ Establish \/ EstablishFails \/ SessionStarted \/ StartLoops
            \/ StopLoops \/ CloseVpn \/ ShutdownDone

-----------------------------------------------------------------------------
(* A restart thread. *)

SetFlag(kind, on) == IF kind = "recovery"
                     THEN recovering' = on /\ UNCHANGED rebinding
                     ELSE rebinding' = on /\ UNCHANGED recovering

(* The thread is started with its flag set. *)
SpawnRestart(kind) ==
  \E t \in Restarter :
    /\ job[t].at = "idle"
    /\ job' = [job EXCEPT ![t] = [kind |-> kind, at |-> "check"]]
    /\ SetFlag(kind, TRUE)

(* Seeded fault: the thread ends with its flag set. *)
EndRestartKeepingFlag(t) == /\ job' = [job EXCEPT ![t] = Idle]
                            /\ UNCHANGED <<rebinding, recovering>>

EndRestart(t) == /\ job' = [job EXCEPT ![t] = Idle]
                 /\ SetFlag(job[t].kind, FALSE)

RestartUnchanged == UNCHANGED <<slot, tunWriter, sess, serviceVars, startup, loops,
                                monitorVars>>

CheckShutdown(t) ==
  /\ job[t].at = "check"
  /\ IF shutting
     THEN EndRestart(t) /\ UNCHANGED call
     ELSE /\ NativeStop(t)
          /\ job' = [job EXCEPT ![t].at = "stopping"]
          /\ UNCHANGED <<rebinding, recovering>>
  /\ RestartUnchanged

(* The check at the head of startNativeSession, then the native start. *)
startNativeSession(t) ==
  /\ job[t].at = "stopping" /\ Returned(t)
  /\ IF shutting \/ ~vpn
     THEN EndRestart(t) /\ UNCHANGED call
     ELSE /\ NativeStart(t)
          /\ job' = [job EXCEPT ![t].at = "starting"]
          /\ UNCHANGED <<rebinding, recovering>>
  /\ RestartUnchanged

RestartDone(t) ==
  /\ job[t].at = "starting" /\ Returned(t)
  /\ EndRestart(t)
  /\ UNCHANGED call
  /\ RestartUnchanged

JobStep(t) == CheckShutdown(t) \/ startNativeSession(t) \/ RestartDone(t)

-----------------------------------------------------------------------------
(* The session monitor: it reads the snapshot, and acts on what it read.   *)

monitorRest == <<slot, tunWriter, sess, call, serviceVars, startup, loops>>

(* Only two states make it act. *)
MonitorReads ==
  /\ loops /\ seen = "none" /\ slot # None
  /\ IF sess[slot].state \in {"connected", "error"}
     THEN seen' = sess[slot].state /\ UNCHANGED lastConnected
     ELSE lastConnected' = FALSE /\ UNCHANGED seen
  /\ UNCHANGED <<monitorRest, rebinding, recovering, job>>

RecoveryAllowed == /\ ~shutting /\ managed
                   /\ ~startup /\ ~rebinding /\ ~recovering

(* updateSessionSnapshot for a state that is not recovered from, or not    *)
(* now because another restart is going on.                                *)
MonitorPasses ==
  /\ seen \in {"connected", "error"}
  /\ ~(seen = "error" /\ RecoveryAllowed)
  /\ recovering' = IF seen = "connected" /\ ~lastConnected THEN FALSE ELSE recovering
  /\ lastConnected' = (seen = "connected")
  /\ seen' = "none"
  /\ UNCHANGED <<monitorRest, rebinding, job>>

(* attemptSessionRecovery: past the checks, before the flag is set. *)
MonitorDecides == /\ seen = "error"
                  /\ RecoveryAllowed
                  /\ lastConnected' = FALSE
                  /\ seen' = "recover"
                  /\ UNCHANGED <<monitorRest, rebinding, recovering, job>>

MonitorRecovers == /\ seen = "recover"
                   /\ SpawnRestart("recovery")
                   /\ seen' = "none"
                   /\ UNCHANGED <<monitorRest, lastConnected>>

MonitorStep == MonitorReads \/ MonitorPasses \/ MonitorDecides \/ MonitorRecovers

-----------------------------------------------------------------------------
(* handleNetworkPathChange, with other bind addresses than those of the    *)
(* session.  A change that meets one of the flags is not looked at again.  *)
CallbackRebinds == /\ ~shutting /\ ~startup /\ ~rebinding /\ managed
                   /\ SpawnRestart("rebind")
                   /\ UNCHANGED <<slot, tunWriter, sess, call, serviceVars, startup,
                                  loops, monitorVars>>

-----------------------------------------------------------------------------
vpnRest == <<serviceVars, flagVars, loops, monitorVars, job>>

NativeStep == /\ \/ \E t \in Thread : CallStep(t)
                 \/ \E s \in Sid : WorkerStep(s)
                 \/ loops /\ QueueOutbound
              /\ UNCHANGED vpnRest

VpnNext == \/ StartCommand \/ Shutdown \/ MainStep
           \/ \E t \in Restarter : JobStep(t)
           \/ MonitorStep
           \/ CallbackRebinds
           \/ NativeStep

(* Every thread gets the processor; a dial ends within its timeout, and a  *)
(* cancelled or closed worker is told so by its select loop.  The user,    *)
(* the networks and the peers owe nothing.                                 *)
MainProgress == MainStep \/ (CallStep(Main) /\ UNCHANGED vpnRest)

RestartProgress(t) == JobStep(t) \/ (CallStep(t) /\ UNCHANGED vpnRest)

WorkerProgress(s) == /\ DialEnds(s) \/ WorkerStops(s)
                     /\ UNCHANGED <<slot, tunWriter, call, vpnRest>>

VpnFairness == /\ WF_vpnVars(MainProgress)
               /\ \A t \in Restarter : WF_vpnVars(RestartProgress(t))
               /\ \A s \in Sid : WF_vpnVars(WorkerProgress(s))
               /\ WF_vpnVars(MonitorStep)

VpnSpec == VpnInit /\ [][VpnNext]_vpnVars /\ VpnFairness

-----------------------------------------------------------------------------
(* The state of the service and of the native sessions is well-formed, and *)
(* the slot never names a session that is gone.                            *)
VpnTypeOK ==
  /\ slot \in DOMAIN sess \cup {None}
  /\ DOMAIN sess \subseteq Sid
  /\ \A s \in DOMAIN sess : sess[s] \in Session
  /\ call \in [Thread -> Call]
  /\ job \in [Restarter -> Job]
  /\ seen \in {"none", "connected", "error", "recover"}
  /\ {tunWriter, vpn, managed, over, shutting, startup, rebinding, recovering,
      loops} \subseteq BOOLEAN

(* When the worker of the session in the slot has ended, the snapshot says *)
(* error: the monitor recovers from that state only, so a worker that ends *)
(* in any other would leave the VPN up and dead.  Every variable keeps its *)
(* type.                                                                   *)
NoSilentDeath ==
  /\ VpnTypeOK
  /\ slot # None /\ sess[slot].worker = "ended" => sess[slot].state = "error"

(* A session that has left the slot, or was overwritten in it, ends: no    *)
(* interleaving of restarts leaves a worker that nobody can stop.          *)
OrphansEnd ==
  \A s \in Sid :
    (s \in DOMAIN sess /\ slot # s) ~> (s \notin DOMAIN sess \/ slot = s)

(* A session in error is replaced as long as the VPN is up: no             *)
(* interleaving of restarts leaves a flag behind that blocks recovery.     *)
ErrorIsRecovered ==
  (loops /\ slot # None /\ sess[slot].state = "error")
    ~> (~loops \/ slot = None \/ sess[slot].state # "error")

Quiet == /\ main \in {"idle", "closed"} /\ ~shutting
         /\ \A t \in Restarter : job[t].at = "idle"

(* No recovery and no network rebind that was under way when the VPN was   *)
(* stopped leaves a native session behind.                                 *)
NoRelaunch == over /\ Quiet => slot = None

(* Without the hand-over a thread polls the inbound queue instead. *)
DrainThread == loops /\ ~HandoverWorks

(* While the VPN runs and no restart is under way, the packets the session *)
(* receives have a way to the TUN device: the native writer, or the thread *)
(* that polls the inbound queue.  TLC finds this violated: see section 7   *)
(* of the README.                                                          *)
InboundIsRead == loops /\ slot # None /\ Quiet => tunWriter \/ DrainThread
=============================================================================
