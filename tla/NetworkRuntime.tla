--------------------------- MODULE NetworkRuntime ---------------------------
(***************************************************************************)
(* What a server in TUN mode changes on its host (network_runtime.rs of    *)
(* bonded-server): setup turns IPv4 forwarding on and adds the three       *)
(* iptables rules that are not there yet; Drop takes out those it added    *)
(* and writes the old forwarding value back.  Each command may fail, and   *)
(* the process may be killed between any two of them.  The TUN device goes *)
(* with the process and is left out.                                       *)
(***************************************************************************)
EXTENDS Naturals, Sequences

VARIABLES rules,            \* the rules iptables holds
          ip_forward,       \* /proc/sys/net/ipv4/ip_forward
          runtime,          \* setup, the NetworkRuntime and its Drop
          found,            \* history: the host before the first start
          cut               \* history: undoing a change failed, or was not tried

networkVars == <<rules, ip_forward, runtime, found, cut>>

(* In the order of ensure_iptables_rules. *)
Rules == <<"masquerade", "forward_out", "forward_in">>

Rule == {"masquerade", "forward_out", "forward_in"}

(* next: the rule that ensure_iptables_rules, or Drop, has come to. *)
Runtime == [at : {"none", "device", "rules", "ready", "drop"}, next : 0..4,
            installed : SUBSET Rule, original_ip_forward : 0..1]

NoRuntime == [at |-> "none", next |-> 1, installed |-> {}, original_ip_forward |-> 0]

NetworkInit == /\ rules \in SUBSET Rule
               /\ ip_forward \in 0..1
               /\ runtime = NoRuntime
               /\ found = [rules |-> rules, ip_forward |-> ip_forward]
               /\ cut = FALSE

NetworkDown == runtime.at = "none"

NetworkReady == runtime.at = "ready"

(* The tools are there, the device is created and configured, the egress   *)
(* interface is known.                                                     *)
setup ==
  /\ runtime.at = "none"
  /\ runtime' = [runtime EXCEPT !.at = "device"]
  /\ UNCHANGED <<rules, ip_forward, found, cut>>

(* One of these is missing, or forwarding cannot be turned on: setup       *)
(* returns before there is a NetworkRuntime to drop.                       *)
SetupFails ==
  /\ runtime.at = "device"
  /\ runtime' = NoRuntime
  /\ UNCHANGED <<rules, ip_forward, found, cut>>

EnableForwarding ==
  /\ runtime.at = "device"
  /\ runtime' = [runtime EXCEPT !.at = "rules", !.original_ip_forward = ip_forward]
  /\ ip_forward' = 1
  /\ UNCHANGED <<rules, found, cut>>

AfterRule == [runtime EXCEPT !.at = IF runtime.next = 3 THEN "ready" ELSE "rules",
                             !.next = @ + 1]

(* Seeded fault: a rule that was there counts as installed. *)
ensure_rule_claims ==
  LET rule == Rules[runtime.next]
  IN  /\ runtime.at = "rules"
      /\ rules' = rules \cup {rule}
      /\ runtime' = [AfterRule EXCEPT !.installed = @ \cup {rule}]
      /\ UNCHANGED <<ip_forward, found, cut>>

ensure_rule ==
  LET rule == Rules[runtime.next]
  IN  /\ runtime.at = "rules"
      /\ rules' = rules \cup {rule}
      /\ runtime' = [AfterRule EXCEPT !.installed = @ \cup ({rule} \ rules)]
      /\ UNCHANGED <<ip_forward, found, cut>>

(* Drop begins: setup returns an error, or main returns. *)
BeginDrop ==
  /\ runtime' = [runtime EXCEPT !.at = "drop", !.next = 3]
  /\ UNCHANGED <<rules, ip_forward, found, cut>>

EnsureRuleFails == runtime.at = "rules" /\ BeginDrop

(* The rules come out in the opposite order; a failure is ignored. *)
remove_rule ==
  LET rule == Rules[runtime.next]
      mine == runtime.installed \cap {rule}
  IN  /\ runtime.at = "drop" /\ runtime.next > 0
      /\ runtime' = [runtime EXCEPT !.next = @ - 1]
      /\ \/ rules' = rules \ mine /\ cut' = cut
         \/ mine \cap rules # {} /\ rules' = rules /\ cut' = TRUE
      /\ UNCHANGED <<ip_forward, found>>

(* So is a value that cannot be written back. *)
RestoreForwarding ==
  /\ runtime.at = "drop" /\ runtime.next = 0
  /\ \/ ip_forward' = runtime.original_ip_forward /\ cut' = cut
     \/ ip_forward # runtime.original_ip_forward /\ ip_forward' = ip_forward /\ cut' = TRUE
  /\ runtime' = NoRuntime
  /\ UNCHANGED <<rules, found>>

DropStep == remove_rule \/ RestoreForwarding

(* The process is killed: a signal other than ctrl-c, or a crash. *)
NetworkKilled ==
  /\ cut' = (cut \/ runtime.at \in {"rules", "ready", "drop"})
  /\ runtime' = NoRuntime
  /\ UNCHANGED <<rules, ip_forward, found>>

-----------------------------------------------------------------------------
NetworkTypeOK == /\ rules \subseteq Rule /\ ip_forward \in 0..1
                 /\ runtime \in Runtime

(* The rules that were on the host before the first start are never taken  *)
(* out; and once a server has ended, after a setup that failed at any of   *)
(* its commands or after a full life, the host is as it was found, unless  *)
(* a server was killed or Drop was refused a change.  Every variable keeps *)
(* its type.                                                               *)
HostRestored ==
  /\ NetworkTypeOK
  /\ found.rules \subseteq rules
  /\ NetworkDown /\ ~cut => rules = found.rules /\ ip_forward = found.ip_forward

=============================================================================
