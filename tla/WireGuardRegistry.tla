------------------------- MODULE WireGuardRegistry -------------------------
(***************************************************************************)
(* WireGuardPeerRegistry of bonded-server/src/wireguard.rs: the addresses  *)
(* leased to WireGuard peers, kept in memory under one mutex and written   *)
(* to a TOML file after every change, across restarts of the server.  A    *)
(* call holds the mutex from its first to its last statement and is one    *)
(* action.  A panic in a call poisons the mutex, and every later call      *)
(* panics and changes nothing.                                             *)
(*                                                                         *)
(* Abstracted: an address is its last octet, and the clock counts steps of *)
(* the model and is not set back.                                          *)
(***************************************************************************)
EXTENDS Naturals, FiniteSets, Maps

CONSTANTS Device,        \* device public keys
          WgKey,         \* WireGuard public keys
          Hosts,         \* usable host octets: 254
          PeerLease,     \* peer_lease
          MaxTime        \* bound: the last second of a behaviour

ASSUME HostsAssumption == Hosts \in Nat \ {0}
ASSUME LeaseAssumption == PeerLease \in Nat /\ MaxTime \in Nat

VARIABLES up,            \* the server runs
          peers,         \* device -> WireGuardPeer
          next_octet,
          poisoned,      \* a call panicked while it held the mutex
          file,          \* the persisted peers
          readable,      \* the file parses
          intact,        \* history: no write has failed or was cut short
          now,           \* unix_timestamp_now()
          promised       \* history: device -> its last answer

regState == <<up, peers, next_octet, poisoned>>
fileState == <<file, readable, intact>>
wgVars == <<regState, fileState, now, promised>>

Host == 1..Hosts

WireGuardPeer == [wg_public_key : WgKey, peer_ip : Host, lease_expires_at : Nat]

IsRegistry(p) == /\ DOMAIN p \subseteq Device
                 /\ p \in [DOMAIN p -> WireGuardPeer]

Addresses(p) == {p[d].peer_ip : d \in DOMAIN p}

Distinct(p) == \A d, e \in DOMAIN p : p[d].peer_ip = p[e].peer_ip => d = e

-----------------------------------------------------------------------------
(* The octet is a u8: 255, here Hosts + 1, is where saturating_add stops. *)
saturating_inc(octet) == IF octet = Hosts + 1 THEN octet ELSE octet + 1

normalize_octet(octet) == IF octet \in {0, Hosts + 1} THEN 1 ELSE octet

Candidate(start, offset) == ((start - 1 + offset) % Hosts) + 1

(* Seeded fault: the search stops one candidate early. *)
FreeOffsetsButLast(p, start) ==
  {offset \in 0..(Hosts - 1) : /\ offset # Hosts - 1
                               /\ Candidate(start, offset) \notin Addresses(p)}

FreeOffsets(p, start) ==
  {offset \in 0..(Hosts - 1) : Candidate(start, offset) \notin Addresses(p)}

(* Seeded fault: the next octet is taken without looking who has it. *)
allocate_next(p, start) == Candidate(start, 0)

(* allocate_peer_ip, when some offset is free: the first one wins. *)
allocate_peer_ip(p, start) ==
  Candidate(start, CHOOSE o \in FreeOffsets(p, start) :
                     \A q \in FreeOffsets(p, start) : o <= q)

(* Seeded fault: a lease is over one second early. *)
unexpired_early(p) ==
  {d \in DOMAIN p : p[d].lease_expires_at = 0 \/ p[d].lease_expires_at > now + 1}

unexpired(p) ==
  {d \in DOMAIN p : p[d].lease_expires_at = 0 \/ p[d].lease_expires_at > now}

Pruned(p) == Restrict(p, unexpired(p))

(* load_peers_file: entries without a lease get one, expired ones go. *)
Loaded(p) ==
  LET leased == [d \in DOMAIN p |->
                   IF p[d].lease_expires_at = 0
                   THEN [p[d] EXCEPT !.lease_expires_at = now + PeerLease]
                   ELSE p[d]]
  IN  Restrict(leased, {d \in DOMAIN p : leased[d].lease_expires_at > now})

MaxOctet(p) == IF p = Empty THEN 0
               ELSE CHOOSE h \in Addresses(p) : \A g \in Addresses(p) : g <= h

-----------------------------------------------------------------------------
(* An older version left a file without leases, or there is no file. *)
Legacy == [wg_public_key : WgKey, peer_ip : Host, lease_expires_at : {0}]

WgInit ==
  /\ up = FALSE
  /\ peers = Empty
  /\ next_octet = 1
  /\ poisoned = FALSE
  /\ file \in UNION {[D -> Legacy] : D \in SUBSET Device}
  /\ Distinct(file)
  /\ readable = TRUE
  /\ intact = TRUE
  /\ now = 1
  /\ promised = Empty

persist_locked(p) == file' = p /\ readable' = TRUE /\ UNCHANGED intact

PersistIf(changed, p) ==
  IF changed THEN persist_locked(p) ELSE UNCHANGED fileState

(* What a write of p leaves when it is cut short: fs::write truncates the  *)
(* file first, and an entry is written whole or the file does not parse.   *)
CutShort(p) ==
  /\ intact' = FALSE
  /\ \/ readable' = TRUE /\ \E D \in SUBSET DOMAIN p : file' = Restrict(p, D)
     \/ readable' = FALSE /\ UNCHANGED file

(* The peer the registry keeps for d after a call for d and k. *)
RefreshedPeer(d, k, ip) ==
  [wg_public_key |-> k, peer_ip |-> ip, lease_expires_at |-> now + PeerLease]

(* Seeded fault: a rotated key moves the device to another address. *)
AddressMovedOnRotation(d, k) ==
  IF /\ d \in unexpired(peers)
     /\ peers[d].wg_public_key = k \/ Addresses(Pruned(peers)) = Host
  THEN peers[d].peer_ip
  ELSE allocate_peer_ip(Pruned(peers), normalize_octet(next_octet))

AddressFor(d, k) ==
  IF d \in unexpired(peers) THEN peers[d].peer_ip
  ELSE allocate_peer_ip(Pruned(peers), normalize_octet(next_octet))

CanServe(d) == \/ d \in unexpired(peers)
               \/ FreeOffsets(Pruned(peers), normalize_octet(next_octet)) # {}

Registered(d, k) ==
  Put(Pruned(peers), d, RefreshedPeer(d, k, AddressFor(d, k)))

AdvanceOctet(d, k) ==
  next_octet' = IF d \in unexpired(peers) THEN next_octet
                ELSE normalize_octet(saturating_inc(AddressFor(d, k)))

(* register_peer_lease: a known device keeps its address, with the new key *)
(* and lease; another one gets the next free address.                      *)
register_peer_lease(d, k) ==
  /\ up /\ ~ poisoned /\ CanServe(d)
  /\ peers' = Registered(d, k)
  /\ AdvanceOctet(d, k)
  /\ PersistIf(Registered(d, k) # peers, Registered(d, k))
  /\ promised' = Put(promised, d, Registered(d, k)[d])
  /\ UNCHANGED <<up, poisoned, now>>

(* No address is free: the caller's expect panics with the mutex held. *)
RegisterExhausted(d) ==
  /\ up /\ ~ poisoned /\ ~ CanServe(d)
  /\ peers' = Pruned(peers)
  /\ PersistIf(Pruned(peers) # peers, Pruned(peers))
  /\ poisoned' = TRUE
  /\ UNCHANGED <<up, next_octet, now, promised>>

(* all_peers and find_by_wg_key prune before they read. *)
all_peers ==
  /\ up /\ ~ poisoned
  /\ peers' = Pruned(peers)
  /\ PersistIf(Pruned(peers) # peers, Pruned(peers))
  /\ UNCHANGED <<up, next_octet, poisoned, now, promised>>

-----------------------------------------------------------------------------
(* The write of a registration fails: the caller's expect panics, with the *)
(* registration in memory and not in the file.                             *)
RegisterWriteFails(d, k) ==
  /\ up /\ ~ poisoned /\ CanServe(d)
  /\ Registered(d, k) # peers
  /\ peers' = Registered(d, k)
  /\ AdvanceOctet(d, k)
  /\ CutShort(Registered(d, k))
  /\ poisoned' = TRUE
  /\ UNCHANGED <<up, now, promised>>

(* The write of a prune fails, in any of the three calls. *)
PruneWriteFails ==
  /\ up /\ ~ poisoned
  /\ Pruned(peers) # peers
  /\ peers' = Pruned(peers)
  /\ CutShort(Pruned(peers))
  /\ poisoned' = TRUE
  /\ UNCHANGED <<up, next_octet, now, promised>>

(* The process ends; memory is lost. *)
Stop == /\ up' = FALSE
        /\ peers' = Empty
        /\ next_octet' = 1
        /\ poisoned' = FALSE
        /\ UNCHANGED <<now, promised>>

(* The process ends between two calls or in the write of one. *)
Crash ==
  /\ up
  /\ Stop
  /\ \/ UNCHANGED fileState
     \/ /\ ~ poisoned
        /\ \/ Pruned(peers) # peers /\ CutShort(Pruned(peers))
           \/ \E d \in Device, k \in WgKey :
                /\ CanServe(d)
                /\ Registered(d, k) # peers
                /\ CutShort(Registered(d, k))

(* load_with_lease.  A file that does not parse keeps the server down. *)
load_with_lease ==
  /\ ~ up /\ readable
  /\ up' = TRUE
  /\ peers' = Loaded(file)
  /\ next_octet' = normalize_octet(saturating_inc(MaxOctet(Loaded(file))))
  /\ PersistIf(Loaded(file) # file, Loaded(file))
  /\ UNCHANGED <<poisoned, now, promised>>

(* The write of the normalized file fails; main returns the error. *)
LoadWriteFails ==
  /\ ~ up /\ readable
  /\ Loaded(file) # file
  /\ CutShort(Loaded(file))
  /\ UNCHANGED <<regState, now, promised>>

Tick == /\ now < MaxTime
        /\ now' = now + 1
        /\ UNCHANGED <<regState, fileState, promised>>

WgNext ==
  \/ \E d \in Device, k \in WgKey : register_peer_lease(d, k) \/ RegisterWriteFails(d, k)
  \/ \E d \in Device : RegisterExhausted(d)
  \/ all_peers \/ PruneWriteFails
  \/ Crash \/ load_with_lease \/ LoadWriteFails
  \/ Tick

WgSpec == WgInit /\ [][WgNext]_wgVars

-----------------------------------------------------------------------------
WgTypeOK ==
  /\ {up, poisoned, readable, intact} \subseteq BOOLEAN
  /\ IsRegistry(peers) /\ IsRegistry(file) /\ IsRegistry(promised)
  /\ next_octet \in Host
  /\ now \in Nat

(* No address is leased to two devices, in memory or in the file, however  *)
(* leases end, addresses are reused and the allocation cursor is rebuilt   *)
(* at a restart (allocate_peer_ip, load_peers_file).                       *)
AddressesUnique == Distinct(peers) /\ Distinct(file)

(* While every write succeeds, the file holds exactly the registry: no     *)
(* change of a key, a lease or the set of peers stays in memory only.      *)
FileMirrorsRegistry == up /\ intact => file = peers

(* While every write succeeds, a device that was told an address keeps it  *)
(* until the lease it was told ends, across restarts of the server: it is  *)
(* still registered, with that address (implementation-plan.md: WireGuard  *)
(* peer assignments survive server restart).                               *)
AssignmentsSurvive ==
  \A d \in DOMAIN promised :
    up /\ intact /\ promised[d].lease_expires_at > now
       => /\ d \in DOMAIN peers
          /\ peers[d].peer_ip = promised[d].peer_ip

(* A running server takes no address away before its lease ends, whatever  *)
(* becomes of its writes: pruning, reuse and key rotation leave the leases *)
(* that run alone.                                                         *)
LeaseRunsItsTerm ==
  [][up /\ up' => \A d \in unexpired(peers) :
                    /\ d \in DOMAIN peers'
                    /\ peers'[d].peer_ip = peers[d].peer_ip]_wgVars

(* While every write succeeds, the registry panics only for want of an     *)
(* address: the circular search of allocate_peer_ip misses none.           *)
PanicsOnlyWhenFull == poisoned /\ intact => Addresses(peers) = Host
=============================================================================
