---------------------- MODULE WireGuardRegistryProofs ----------------------
(***************************************************************************)
(* Proofs about the WireGuard peer registry, for every number of devices,  *)
(* keys, host octets and every lease.                                      *)
(***************************************************************************)
EXTENDS WireGuardRegistry, NatFacts

(* One turn above the modulus: the circular search has wrapped. *)
LEMMA ModWrap ==
  ASSUME NEW a \in Nat, NEW s \in Nat, a < s
  PROVE  (a + s) % s = a
BY SMT

(* The candidates of allocate_peer_ip are host octets. *)
LEMMA CandidateIsHost ==
  ASSUME NEW start \in Host, NEW o \in 0..(Hosts - 1)
  PROVE  Candidate(start, o) \in Host
<1>1. start - 1 + o \in Nat /\ Hosts \in Nat /\ Hosts > 0
  BY HostsAssumption DEF Host
<1>2. ASSUME NEW x \in Nat PROVE x % Hosts \in 0..(Hosts - 1)
  BY <1>1
<1> QED BY <1>1, <1>2 DEF Candidate, Host

(* The search of allocate_peer_ip comes by every host octet. *)
LEMMA SearchCovers ==
  ASSUME NEW start \in Host, NEW h \in Host
  PROVE  \E o \in 0..(Hosts - 1) : Candidate(start, o) = h
<1>1. Hosts \in Nat /\ start \in Nat /\ h \in Nat /\ start >= 1 /\ h >= 1
      /\ start <= Hosts /\ h <= Hosts
  BY HostsAssumption DEF Host
<1>2. h - 1 \in Nat /\ h - 1 < Hosts
  BY <1>1
<1>3. CASE h >= start
  <2>1. (h - 1) % Hosts = h - 1
    BY <1>1, <1>2, ModSmall
  <2>2. h - start \in 0..(Hosts - 1) /\ start - 1 + (h - start) = h - 1
    BY <1>1, <1>3
  <2>3. Candidate(start, h - start) = ((h - 1) % Hosts) + 1
    BY <2>2, Zenon DEF Candidate
  <2> QED BY <1>1, <2>1, <2>2, <2>3
<1>4. CASE h < start
  <2>1. ((h - 1) + Hosts) % Hosts = h - 1
    BY <1>1, <1>2, ModWrap
  <2>2. /\ h - start + Hosts \in 0..(Hosts - 1)
        /\ start - 1 + (h - start + Hosts) = (h - 1) + Hosts
    BY <1>1, <1>4
  <2>3. Candidate(start, h - start + Hosts) = (((h - 1) + Hosts) % Hosts) + 1
    BY <2>2, Zenon DEF Candidate
  <2> QED BY <1>1, <2>1, <2>2, <2>3
<1> QED BY <1>1, <1>3, <1>4

(* allocate_peer_ip returns a host octet that no peer has. *)
LEMMA AllocationIsFree ==
  ASSUME NEW p, NEW start \in Host, FreeOffsets(p, start) # {}
  PROVE  /\ allocate_peer_ip(p, start) \in Host
         /\ allocate_peer_ip(p, start) \notin Addresses(p)
<1> DEFINE F == FreeOffsets(p, start)
<1>1. F \subseteq Nat /\ F \subseteq 0..(Hosts - 1) /\ F # {}
  BY HostsAssumption DEF FreeOffsets
<1>2. \E o \in F : \A q \in F : o <= q
  <2> HIDE DEF F
  <2> QED BY <1>1, LeastNatural
<1> DEFINE first == CHOOSE o \in F : \A q \in F : o <= q
<1>3. first \in F
  <2> HIDE DEF F
  <2> QED BY <1>2
<1>4. allocate_peer_ip(p, start) = Candidate(start, first)
  BY DEF allocate_peer_ip
<1>5. first \in 0..(Hosts - 1) /\ Candidate(start, first) \notin Addresses(p)
  BY <1>3 DEF FreeOffsets
<1> HIDE DEF first
<1> QED BY <1>4, <1>5, CandidateIsHost

(* allocate_peer_ip fails only when every host octet is leased. *)
LEMMA ExhaustedMeansFull ==
  ASSUME NEW p, NEW start \in Host, FreeOffsets(p, start) = {}
  PROVE  Host \subseteq Addresses(p)
<1> SUFFICES ASSUME NEW h \in Host PROVE h \in Addresses(p)
  OBVIOUS
<1>1. PICK o \in 0..(Hosts - 1) : Candidate(start, o) = h
  BY SearchCovers
<1> QED BY <1>1 DEF FreeOffsets

LEMMA NormalizedIsHost ==
  ASSUME NEW o \in 0..(Hosts + 1)
  PROVE  normalize_octet(o) \in Host
BY HostsAssumption DEF normalize_octet, Host

(* The largest octet of a registry, as load_peers_file computes it. *)
LEMMA MaxOctetInRange ==
  ASSUME NEW p, IsRegistry(p)
  PROVE  MaxOctet(p) \in 0..Hosts
<1>1. Addresses(p) \subseteq Host
  BY DEF IsRegistry, Addresses, WireGuardPeer
<1>2. CASE p = Empty
  BY <1>2, HostsAssumption DEF MaxOctet
<1>3. CASE p # Empty
  <2> DEFINE A == Addresses(p)
             S == {Hosts - h : h \in A}
  <2>1. A # {}
    <3>1. DOMAIN p # {}
      BY <1>3 DEF IsRegistry, Empty
    <3> QED BY <3>1 DEF Addresses
  <2>2. A \subseteq 1..Hosts
    BY <1>1 DEF Host
  <2> HIDE DEF A
  <2>3. S # {} /\ S \subseteq Nat
    <3>1. PICK a \in A : TRUE
      BY <2>1
    <3>2. Hosts - a \in S
      OBVIOUS
    <3>3. ASSUME NEW n \in S PROVE n \in Nat
      <4>1. PICK h \in A : n = Hosts - h
        OBVIOUS
      <4>2. h \in 1..Hosts
        BY <2>2
      <4> HIDE DEF S
      <4> QED BY <4>1, <4>2, HostsAssumption
    <3> QED BY <3>2, <3>3
  <2>4. PICK m \in S : \A n \in S : m <= n
    <3> HIDE DEF S
    <3> QED BY <2>3, LeastNatural
  <2>5. PICK h \in A : m = Hosts - h
    OBVIOUS
  <2>6. ASSUME NEW g \in A PROVE g <= h
    <3>1. Hosts - g \in S
      OBVIOUS
    <3>2. m <= Hosts - g
      BY <2>4, <3>1
    <3> QED BY <2>2, <2>5, <3>2, HostsAssumption
  <2>7. (CHOOSE x \in A : \A g \in A : g <= x) \in A
    BY <2>6
  <2>8. MaxOctet(p) \in A
    BY <1>3, <2>7 DEF MaxOctet, A
  <2>9. MaxOctet(p) \in 1..Hosts
    BY <2>2, <2>8
  <2> QED BY ONLY <2>9, HostsAssumption
<1> QED BY <1>2, <1>3

(* Dropping entries keeps a registry a registry. *)
LEMMA RestrictKeeps ==
  ASSUME NEW p, IsRegistry(p), Distinct(p), NEW S, S \subseteq DOMAIN p
  PROVE  /\ IsRegistry(Restrict(p, S)) /\ Distinct(Restrict(p, S))
         /\ DOMAIN Restrict(p, S) = S
         /\ \A d \in S : Restrict(p, S)[d] = p[d]
BY DEF IsRegistry, Distinct, Restrict

LEMMA PrunedFacts ==
  ASSUME NEW p, IsRegistry(p), Distinct(p)
  PROVE  /\ IsRegistry(Pruned(p)) /\ Distinct(Pruned(p))
         /\ DOMAIN Pruned(p) = unexpired(p)
         /\ \A d \in unexpired(p) : Pruned(p)[d] = p[d]
<1>1. unexpired(p) \subseteq DOMAIN p
  BY DEF unexpired
<1> QED BY <1>1, RestrictKeeps DEF Pruned

LEMMA LoadedFacts ==
  ASSUME NEW p, IsRegistry(p), Distinct(p), now \in Nat
  PROVE  /\ IsRegistry(Loaded(p)) /\ Distinct(Loaded(p))
         /\ \A d \in DOMAIN p : p[d].lease_expires_at > now
               => d \in DOMAIN Loaded(p) /\ Loaded(p)[d] = p[d]
<1> DEFINE leased == [d \in DOMAIN p |->
                        IF p[d].lease_expires_at = 0
                        THEN [p[d] EXCEPT !.lease_expires_at = now + PeerLease]
                        ELSE p[d]]
           S == {d \in DOMAIN p : leased[d].lease_expires_at > now}
<1>1. Loaded(p) = Restrict(leased, S)
  BY DEF Loaded
<1>2. ASSUME NEW d \in DOMAIN p
      PROVE  /\ leased[d] \in WireGuardPeer /\ leased[d].peer_ip = p[d].peer_ip
             /\ p[d].lease_expires_at > now => leased[d] = p[d]
  <2>1. p[d] \in WireGuardPeer
    BY DEF IsRegistry
  <2> QED BY <2>1, LeaseAssumption DEF WireGuardPeer
<1>3. DOMAIN leased = DOMAIN p /\ leased = [d \in DOMAIN p |-> leased[d]]
  OBVIOUS
<1>4. \A d \in S : leased[d].lease_expires_at > now
  OBVIOUS
<1>5. S \subseteq DOMAIN p /\ \A d \in DOMAIN p : leased[d].lease_expires_at > now => d \in S
  OBVIOUS
<1> HIDE DEF leased, S
<1>6. IsRegistry(leased) /\ Distinct(leased)
  BY <1>2, <1>3 DEF IsRegistry, Distinct
<1>7. /\ IsRegistry(Restrict(leased, S)) /\ Distinct(Restrict(leased, S))
      /\ DOMAIN Restrict(leased, S) = S
      /\ \A d \in S : Restrict(leased, S)[d] = leased[d]
  BY <1>3, <1>5, <1>6, RestrictKeeps
<1> QED BY <1>1, <1>2, <1>5, <1>7

(* The registry after a registration: everyone whose lease runs keeps the  *)
(* entry, and the caller has an address of its own.                        *)
LEMMA RegisteredFacts ==
  ASSUME WgTypeOK, AddressesUnique, NEW d \in Device, NEW k \in WgKey, CanServe(d)
  PROVE  /\ AddressFor(d, k) \in Host
         /\ IsRegistry(Registered(d, k)) /\ Distinct(Registered(d, k))
         /\ DOMAIN Registered(d, k) = unexpired(peers) \cup {d}
         /\ Registered(d, k)[d] = RefreshedPeer(d, k, AddressFor(d, k))
         /\ Registered(d, k)[d] \in WireGuardPeer
         /\ \A e \in unexpired(peers) : e # d => Registered(d, k)[e] = peers[e]
<1> DEFINE P == Pruned(peers)
           a == AddressFor(d, k)
           r == RefreshedPeer(d, k, a)
<1>1. /\ IsRegistry(P) /\ Distinct(P) /\ DOMAIN P = unexpired(peers)
      /\ \A e \in unexpired(peers) : P[e] = peers[e]
  BY PrunedFacts DEF WgTypeOK, AddressesUnique
<1>2. normalize_octet(next_octet) \in Host
  BY NormalizedIsHost, HostsAssumption DEF WgTypeOK, Host
<1>3. a \in Host /\ \A e \in DOMAIN P : e # d => P[e].peer_ip # a
  <2>1. CASE d \in unexpired(peers)
    <3>1. a = P[d].peer_ip /\ d \in DOMAIN P
      BY <1>1, <2>1 DEF AddressFor
    <3>2. P[d] \in WireGuardPeer
      BY <1>1, <3>1 DEF IsRegistry
    <3> HIDE DEF P, a
    <3> QED BY <1>1, <3>1, <3>2 DEF Distinct, WireGuardPeer
  <2>2. CASE d \notin unexpired(peers)
    <3>1. a = allocate_peer_ip(P, normalize_octet(next_octet))
      BY <2>2 DEF AddressFor
    <3>2. FreeOffsets(P, normalize_octet(next_octet)) # {}
      BY <2>2 DEF CanServe
    <3>3. a \in Host /\ a \notin Addresses(P)
      BY <1>2, <3>1, <3>2, AllocationIsFree
    <3> HIDE DEF P, a
    <3> QED BY <3>3 DEF Addresses
  <2> QED BY <2>1, <2>2
<1>4. r \in WireGuardPeer /\ r.peer_ip = a
  <2> HIDE DEF a
  <2> QED BY <1>3, LeaseAssumption DEF RefreshedPeer, WireGuardPeer, WgTypeOK
<1>5. /\ DOMAIN Registered(d, k) = DOMAIN P \cup {d}
      /\ Registered(d, k) = [e \in DOMAIN P \cup {d} |-> IF e = d THEN r ELSE P[e]]
  BY DEF Registered, Put
<1> HIDE DEF P, a, r
<1>6. Registered(d, k)[d] = r /\ \A e \in DOMAIN P : e # d => Registered(d, k)[e] = P[e]
  BY <1>5
<1>7. IsRegistry(Registered(d, k))
  BY <1>1, <1>4, <1>5 DEF IsRegistry
<1>8. Distinct(Registered(d, k))
  <2> SUFFICES ASSUME NEW e \in DOMAIN P \cup {d}, NEW f \in DOMAIN P \cup {d}, e # f
               PROVE  Registered(d, k)[e].peer_ip # Registered(d, k)[f].peer_ip
    BY <1>5 DEF Distinct
  <2> QED BY <1>1, <1>3, <1>4, <1>6 DEF Distinct
<1> QED BY <1>1, <1>3, <1>4, <1>5, <1>6, <1>7, <1>8 DEF a, r

(* The cursor stays a host octet. *)
LEMMA CursorStays ==
  ASSUME WgTypeOK, NEW d, NEW k, AddressFor(d, k) \in Host, AdvanceOctet(d, k)
  PROVE  next_octet' \in Host
<1>1. saturating_inc(AddressFor(d, k)) \in 0..(Hosts + 1)
  BY HostsAssumption DEF saturating_inc, Host
<1> QED BY <1>1, NormalizedIsHost DEF AdvanceOctet, WgTypeOK

(* Whatever a write leaves of a registry is a registry. *)
LEMMA WriteFacts ==
  ASSUME NEW p, IsRegistry(p), Distinct(p), IsRegistry(file), Distinct(file),
         readable \in BOOLEAN, intact \in BOOLEAN,
         \/ CutShort(p)
         \/ \E changed \in BOOLEAN : PersistIf(changed, p)
  PROVE  /\ IsRegistry(file') /\ Distinct(file')
         /\ readable' \in BOOLEAN /\ intact' \in BOOLEAN
<1>1. CASE CutShort(p)
  <2>1. readable' \in BOOLEAN /\ intact' \in BOOLEAN
    BY <1>1 DEF CutShort
  <2>2. ASSUME NEW D \in SUBSET DOMAIN p, file' = Restrict(p, D)
        PROVE  IsRegistry(file') /\ Distinct(file')
    BY <2>2, RestrictKeeps
  <2>3. CASE UNCHANGED file
    BY <2>1, <2>3 DEF IsRegistry, Distinct
  <2>4. (\E D \in SUBSET DOMAIN p : file' = Restrict(p, D)) \/ UNCHANGED file
    BY <1>1 DEF CutShort
  <2> QED BY <2>1, <2>2, <2>3, <2>4
<1>2. CASE \E changed \in BOOLEAN : PersistIf(changed, p)
  BY <1>2 DEF PersistIf, persist_locked, fileState
<1> QED BY <1>1, <1>2

-----------------------------------------------------------------------------
(* What holds whatever becomes of the writes. *)
SafeInv == WgTypeOK /\ AddressesUnique

LEMMA EmptyIsRegistry == IsRegistry(Empty) /\ Distinct(Empty)
BY DEF IsRegistry, Distinct, Empty

LEMMA SafeInit == WgInit => SafeInv
<1> SUFFICES ASSUME WgInit PROVE SafeInv
  OBVIOUS
<1>1. IsRegistry(file) /\ Distinct(file)
  <2>1. PICK D \in SUBSET Device : file \in [D -> Legacy]
    BY DEF WgInit
  <2>2. Legacy \subseteq WireGuardPeer
    BY DEF Legacy, WireGuardPeer
  <2> QED BY <2>1, <2>2 DEF IsRegistry, WgInit
<1>2. 1 \in Host
  BY HostsAssumption DEF Host
<1> QED BY <1>1, <1>2, EmptyIsRegistry DEF WgInit, SafeInv, WgTypeOK, AddressesUnique

LEMMA PutKeeps ==
  ASSUME NEW p, IsRegistry(p), NEW d \in Device, NEW r \in WireGuardPeer
  PROVE  IsRegistry(Put(p, d, r))
BY DEF IsRegistry, Put

LEMMA SafeStep == SafeInv /\ [WgNext]_wgVars => SafeInv'
<1> SUFFICES ASSUME SafeInv, [WgNext]_wgVars PROVE SafeInv'
  OBVIOUS
<1>1. WgTypeOK /\ AddressesUnique
  BY DEF SafeInv
<1>2. /\ IsRegistry(peers) /\ Distinct(peers) /\ IsRegistry(file) /\ Distinct(file)
      /\ IsRegistry(promised) /\ now \in Nat
      /\ next_octet \in Host /\ readable \in BOOLEAN /\ intact \in BOOLEAN
  BY <1>1 DEF WgTypeOK, AddressesUnique
<1>3. IsRegistry(Pruned(peers)) /\ Distinct(Pruned(peers))
  BY <1>2, PrunedFacts
<1>4. IsRegistry(Loaded(file)) /\ Distinct(Loaded(file))
  BY <1>2, LoadedFacts
<1>5. 1 \in Host
  BY HostsAssumption DEF Host
<1>6. ASSUME NEW d \in Device, NEW k \in WgKey,
             register_peer_lease(d, k) \/ RegisterWriteFails(d, k)
      PROVE  SafeInv'
  <2>1. CanServe(d) /\ AdvanceOctet(d, k) /\ peers' = Registered(d, k)
        /\ up' = up /\ now' = now /\ poisoned' \in BOOLEAN
    BY <1>1, <1>6 DEF register_peer_lease, RegisterWriteFails, WgTypeOK
  <2>2. /\ AddressFor(d, k) \in Host /\ Registered(d, k)[d] \in WireGuardPeer
        /\ IsRegistry(Registered(d, k)) /\ Distinct(Registered(d, k))
    BY <1>1, <2>1, RegisteredFacts
  <2>3. next_octet' \in Host
    BY <1>1, <2>1, <2>2, CursorStays
  <2>4. IsRegistry(file') /\ Distinct(file') /\ readable' \in BOOLEAN /\ intact' \in BOOLEAN
    BY <1>2, <1>6, <2>2, WriteFacts DEF register_peer_lease, RegisterWriteFails
  <2>5. IsRegistry(promised')
    BY <1>2, <1>6, <2>2, PutKeeps DEF register_peer_lease, RegisterWriteFails
  <2> QED BY <1>1, <2>1, <2>2, <2>3, <2>4, <2>5
          DEF SafeInv, WgTypeOK, AddressesUnique
<1>7. ASSUME NEW d \in Device, RegisterExhausted(d) PROVE SafeInv'
  <2>1. IsRegistry(file') /\ Distinct(file') /\ readable' \in BOOLEAN /\ intact' \in BOOLEAN
    BY <1>2, <1>3, <1>7, WriteFacts DEF RegisterExhausted
  <2> QED BY <1>1, <1>3, <1>7, <2>1
          DEF RegisterExhausted, SafeInv, WgTypeOK, AddressesUnique
<1>8. CASE all_peers \/ PruneWriteFails
  <2>1. IsRegistry(file') /\ Distinct(file') /\ readable' \in BOOLEAN /\ intact' \in BOOLEAN
    BY <1>2, <1>3, <1>8, WriteFacts DEF all_peers, PruneWriteFails
  <2> QED BY <1>1, <1>3, <1>8, <2>1
          DEF all_peers, PruneWriteFails, SafeInv, WgTypeOK, AddressesUnique
<1>9. CASE Crash
  <2>1. CASE UNCHANGED fileState
    BY <1>1, <1>5, <1>9, <2>1, EmptyIsRegistry
       DEF Crash, Stop, fileState, SafeInv, WgTypeOK, AddressesUnique
  <2>2. CASE CutShort(Pruned(peers))
    <3>1. IsRegistry(file') /\ Distinct(file') /\ readable' \in BOOLEAN /\ intact' \in BOOLEAN
      BY <1>2, <1>3, <2>2, WriteFacts
    <3> QED BY <1>1, <1>5, <1>9, <3>1, EmptyIsRegistry
            DEF Crash, Stop, SafeInv, WgTypeOK, AddressesUnique
  <2>3. ASSUME NEW d \in Device, NEW k \in WgKey, CanServe(d), CutShort(Registered(d, k))
        PROVE  SafeInv'
    <3>1. IsRegistry(Registered(d, k)) /\ Distinct(Registered(d, k))
      BY <1>1, <2>3, RegisteredFacts
    <3>2. IsRegistry(file') /\ Distinct(file') /\ readable' \in BOOLEAN /\ intact' \in BOOLEAN
      BY <1>2, <2>3, <3>1, WriteFacts
    <3> QED BY <1>1, <1>5, <1>9, <3>2, EmptyIsRegistry
            DEF Crash, Stop, SafeInv, WgTypeOK, AddressesUnique
  <2> QED BY <1>9, <2>1, <2>2, <2>3 DEF Crash
<1>10. CASE load_with_lease
  <2>1. IsRegistry(file') /\ Distinct(file') /\ readable' \in BOOLEAN /\ intact' \in BOOLEAN
    BY <1>2, <1>4, <1>10, WriteFacts DEF load_with_lease
  <2>2. saturating_inc(MaxOctet(Loaded(file))) \in 0..(Hosts + 1)
    BY <1>4, MaxOctetInRange, HostsAssumption DEF saturating_inc
  <2>3. next_octet' \in Host
    BY <1>10, <2>2, NormalizedIsHost DEF load_with_lease
  <2> QED BY <1>1, <1>4, <1>10, <2>1, <2>3
          DEF load_with_lease, SafeInv, WgTypeOK, AddressesUnique
<1>11. CASE LoadWriteFails
  <2>1. IsRegistry(file') /\ Distinct(file') /\ readable' \in BOOLEAN /\ intact' \in BOOLEAN
    BY <1>2, <1>4, <1>11, WriteFacts DEF LoadWriteFails
  <2> QED BY <1>1, <1>11, <2>1
          DEF LoadWriteFails, SafeInv, WgTypeOK, AddressesUnique, regState
<1>12. CASE Tick
  BY <1>1, <1>12 DEF Tick, SafeInv, WgTypeOK, AddressesUnique, regState, fileState
<1>13. CASE UNCHANGED wgVars
  BY <1>1, <1>13 DEF wgVars, SafeInv, WgTypeOK, AddressesUnique, regState, fileState
<1> QED BY <1>6, <1>7, <1>8, <1>9, <1>10, <1>11, <1>12, <1>13 DEF WgNext

LEMMA SafeInvariance == WgSpec => []SafeInv
BY SafeInit, SafeStep, PTL DEF WgSpec

(* The registry keeps its type, whatever becomes of its writes. *)
THEOREM WgTypeCorrect == WgSpec => []WgTypeOK
<1>1. SafeInv => WgTypeOK
  BY DEF SafeInv
<1> QED BY <1>1, SafeInvariance, PTL

(* No two devices are leased one address, for every number of addresses    *)
(* and devices, and whatever a crash leaves of the file.                   *)
THEOREM LeasesAreDisjoint == WgSpec => []AddressesUnique
<1>1. SafeInv => AddressesUnique
  BY DEF SafeInv
<1> QED BY <1>1, SafeInvariance, PTL

(* A running server takes no address away before its lease ends. *)
THEOREM LeasesRunTheirTerm == WgSpec => LeaseRunsItsTerm
<1> DEFINE Keeps == up /\ up' => \A d \in unexpired(peers) :
                                   /\ d \in DOMAIN peers'
                                   /\ peers'[d].peer_ip = peers[d].peer_ip
<1>1. SafeInv /\ [WgNext]_wgVars => [Keeps]_wgVars
  <2> SUFFICES ASSUME SafeInv, WgNext, up, up', NEW d \in unexpired(peers)
               PROVE  d \in DOMAIN peers' /\ peers'[d].peer_ip = peers[d].peer_ip
    OBVIOUS
  <2>1. WgTypeOK /\ AddressesUnique /\ IsRegistry(peers) /\ Distinct(peers)
    BY DEF SafeInv, WgTypeOK, AddressesUnique
  <2>2. d \in DOMAIN peers
    BY DEF unexpired
  <2>3. CASE peers' = Pruned(peers)
    BY <2>1, <2>3, PrunedFacts
  <2>4. CASE peers' = peers
    BY <2>2, <2>4
  <2>5. ASSUME NEW e \in Device, NEW k \in WgKey, CanServe(e), peers' = Registered(e, k)
        PROVE  d \in DOMAIN peers' /\ peers'[d].peer_ip = peers[d].peer_ip
    <3>1. /\ DOMAIN Registered(e, k) = unexpired(peers) \cup {e}
          /\ Registered(e, k)[e] = RefreshedPeer(e, k, AddressFor(e, k))
          /\ \A x \in unexpired(peers) : x # e => Registered(e, k)[x] = peers[x]
      BY <2>1, <2>5, RegisteredFacts
    <3>2. CASE d = e
      <4>1. AddressFor(e, k) = peers[d].peer_ip
        BY <3>2 DEF AddressFor
      <4> QED BY <2>5, <3>1, <3>2, <4>1 DEF RefreshedPeer
    <3> QED BY <2>5, <3>1, <3>2
  <2>6. CASE Crash \/ load_with_lease \/ LoadWriteFails
    BY <2>6 DEF Crash, Stop, load_with_lease, LoadWriteFails, regState
  <2>7. CASE Tick
    BY <2>4, <2>7 DEF Tick, regState
  <2>8. CASE all_peers \/ PruneWriteFails \/ \E e \in Device : RegisterExhausted(e)
    BY <2>3, <2>8 DEF all_peers, PruneWriteFails, RegisterExhausted
  <2>9. CASE \E e \in Device, k \in WgKey :
               register_peer_lease(e, k) \/ RegisterWriteFails(e, k)
    BY <2>5, <2>9 DEF register_peer_lease, RegisterWriteFails
  <2> QED BY <2>6, <2>7, <2>8, <2>9 DEF WgNext
<1> HIDE DEF Keeps
<1>2. LeaseRunsItsTerm <=> [][Keeps]_wgVars
  BY PTL DEF LeaseRunsItsTerm, Keeps
<1> QED BY <1>1, <1>2, SafeInvariance, PTL DEF WgSpec

-----------------------------------------------------------------------------
(* What holds while every write succeeds.  AssignmentsSurvive speaks of a  *)
(* running server only and is not inductive: the promise must be in the    *)
(* file, with the lease that was promised, while the server is down.       *)
PromisesInFile ==
  \A d \in DOMAIN promised :
    intact /\ promised[d].lease_expires_at > now
       => /\ d \in DOMAIN file
          /\ file[d].peer_ip = promised[d].peer_ip
          /\ file[d].lease_expires_at = promised[d].lease_expires_at

DurableInv == /\ SafeInv
              /\ FileMirrorsRegistry
              /\ PromisesInFile
              /\ PanicsOnlyWhenFull
              /\ poisoned => up

LEMMA DurableInit == WgInit => DurableInv
<1> SUFFICES ASSUME WgInit PROVE DurableInv
  OBVIOUS
<1>1. SafeInv
  BY SafeInit
<1> QED BY <1>1 DEF WgInit, DurableInv, FileMirrorsRegistry, PromisesInFile,
                    PanicsOnlyWhenFull, Empty

(* Pruning drops no promise that still holds. *)
LEMMA PruneKeepsPromises ==
  ASSUME IsRegistry(peers), Distinct(peers), now \in Nat, intact,
         PromisesInFile, file = peers,
         now' = now, promised' = promised, file' = Pruned(peers)
  PROVE  PromisesInFile'
<1> SUFFICES ASSUME NEW d \in DOMAIN promised, promised[d].lease_expires_at > now
             PROVE  /\ d \in DOMAIN file'
                    /\ file'[d].peer_ip = promised[d].peer_ip
                    /\ file'[d].lease_expires_at = promised[d].lease_expires_at
  BY DEF PromisesInFile
<1>1. /\ d \in DOMAIN peers
      /\ peers[d].peer_ip = promised[d].peer_ip
      /\ peers[d].lease_expires_at = promised[d].lease_expires_at
  BY DEF PromisesInFile
<1>2. d \in unexpired(peers)
  BY <1>1 DEF unexpired
<1> QED BY <1>1, <1>2, PrunedFacts

(* A step that leaves the writes intact found them intact and cut none. *)
LEMMA IntactStep ==
  ASSUME SafeInv, [WgNext]_wgVars, intact'
  PROVE  intact /\ \A p : ~ CutShort(p)
<1>1. \A p : ~ CutShort(p)
  BY DEF CutShort
<1>2. UNCHANGED intact
  <2>1. ASSUME NEW p, NEW changed, PersistIf(changed, p) PROVE UNCHANGED intact
    BY <2>1 DEF PersistIf, persist_locked, fileState
  <2>2. CASE \/ \E d \in Device, k \in WgKey : register_peer_lease(d, k)
             \/ \E d \in Device : RegisterExhausted(d)
             \/ all_peers \/ load_with_lease
    BY <2>1, <2>2 DEF register_peer_lease, RegisterExhausted, all_peers, load_with_lease
  <2>3. CASE Crash \/ Tick \/ UNCHANGED wgVars
    BY <1>1, <2>3 DEF Crash, Tick, wgVars, fileState
  <2>4. CASE \/ \E d \in Device, k \in WgKey : RegisterWriteFails(d, k)
             \/ PruneWriteFails \/ LoadWriteFails
    BY <1>1, <2>4 DEF RegisterWriteFails, PruneWriteFails, LoadWriteFails
  <2> QED BY <2>2, <2>3, <2>4 DEF WgNext
<1> QED BY <1>1, <1>2

(* Only a running server has a poisoned mutex. *)
LEMMA PoisonedStep ==
  ASSUME poisoned => up, [WgNext]_wgVars
  PROVE  poisoned' => up'
<1>1. CASE \/ \E d \in Device, k \in WgKey : register_peer_lease(d, k)
                                           \/ RegisterWriteFails(d, k)
           \/ \E d \in Device : RegisterExhausted(d)
           \/ all_peers \/ PruneWriteFails
  BY <1>1 DEF register_peer_lease, RegisterWriteFails, RegisterExhausted, all_peers,
              PruneWriteFails
<1>2. CASE Crash \/ load_with_lease \/ LoadWriteFails \/ Tick \/ UNCHANGED wgVars
  BY <1>2 DEF Crash, Stop, load_with_lease, LoadWriteFails, Tick, wgVars, regState
<1> QED BY <1>1, <1>2 DEF WgNext

LEMMA DurableStep == DurableInv /\ [WgNext]_wgVars => DurableInv'
<1> SUFFICES ASSUME DurableInv, [WgNext]_wgVars PROVE DurableInv'
  OBVIOUS
<1>0. SafeInv' /\ (poisoned' => up')
  BY SafeStep, PoisonedStep DEF DurableInv
<1> SUFFICES ASSUME intact' PROVE DurableInv'
  BY <1>0 DEF DurableInv, FileMirrorsRegistry, PromisesInFile, PanicsOnlyWhenFull
<1>1. /\ SafeInv /\ SafeInv' /\ WgTypeOK /\ AddressesUnique
      /\ FileMirrorsRegistry /\ PromisesInFile /\ PanicsOnlyWhenFull
      /\ (poisoned => up) /\ intact
  BY SafeStep, IntactStep DEF DurableInv, SafeInv
<1>2. /\ IsRegistry(peers) /\ Distinct(peers) /\ IsRegistry(file) /\ Distinct(file)
      /\ IsRegistry(promised) /\ now \in Nat /\ next_octet \in Host
      /\ up \in BOOLEAN /\ poisoned \in BOOLEAN
  BY <1>1 DEF WgTypeOK, AddressesUnique
<1>3. up => file = peers
  BY <1>1 DEF FileMirrorsRegistry
<1>4. ASSUME NEW p PROVE ~ CutShort(p)
  BY DEF CutShort
<1>5. ASSUME NEW d \in Device, NEW k \in WgKey, register_peer_lease(d, k)
      PROVE  DurableInv'
  <2> DEFINE R == Registered(d, k)
  <2>1. /\ up /\ ~ poisoned /\ CanServe(d) /\ peers' = R /\ up' = up
        /\ poisoned' = poisoned /\ now' = now /\ promised' = Put(promised, d, R[d])
        /\ PersistIf(R # peers, R)
    BY <1>5 DEF register_peer_lease
  <2>2. /\ DOMAIN R = unexpired(peers) \cup {d}
        /\ \A e \in unexpired(peers) : e # d => R[e] = peers[e]
    BY <1>1, <2>1, RegisteredFacts
  <2> HIDE DEF R
  <2>3. file' = R
    BY <1>3, <2>1 DEF PersistIf, persist_locked, fileState
  <2>4. PromisesInFile'
    <3> SUFFICES ASSUME NEW e \in DOMAIN promised', promised'[e].lease_expires_at > now
                 PROVE  /\ e \in DOMAIN R
                        /\ R[e].peer_ip = promised'[e].peer_ip
                        /\ R[e].lease_expires_at = promised'[e].lease_expires_at
      BY <2>1, <2>3 DEF PromisesInFile
    <3>1. CASE e = d
      BY <2>1, <2>2, <3>1 DEF Put
    <3>2. CASE e # d
      <4>1. e \in DOMAIN promised /\ promised'[e] = promised[e]
        BY <2>1, <3>2 DEF Put
      <4>2. /\ e \in DOMAIN peers
            /\ peers[e].peer_ip = promised[e].peer_ip
            /\ peers[e].lease_expires_at = promised[e].lease_expires_at
        BY <1>1, <1>3, <2>1, <4>1 DEF PromisesInFile
      <4>3. e \in unexpired(peers)
        BY <4>1, <4>2 DEF unexpired
      <4> QED BY <2>2, <3>2, <4>1, <4>2, <4>3
    <3> QED BY <3>1, <3>2
  <2> QED BY <1>1, <2>1, <2>3, <2>4
          DEF DurableInv, FileMirrorsRegistry, PanicsOnlyWhenFull
<1>6. CASE all_peers \/ \E d \in Device : RegisterExhausted(d)
  <2>1. /\ up /\ up' = up /\ peers' = Pruned(peers) /\ now' = now /\ promised' = promised
        /\ PersistIf(Pruned(peers) # peers, Pruned(peers))
    BY <1>6 DEF all_peers, RegisterExhausted
  <2>2. file' = Pruned(peers)
    BY <1>3, <2>1 DEF PersistIf, persist_locked, fileState
  <2>3. PromisesInFile'
    BY <1>1, <1>2, <1>3, <2>1, <2>2, PruneKeepsPromises
  <2>4. PanicsOnlyWhenFull'
    <3>1. CASE all_peers
      BY <3>1 DEF all_peers, PanicsOnlyWhenFull
    <3>2. ASSUME NEW d \in Device, RegisterExhausted(d)
          PROVE  Addresses(Pruned(peers)) = Host
      <4>1. FreeOffsets(Pruned(peers), normalize_octet(next_octet)) = {}
        BY <3>2 DEF RegisterExhausted, CanServe
      <4>2. normalize_octet(next_octet) \in Host
        BY <1>2, NormalizedIsHost, HostsAssumption DEF Host
      <4>3. Host \subseteq Addresses(Pruned(peers))
        BY <4>1, <4>2, ExhaustedMeansFull
      <4>4. IsRegistry(Pruned(peers))
        BY <1>2, PrunedFacts
      <4>5. Addresses(Pruned(peers)) \subseteq Host
        BY <4>4 DEF Addresses, IsRegistry, WireGuardPeer
      <4> QED BY <4>3, <4>5
    <3> QED BY <1>6, <2>1, <3>1, <3>2 DEF PanicsOnlyWhenFull
  <2> QED BY <1>1, <2>1, <2>2, <2>3, <2>4 DEF DurableInv, FileMirrorsRegistry
<1>7. CASE Crash
  <2>1. UNCHANGED fileState /\ up' = FALSE /\ poisoned' = FALSE
        /\ now' = now /\ promised' = promised
    BY <1>4, <1>7 DEF Crash, Stop
  <2> QED BY <1>1, <2>1 DEF DurableInv, FileMirrorsRegistry, PromisesInFile,
                            PanicsOnlyWhenFull, fileState
<1>8. CASE load_with_lease
  <2>1. /\ peers' = Loaded(file) /\ PersistIf(Loaded(file) # file, Loaded(file))
        /\ now' = now /\ promised' = promised
    BY <1>8 DEF load_with_lease
  <2>2. file' = Loaded(file)
    BY <2>1 DEF PersistIf, persist_locked, fileState
  <2>3. ~ poisoned'
    BY <1>1, <1>8 DEF load_with_lease
  <2>4. PromisesInFile'
    <3>1. \A d \in DOMAIN file : file[d].lease_expires_at > now
             => d \in DOMAIN Loaded(file) /\ Loaded(file)[d] = file[d]
      BY <1>2, LoadedFacts
    <3> QED BY <1>1, <2>1, <2>2, <3>1 DEF PromisesInFile
  <2> QED BY <1>1, <2>1, <2>2, <2>3, <2>4
          DEF DurableInv, FileMirrorsRegistry, PanicsOnlyWhenFull
<1>9. CASE Tick
  <2>1. UNCHANGED <<regState, fileState, promised>> /\ now' = now + 1
    BY <1>9 DEF Tick
  <2>2. PromisesInFile'
    <3> SUFFICES ASSUME NEW d \in DOMAIN promised, promised[d].lease_expires_at > now + 1
                 PROVE  /\ d \in DOMAIN file
                        /\ file[d].peer_ip = promised[d].peer_ip
                        /\ file[d].lease_expires_at = promised[d].lease_expires_at
      BY <2>1 DEF PromisesInFile, fileState
    <3>1. promised[d].lease_expires_at \in Nat
      BY <1>2 DEF IsRegistry, WireGuardPeer
    <3>2. promised[d].lease_expires_at > now
      BY <1>2, <3>1
    <3> QED BY <1>1, <3>2 DEF PromisesInFile
  <2> QED BY <1>1, <2>1, <2>2
          DEF DurableInv, FileMirrorsRegistry, PanicsOnlyWhenFull, regState, fileState
<1>10. CASE UNCHANGED wgVars
  BY <1>1, <1>10 DEF wgVars, DurableInv, FileMirrorsRegistry, PromisesInFile,
                            PanicsOnlyWhenFull, regState, fileState, Addresses
<1>11. CASE \/ \E d \in Device, k \in WgKey : RegisterWriteFails(d, k)
            \/ PruneWriteFails \/ LoadWriteFails
  BY <1>4, <1>11 DEF RegisterWriteFails, PruneWriteFails, LoadWriteFails
<1> QED BY <1>5, <1>6, <1>7, <1>8, <1>9, <1>10, <1>11 DEF WgNext

LEMMA DurableInvariance == WgSpec => []DurableInv
BY DurableInit, DurableStep, PTL DEF WgSpec

(* While writes succeed, a device keeps the address it was told until the  *)
(* lease it was told ends, however often the server restarts in between.   *)
THEOREM AssignmentsSurviveRestarts == WgSpec => []AssignmentsSurvive
<1>1. DurableInv => AssignmentsSurvive
  BY DEF DurableInv, AssignmentsSurvive, PromisesInFile, FileMirrorsRegistry
<1> QED BY <1>1, DurableInvariance, PTL

(* While writes succeed, the file of a running server is its registry. *)
THEOREM FileIsCurrent == WgSpec => []FileMirrorsRegistry
<1>1. DurableInv => FileMirrorsRegistry
  BY DEF DurableInv
<1> QED BY <1>1, DurableInvariance, PTL

(* While writes succeed, only a full subnet makes a registration panic. *)
THEOREM SearchMissesNoAddress == WgSpec => []PanicsOnlyWhenFull
<1>1. DurableInv => PanicsOnlyWhenFull
  BY DEF DurableInv
<1> QED BY <1>1, DurableInvariance, PTL
=============================================================================
