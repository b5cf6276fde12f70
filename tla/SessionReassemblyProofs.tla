---------------------- MODULE SessionReassemblyProofs ----------------------
(***************************************************************************)
(* Proofs about SessionReassembly, for every payload set, connection id    *)
(* and sequence space, as long as fewer packets are numbered than there    *)
(* are sequence numbers.                                                   *)
(***************************************************************************)
EXTENDS SessionReassembly, NatFacts

(* The invariant the proofs go by: counters equal the lengths of the       *)
(* histories, and a frame on the wire carries the payload of its number.   *)
Counters == /\ Len(sent) <= MaxFrames
            /\ next_tx = Len(sent)
            /\ next_rx = Len(delivered)

WireFaithful == \A f \in wire : /\ f.connection_id = ConnId
                                /\ f.sequence < Len(sent)
                                /\ f.payload = sent[f.sequence + 1]

SeenWasSent == \A s \in seen : s < Len(sent)

IInv == /\ TypeOK
        /\ Counters
        /\ WireFaithful
        /\ SeenWasSent
        /\ InOrderDelivery
        /\ ReleasesAllItCan
        /\ BufferHoldsOnlyTheGapped

USE SeqSpaceAssumption, MaxFramesAssumption, ConnIdAssumption

(* The drain loop of ingest_inbound stops at the first gap: the run it     *)
(* removes is contiguous and the sequence after it is not buffered.        *)
LEMMA RunLengthStopsAtGap ==
  ASSUME NEW b, DOMAIN b \subseteq 0..(MaxFrames - 1),
         NEW n \in 0..MaxFrames
  PROVE  /\ RunLength(b, n) \in Nat
         /\ n + RunLength(b, n) <= MaxFrames
         /\ \A j \in 0..(RunLength(b, n) - 1) : n + j \in DOMAIN b
         /\ n + RunLength(b, n) \notin DOMAIN b
<1> DEFINE Gaps == {k \in Nat : n + k \notin DOMAIN b}
           Stops(k) == /\ \A j \in 0..(k - 1) : (n + j) % SeqSpace \in DOMAIN b
                       /\ (n + k) % SeqSpace \notin DOMAIN b
<1>1. MaxFrames - n \in Gaps
  OBVIOUS
<1>2. PICK k \in Gaps : \A m \in Gaps : k <= m
  <2> HIDE DEF Gaps
  <2>1. Gaps # {}
    BY <1>1
  <2>2. Gaps \subseteq Nat
    BY DEF Gaps
  <2> QED BY <2>1, <2>2, LeastNatural
<1>3. k \in 0..SeqSpace /\ n + k <= MaxFrames
  BY <1>1, <1>2
<1>4. \A j \in 0..(k - 1) : n + j \in DOMAIN b
  BY <1>2, <1>3
<1>5. Stops(k)
  <2>1. \A j \in 0..k : (n + j) % SeqSpace = n + j
    BY <1>3, ModSmall
  <2>2. ASSUME NEW j \in 0..(k - 1) PROVE (n + j) % SeqSpace \in DOMAIN b
    <3>1. j \in 0..k
      BY <1>3
    <3>2. n + j \in DOMAIN b
      BY <1>4
    <3> QED BY <2>1, <3>1, <3>2
  <2>3. n + k \notin DOMAIN b
    BY <1>2
  <2> QED BY <2>1, <2>2, <2>3, <1>3
<1>6. /\ RunLength(b, n) \in 0..SeqSpace
      /\ Stops(RunLength(b, n))
  <2> HIDE DEF Stops
  <2>1. \E m \in 0..SeqSpace : Stops(m)
    BY <1>3, <1>5
  <2>2. RunLength(b, n) = CHOOSE m \in 0..SeqSpace : Stops(m)
    BY DEF RunLength, Stops
  <2> QED BY <2>1, <2>2
<1> DEFINE r == RunLength(b, n)
<1> HIDE DEF r
<1>7. r \in 0..SeqSpace /\ Stops(r)
  BY <1>6 DEF r
<1>8. r <= k
  <2> SUFFICES ASSUME r > k PROVE FALSE
    BY <1>7, <1>3
  <2>1. k \in 0..(r - 1)
    BY <1>3, <1>7
  <2>2. (n + k) % SeqSpace \in DOMAIN b
    BY <2>1, <1>7
  <2> QED BY <2>2, <1>5
<1>9. \A j \in 0..r : (n + j) % SeqSpace = n + j
  BY <1>3, <1>7, <1>8, ModSmall
<1> QED BY <1>3, <1>7, <1>8, <1>9 DEF r

-----------------------------------------------------------------------------
LEMMA InitIInv == Init => IInv
BY DEF Init, IInv, TypeOK, Counters, WireFaithful, SeenWasSent, Sequence,
       InOrderDelivery, ReleasesAllItCan, BufferHoldsOnlyTheGapped

(* Numbering a packet leaves the receiver alone and extends the history.   *)
LEMMA CreateIInv ==
  ASSUME IInv, NEW p \in Payload, create_outbound_frame(p)
  PROVE  IInv'
<1> USE DEF IInv, Counters
<1>1. /\ sent' = Append(sent, p)
      /\ Len(sent') = Len(sent) + 1
      /\ sent' \in Seq(Payload)
      /\ \A i \in 1..Len(sent) : sent'[i] = sent[i]
      /\ sent'[Len(sent) + 1] = p
  BY DEF create_outbound_frame, TypeOK
<1>2. /\ Len(sent') <= MaxFrames
      /\ next_tx' = Len(sent')
  <2>1. Len(sent) \in Nat /\ Len(sent) + 1 <= MaxFrames
    BY DEF create_outbound_frame, TypeOK
  <2>2. (Len(sent) + 1) % SeqSpace = Len(sent) + 1
    BY <2>1, ModSmall
  <2>3. next_tx' = Len(sent) + 1
    BY <2>2 DEF create_outbound_frame
  <2> QED BY <1>1, <2>1, <2>3
<1>3. UNCHANGED <<next_rx, reorder_buffer, delivered, seen>>
  BY DEF create_outbound_frame, rxVars
<1>4. WireFaithful' /\ wire' \subseteq SessionFrame
  <2> DEFINE g == [connection_id |-> ConnId, sequence |-> next_tx, payload |-> p]
  <2>1. wire' = wire \cup {g}
    BY DEF create_outbound_frame
  <2>2. g \in SessionFrame
    BY DEF SessionFrame, TypeOK
  <2>3. ASSUME NEW f \in wire
        PROVE  /\ f.connection_id = ConnId
               /\ f.sequence < Len(sent')
               /\ f.payload = sent'[f.sequence + 1]
    BY <1>1 DEF WireFaithful, TypeOK, SessionFrame, Sequence
  <2>4. /\ g.connection_id = ConnId
        /\ g.sequence < Len(sent')
        /\ g.payload = sent'[g.sequence + 1]
    BY <1>1 DEF TypeOK
  <2>5. wire' \subseteq SessionFrame
    BY <2>1, <2>2 DEF TypeOK
  <2> HIDE DEF g
  <2> QED BY <2>1, <2>3, <2>4, <2>5 DEF WireFaithful
<1>5. TypeOK'
  BY <1>1, <1>2, <1>3, <1>4 DEF TypeOK, Sequence
<1>6. SeenWasSent'
  BY <1>1, <1>3 DEF SeenWasSent, TypeOK, Sequence
<1>7. InOrderDelivery'
  BY <1>1, <1>3 DEF InOrderDelivery, TypeOK
<1>8. ReleasesAllItCan'
  BY <1>3 DEF ReleasesAllItCan
<1>9. BufferHoldsOnlyTheGapped'
  BY <1>1, <1>3 DEF BufferHoldsOnlyTheGapped, SeenWasSent, TypeOK, Sequence
<1> QED BY <1>1, <1>2, <1>3, <1>4, <1>5, <1>6, <1>7, <1>8, <1>9

(* A rejected frame is of another connection, or was released before.      *)
LEMMA RejectedIInv ==
  ASSUME IInv, NEW f \in wire \cup ForeignFrame, ingest_rejected(f)
  PROVE  IInv'
<1> USE DEF IInv, Counters
<1>1. seen' = seen
  <2>1. CASE f.connection_id # ConnId
    BY <2>1 DEF ingest_rejected
  <2>2. CASE f.connection_id = ConnId
    <3>1. f \in wire
      BY <2>2 DEF ForeignFrame
    <3>2. f.sequence \in 0..(Len(delivered) - 1)
      BY <2>2, <3>1 DEF ingest_rejected, Stale, TypeOK, SessionFrame, Sequence
    <3>3. f.sequence \in seen
      BY <3>2 DEF ReleasesAllItCan
    <3> QED BY <2>2, <3>3 DEF ingest_rejected
  <2> QED BY <2>1, <2>2
<1>2. UNCHANGED vars
  BY <1>1 DEF ingest_rejected, vars, rxVars
<1> QED BY <1>2 DEF vars, TypeOK, WireFaithful, SeenWasSent, InOrderDelivery,
                    ReleasesAllItCan, BufferHoldsOnlyTheGapped

(* An accepted frame: the released run continues the prefix, and what      *)
(* stays buffered lies beyond a gap.                                       *)
LEMMA IngestFacts ==
  ASSUME IInv, NEW f \in wire, ingest_inbound(f)
  PROVE  \E k \in Nat :
           /\ next_rx' = next_rx + k
           /\ next_rx + k <= Len(sent)
           /\ delivered' \in Seq(Payload)
           /\ Len(delivered') = next_rx + k
           /\ \A i \in 1..(next_rx + k) : delivered'[i] = sent[i]
           /\ \A s \in 0..(next_rx + k - 1) : s \in seen'
           /\ next_rx + k \notin seen'
           /\ DOMAIN reorder_buffer' = {s \in seen' : s > next_rx + k}
           /\ \A s \in DOMAIN reorder_buffer' :
                /\ reorder_buffer'[s] \in SessionFrame
                /\ reorder_buffer'[s].payload = sent[s + 1]
<1> USE DEF IInv, Counters
<1> DEFINE n == next_rx
           b == OrInsert(reorder_buffer, f)
           k == RunLength(b, n)
<1>1. /\ f \in SessionFrame /\ f.sequence \in Nat /\ f.payload \in Payload
      /\ n <= f.sequence
      /\ f.sequence < Len(sent)
      /\ f.payload = sent[f.sequence + 1]
  BY DEF ingest_inbound, Stale, WireFaithful, TypeOK, SessionFrame, Sequence
<1>2. /\ n \in Nat /\ Len(sent) \in Nat /\ n = Len(delivered) /\ n <= Len(sent)
      /\ n \notin seen
      /\ \A s \in 0..(n - 1) : s \in seen
  BY DEF TypeOK, Sequence, InOrderDelivery, ReleasesAllItCan
<1>3. seen' = seen \cup {f.sequence} /\ \A s \in seen' : s \in Nat /\ s < Len(sent)
  BY <1>1 DEF ingest_inbound, SeenWasSent, TypeOK, Sequence
<1>4. DOMAIN b = {s \in seen' : s >= n}
  <2>1. DOMAIN b = DOMAIN reorder_buffer \cup {f.sequence}
    BY DEF OrInsert
  <2>2. DOMAIN reorder_buffer = {s \in seen : s > n}
    BY DEF BufferHoldsOnlyTheGapped
  <2>3. \A s \in seen : s \in Nat
    BY <1>3
  <2> HIDE DEF n, b
  <2> QED BY <1>1, <1>2, <1>3, <2>1, <2>2, <2>3
<1>5. \A s \in DOMAIN b : b[s] \in SessionFrame /\ b[s].payload = sent[s + 1]
  BY <1>1 DEF OrInsert, BufferHoldsOnlyTheGapped, TypeOK
<1>6. /\ delivered' = delivered \o [j \in 1..k |-> b[(n + j - 1) % SeqSpace].payload]
      /\ reorder_buffer' = [s \in DOMAIN b \ Drained(n, k) |-> b[s]]
      /\ next_rx' = (n + k) % SeqSpace
  BY DEF ingest_inbound
<1> HIDE DEF n, b, k
<1>7. /\ k \in Nat
      /\ n + k <= MaxFrames
      /\ \A j \in 0..(k - 1) : n + j \in DOMAIN b
      /\ n + k \notin DOMAIN b
  <2>1. DOMAIN b \subseteq 0..(MaxFrames - 1) /\ n \in 0..MaxFrames
    BY <1>2, <1>3, <1>4
  <2> QED BY <2>1, RunLengthStopsAtGap DEF k
<1>8. next_rx' = n + k
  <2>1. n + k \in Nat /\ n + k < SeqSpace
    BY <1>2, <1>7
  <2> QED BY <2>1, <1>6, ModSmall
<1>9. \A j \in 1..k : (n + j - 1) % SeqSpace = n + j - 1 /\ n + j - 1 \in DOMAIN b
  <2> TAKE j \in 1..k
  <2>1. j - 1 \in 0..(k - 1)
    BY <1>7
  <2>2. n + (j - 1) \in DOMAIN b
    BY <1>7, <2>1
  <2>3. n + j - 1 \in Nat /\ n + j - 1 < SeqSpace /\ n + (j - 1) = n + j - 1
    BY <1>2, <1>7
  <2> QED BY <2>2, <2>3, ModSmall
<1>10. Drained(n, k) = {s \in Nat : n <= s /\ s < n + k}
  <2>1. ASSUME NEW j \in 0..(k - 1) PROVE (n + j) % SeqSpace = n + j
    <3>1. n + j \in Nat /\ n + j < SeqSpace
      BY <1>2, <1>7
    <3> QED BY <3>1, ModSmall
  <2>2. ASSUME NEW s \in Drained(n, k)
        PROVE  s \in Nat /\ n <= s /\ s < n + k
    <3>1. PICK j \in 0..(k - 1) : s = (n + j) % SeqSpace
      BY DEF Drained
    <3>2. s = n + j
      BY <3>1, <2>1
    <3> QED BY <3>2, <1>2, <1>7
  <2>3. ASSUME NEW s \in Nat, n <= s, s < n + k
        PROVE  s \in Drained(n, k)
    <3>1. s - n \in 0..(k - 1) /\ n + (s - n) = s
      BY <1>2, <1>7, <2>3
    <3> QED BY <2>1, <3>1 DEF Drained
  <2> QED BY <2>2, <2>3
<1>11. n + k <= Len(sent)
  <2>1. CASE k = 0
    BY <2>1, <1>2
  <2>2. CASE k > 0
    <3>1. n + (k - 1) \in DOMAIN b
      BY <2>2, <1>7
    <3> QED BY <3>1, <1>2, <1>3, <1>4, <1>7
  <2> QED BY <2>1, <2>2, <1>7
<1>12. /\ delivered' \in Seq(Payload)
       /\ Len(delivered') = n + k
       /\ \A i \in 1..(n + k) : delivered'[i] = sent[i]
  <2> DEFINE d == [j \in 1..k |-> b[(n + j - 1) % SeqSpace].payload]
  <2>1. \A j \in 1..k : d[j] = sent[n + j] /\ d[j] \in Payload
    <3> TAKE j \in 1..k
    <3>1. d[j] = b[n + j - 1].payload
      BY <1>9
    <3>2. b[n + j - 1] \in SessionFrame /\ b[n + j - 1].payload = sent[(n + j - 1) + 1]
      BY <1>5, <1>9
    <3>3. (n + j - 1) + 1 = n + j
      BY <1>2, <1>7
    <3> QED BY <3>1, <3>2, <3>3 DEF SessionFrame
  <2>2. d \in Seq(Payload) /\ Len(d) = k
    <3>1. DOMAIN d = 1..k /\ d = [j \in 1..k |-> d[j]]
      OBVIOUS
    <3> HIDE DEF d
    <3>2. d \in [1..k -> Payload]
      BY <2>1, <3>1
    <3> QED BY <3>2, <1>7
  <2>3. delivered' = delivered \o d
    BY <1>6
  <2>4. /\ delivered \in Seq(Payload) /\ Len(delivered) = n
        /\ \A i \in 1..n : delivered[i] = sent[i]
    BY <1>2 DEF TypeOK, InOrderDelivery, n
  <2> HIDE DEF d
  <2>5. /\ Len(delivered') = n + k /\ delivered' \in Seq(Payload)
        /\ \A i \in 1..n : delivered'[i] = delivered[i]
        /\ \A i \in (n + 1)..(n + k) : delivered'[i] = d[i - n]
    <3>1. delivered \in Seq(Payload) /\ d \in Seq(Payload)
      BY <2>2, <2>4
    <3>2. /\ delivered' \in Seq(Payload) /\ Len(delivered') = Len(delivered) + Len(d)
          /\ \A i \in 1..Len(delivered) : delivered'[i] = delivered[i]
          /\ \A i \in (Len(delivered) + 1)..(Len(delivered) + Len(d)) :
                delivered'[i] = d[i - Len(delivered)]
      BY ONLY <2>3, <3>1, ConcatFacts, Zenon
    <3>3. Len(delivered) = n /\ Len(d) = k
      BY <2>2, <2>4
    <3> QED BY ONLY <3>2, <3>3
  <2>6. ASSUME NEW i \in 1..(n + k) PROVE delivered'[i] = sent[i]
    <3>1. CASE i <= n
      <4>1. i \in 1..n
        BY <3>1, <1>2, <1>7
      <4> QED BY <4>1, <2>4, <2>5
    <3>2. CASE i > n
      <4>1. /\ i - n \in 1..k /\ n + (i - n) = i
            /\ i \in (n + 1)..(n + k)
        BY <3>2, <1>2, <1>7
      <4>2. delivered'[i] = d[i - n]
        BY <4>1, <2>5
      <4> QED BY <2>1, <4>1, <4>2
    <3> QED BY <3>1, <3>2, <1>2, <1>7
  <2> QED BY <2>5, <2>6
<1>13. (\A s \in 0..(n + k - 1) : s \in seen') /\ n + k \notin seen'
  <2>1. ASSUME NEW s \in 0..(n + k - 1) PROVE s \in seen'
    <3>1. CASE s < n
      BY <3>1, <1>2, <1>3, <1>7
    <3>2. CASE s >= n
      <4>1. s - n \in 0..(k - 1) /\ n + (s - n) = s
        BY <3>2, <1>2, <1>7
      <4>2. s \in DOMAIN b
        BY <4>1, <1>7
      <4> QED BY <4>2, <1>4
    <3> QED BY <3>1, <3>2, <1>2, <1>7
  <2> QED BY <2>1, <1>2, <1>4, <1>7
<1>14. DOMAIN reorder_buffer' = {s \in seen' : s > n + k}
  <2>1. DOMAIN reorder_buffer' = DOMAIN b \ Drained(n, k)
    BY <1>6
  <2>2. ASSUME NEW s PROVE s \in DOMAIN reorder_buffer' <=> s \in {t \in seen' : t > n + k}
    <3>1. CASE s \in seen'
      <4>1. s \in Nat /\ s # n + k
        BY <3>1, <1>3, <1>13
      <4>2. s \in DOMAIN b <=> s >= n
        BY <3>1, <1>4
      <4>3. s \in Drained(n, k) <=> n <= s /\ s < n + k
        BY <4>1, <1>10
      <4>4. s \in DOMAIN reorder_buffer' <=> s >= n /\ ~ (n <= s /\ s < n + k)
        BY <4>2, <4>3, <2>1
      <4>5. s >= n /\ ~ (n <= s /\ s < n + k) <=> s > n + k
        <5>1. n \in Nat /\ k \in Nat /\ n + k \in Nat
          BY <1>2, <1>7
        <5>2. s < n + k \/ s > n + k
          BY <4>1, <5>1
        <5> QED BY <4>1, <5>1, <5>2
      <4> QED BY <4>4, <4>5, <3>1
    <3>2. CASE s \notin seen'
      BY <3>2, <2>1, <1>4
    <3> QED BY <3>1, <3>2
  <2> QED BY <2>2
<1>15. \A s \in DOMAIN reorder_buffer' :
          reorder_buffer'[s] \in SessionFrame /\ reorder_buffer'[s].payload = sent[s + 1]
  BY <1>5, <1>6
<1> QED BY <1>7, <1>8, <1>11, <1>12, <1>13, <1>14, <1>15 DEF n

LEMMA IngestIInv ==
  ASSUME IInv, NEW f \in wire, ingest_inbound(f)
  PROVE  IInv'
<1> USE DEF IInv, Counters
<1>1. UNCHANGED <<next_tx, wire, sent>> /\ seen' = seen \cup {f.sequence}
  BY DEF ingest_inbound
<1>2. /\ f.sequence \in Sequence /\ f.sequence < Len(sent)
      /\ next_rx \in Nat /\ Len(sent) \in Nat
  BY DEF WireFaithful, TypeOK, SessionFrame, Sequence
<1>3. PICK k \in Nat :
        /\ next_rx' = next_rx + k
        /\ next_rx + k <= Len(sent)
        /\ delivered' \in Seq(Payload)
        /\ Len(delivered') = next_rx + k
        /\ \A i \in 1..(next_rx + k) : delivered'[i] = sent[i]
        /\ \A s \in 0..(next_rx + k - 1) : s \in seen'
        /\ next_rx + k \notin seen'
        /\ DOMAIN reorder_buffer' = {s \in seen' : s > next_rx + k}
        /\ \A s \in DOMAIN reorder_buffer' :
             /\ reorder_buffer'[s] \in SessionFrame
             /\ reorder_buffer'[s].payload = sent[s + 1]
  BY IngestFacts
<1>4. seen' \subseteq Sequence /\ SeenWasSent'
  BY <1>1, <1>2 DEF TypeOK, SeenWasSent
<1>5. next_rx' \in Sequence
  BY <1>2, <1>3 DEF Sequence
<1>6. TypeOK'
  BY <1>1, <1>3, <1>4, <1>5 DEF TypeOK
<1>7. Counters' /\ WireFaithful'
  BY <1>1, <1>3 DEF WireFaithful
<1>8. InOrderDelivery' /\ ReleasesAllItCan'
  BY <1>1, <1>3 DEF InOrderDelivery, ReleasesAllItCan
<1>9. BufferHoldsOnlyTheGapped'
  BY <1>1, <1>3 DEF BufferHoldsOnlyTheGapped
<1> QED BY <1>4, <1>6, <1>7, <1>8, <1>9

LEMMA NextIInv == IInv /\ [Next]_vars => IInv'
<1> SUFFICES ASSUME IInv, [Next]_vars PROVE IInv'
  OBVIOUS
<1>1. ASSUME NEW p \in Payload, create_outbound_frame(p) PROVE IInv'
  BY <1>1, CreateIInv
<1>2. ASSUME NEW f \in wire \cup ForeignFrame, ingest_rejected(f) PROVE IInv'
  BY <1>2, RejectedIInv
<1>3. ASSUME NEW f \in wire, ingest_inbound(f) PROVE IInv'
  BY <1>3, IngestIInv
<1>4. CASE UNCHANGED vars
  BY <1>4 DEF vars, IInv, TypeOK, Counters, WireFaithful, SeenWasSent,
              InOrderDelivery, ReleasesAllItCan, BufferHoldsOnlyTheGapped
<1> QED BY <1>1, <1>2, <1>3, <1>4 DEF Next

-----------------------------------------------------------------------------
(* The strengthened invariant holds in every state of the session layer.   *)
THEOREM Invariance == Spec => []IInv
BY InitIInv, NextIInv, PTL DEF Spec

(* The fields of both SessionStates stay within their types.               *)
THEOREM TypeCorrect == Spec => []TypeOK
<1>1. IInv => TypeOK
  BY DEF IInv
<1> QED BY <1>1, Invariance, PTL

(* ingest_inbound releases packets in order, once and without a gap.       *)
THEOREM DeliversInOrder == Spec => []InOrderDelivery
<1>1. IInv => InOrderDelivery
  BY DEF IInv
<1> QED BY <1>1, Invariance, PTL

(* ingest_inbound releases every packet the gaps allow it to release.      *)
THEOREM DrainIsMaximal == Spec => []ReleasesAllItCan
<1>1. IInv => ReleasesAllItCan
  BY DEF IInv
<1> QED BY <1>1, Invariance, PTL

(* reorder_buffer only ever holds frames that wait for a gap.              *)
THEOREM BufferBounded == Spec => []BufferHoldsOnlyTheGapped
<1>1. IInv => BufferHoldsOnlyTheGapped
  BY DEF IInv
<1> QED BY <1>1, Invariance, PTL

(* Every step of the two SessionStates is a step of the in-order channel.  *)
LEMMA StepRefines == IInv /\ [Next]_vars => [Channel!Next]_(Channel!vars)
<1> SUFFICES ASSUME IInv, [Next]_vars PROVE [Channel!Next]_(Channel!vars)
  OBVIOUS
<1>1. ASSUME NEW p \in Payload, create_outbound_frame(p) PROVE Channel!Next
  BY <1>1 DEF create_outbound_frame, rxVars, Channel!Next, Channel!Accept
<1>2. ASSUME NEW f \in wire \cup ForeignFrame, ingest_rejected(f)
      PROVE  UNCHANGED Channel!vars
  BY <1>2 DEF ingest_rejected, rxVars, Channel!vars
<1>3. ASSUME NEW f \in wire, ingest_inbound(f)
      PROVE  [Channel!Next]_(Channel!vars)
  <2>1. PICK k \in Nat :
          /\ next_rx + k <= Len(sent)
          /\ delivered' \in Seq(Payload)
          /\ Len(delivered') = next_rx + k
          /\ \A i \in 1..(next_rx + k) : delivered'[i] = sent[i]
    BY <1>3, IngestFacts
  <2>2. UNCHANGED sent
    BY <1>3 DEF ingest_inbound
  <2>3. /\ next_rx = Len(delivered) /\ delivered \in Seq(Payload)
        /\ sent \in Seq(Payload) /\ next_rx \in Nat
        /\ \A i \in 1..Len(delivered) : delivered[i] = sent[i]
    BY DEF IInv, TypeOK, Counters, InOrderDelivery, Sequence
  <2>4. CASE k = 0
    <3>1. delivered' = delivered
      BY <2>1, <2>3, <2>4
    <3> QED BY <2>2, <3>1 DEF Channel!vars
  <2>5. CASE k > 0
    <3>1. delivered' = [i \in 1..(next_rx + k) |-> sent[i]]
      BY <2>1, <2>3
    <3>2. next_rx + k \in (Len(delivered) + 1)..Len(sent)
      BY <2>1, <2>3, <2>5
    <3> QED BY <2>2, <3>1, <3>2 DEF Channel!Next, Channel!Release
  <2> QED BY <2>4, <2>5
<1>4. CASE UNCHANGED vars
  BY <1>4 DEF vars, Channel!vars
<1> QED BY <1>1, <1>2, <1>3, <1>4 DEF Next

(* Two SessionStates joined by paths that lose, repeat and reorder frames  *)
(* implement the in-order channel.                                         *)
THEOREM SessionImplementsChannel == Spec => ImplementsChannel
<1>1. Init => Channel!Init
  BY DEF Init, Channel!Init
<1> QED BY <1>1, StepRefines, Invariance, PTL DEF Spec, Channel!Spec, ImplementsChannel
=============================================================================
