------------------------- MODULE SessionReassembly -------------------------
(***************************************************************************)
(* bonded-core/src/session.rs: one SessionState numbers outbound packets,  *)
(* another one puts the numbered frames back in order.  The paths between  *)
(* them (NaiveTCP, WebSocket, QUIC, WireGuard, peer relay) are abstracted  *)
(* to the weakest channel: every frame handed to a path stays on the wire  *)
(* and may reach the receiver never, once or repeatedly, in any order, and *)
(* frames of other connections may reach it too.                           *)
(***************************************************************************)
EXTENDS Naturals, Sequences

CONSTANTS Payload,      \* the packets a TUN device can produce
          ConnIds,      \* connection ids a frame may carry
          ConnId,       \* the connection id both SessionStates were made with
          SeqSpace,     \* sequence numbers are taken modulo this (2^64)
          MaxFrames     \* bound: packets the sender numbers in a behaviour

ASSUME ConnIdAssumption == ConnId \in ConnIds
ASSUME SeqSpaceAssumption == SeqSpace \in Nat \ {0}
ASSUME MaxFramesAssumption == MaxFrames \in Nat /\ MaxFrames < SeqSpace

VARIABLES next_tx,        \* sender: next_tx_sequence
          next_rx,        \* receiver: next_rx_sequence
          reorder_buffer, \* receiver: sequence -> frame waiting for a gap
          wire,           \* frames handed to the paths so far
          sent,           \* history: payloads numbered by the sender
          delivered,      \* history: payloads released by the receiver
          seen            \* history: sequences of this connection ingested

vars == <<next_tx, next_rx, reorder_buffer, wire, sent, delivered, seen>>
rxVars == <<next_rx, reorder_buffer, delivered>>

Sequence == 0..(SeqSpace - 1)

SessionFrame == [connection_id : ConnIds, sequence : Sequence, payload : Payload]

-----------------------------------------------------------------------------
(* BTreeMap::entry(s).or_insert(f): the first frame of a sequence is kept. *)
OrInsert(b, f) ==
  [s \in DOMAIN b \cup {f.sequence} |-> IF s \in DOMAIN b THEN b[s] ELSE f]

(* Seeded faults: the drain loop stops after one frame; late frames are    *)
(* not recognised.                                                         *)
RunLengthOneStep(b, n) == IF n \in DOMAIN b THEN 1 ELSE 0
StaleNever(f) == FALSE

(* Iterations of the drain loop: the length of the run of buffered         *)
(* sequences that starts at n.                                             *)
RunLength(b, n) ==
  CHOOSE k \in 0..SeqSpace :
    /\ \A j \in 0..(k - 1) : (n + j) % SeqSpace \in DOMAIN b
    /\ (n + k) % SeqSpace \notin DOMAIN b

Drained(n, k) == {(n + j) % SeqSpace : j \in 0..(k - 1)}

Stale(f) == f.sequence < next_rx

-----------------------------------------------------------------------------
(* SessionState::new on both ends. *)
Init == /\ next_tx = 0
        /\ next_rx = 0
        /\ reorder_buffer = [s \in {} |-> [connection_id |-> ConnId]]
        /\ wire = {}
        /\ sent = <<>>
        /\ delivered = <<>>
        /\ seen = {}

(* Seeded fault: the counter is not advanced. *)
create_without_increment(p) ==
  /\ Len(sent) < MaxFrames
  /\ wire' = wire \cup
       {[connection_id |-> ConnId, sequence |-> next_tx, payload |-> p]}
  /\ sent' = Append(sent, p)
  /\ UNCHANGED <<next_tx, rxVars, seen>>

(* The sender numbers a packet and hands the frame to some path. *)
create_outbound_frame(p) ==
  /\ Len(sent) < MaxFrames
  /\ wire' = wire \cup
       {[connection_id |-> ConnId, sequence |-> next_tx, payload |-> p]}
  /\ next_tx' = (next_tx + 1) % SeqSpace
  /\ sent' = Append(sent, p)
  /\ UNCHANGED <<rxVars, seen>>

(* ingest_inbound returns ConnectionMismatch or StaleSequence and leaves   *)
(* the state alone.                                                        *)
ingest_rejected(f) ==
  /\ f.connection_id # ConnId \/ Stale(f)
  /\ seen' = IF f.connection_id = ConnId THEN seen \cup {f.sequence} ELSE seen
  /\ UNCHANGED <<next_tx, wire, sent, rxVars>>

(* ingest_inbound buffers the frame and releases the contiguous run. *)
ingest_inbound(f) ==
  /\ f.connection_id = ConnId
  /\ ~ Stale(f)
  /\ LET b == OrInsert(reorder_buffer, f)
         k == RunLength(b, next_rx)
     IN  /\ delivered' = delivered \o
              [j \in 1..k |-> b[(next_rx + j - 1) % SeqSpace].payload]
         /\ reorder_buffer' =
              [s \in DOMAIN b \ Drained(next_rx, k) |-> b[s]]
         /\ next_rx' = (next_rx + k) % SeqSpace
  /\ seen' = seen \cup {f.sequence}
  /\ UNCHANGED <<next_tx, wire, sent>>

(* A frame another connection left on a path. *)
ForeignFrame == [connection_id : ConnIds \ {ConnId}, sequence : Sequence,
                 payload : Payload]

Next == \/ \E p \in Payload : create_outbound_frame(p)
        \/ \E f \in wire \cup ForeignFrame : ingest_rejected(f)
        \/ \E f \in wire : ingest_inbound(f)

Spec == Init /\ [][Next]_vars

-----------------------------------------------------------------------------
TypeOK == /\ next_tx \in Sequence
          /\ next_rx \in Sequence
          /\ DOMAIN reorder_buffer \subseteq Sequence
          /\ \A s \in DOMAIN reorder_buffer : reorder_buffer[s] \in SessionFrame
          /\ wire \subseteq SessionFrame
          /\ sent \in Seq(Payload)
          /\ delivered \in Seq(Payload)
          /\ seen \subseteq Sequence

(* ingest_inbound hands packets on in the order they were numbered, each   *)
(* once and without a gap, however the paths lose, repeat or reorder them. *)
InOrderDelivery ==
  /\ Len(delivered) <= Len(sent)
  /\ \A i \in 1..Len(delivered) : delivered[i] = sent[i]

(* The drain loop of ingest_inbound never stops early and never overruns:  *)
(* what has been released is exactly the longest run of sequences, from 0, *)
(* that have reached the receiver.                                         *)
ReleasesAllItCan ==
  /\ \A s \in 0..(Len(delivered) - 1) : s \in seen
  /\ Len(delivered) \notin seen

(* reorder_buffer holds the frames that wait for a gap and nothing else: a *)
(* repeated or late frame leaves no entry behind that is never removed.    *)
BufferHoldsOnlyTheGapped ==
  /\ DOMAIN reorder_buffer = {s \in seen : s > next_rx}
  /\ \A s \in DOMAIN reorder_buffer : reorder_buffer[s].payload = sent[s + 1]

-----------------------------------------------------------------------------
Channel == INSTANCE InOrderChannel

(* Two SessionStates over any paths implement the in-order channel. *)
ImplementsChannel == Channel!Spec
=============================================================================
