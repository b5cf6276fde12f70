----------------------------- MODULE StreamPath -----------------------------
(***************************************************************************)
(* One path from its first byte on: the handshakes of bonded-client and    *)
(* bonded-server and then the frames of both directions, over NaiveTCP, a  *)
(* routed WebSocket or QUIC (bonded-core/src/transport.rs).  A message is  *)
(* a run of units that the stream may deliver in pieces; the two ends read *)
(* ahead, drop line readers with what they hold, and cancel a recv when    *)
(* another branch of their select is ready.                                *)
(*                                                                         *)
(* Abstracted: a line is two units, a length prefix is two and the body of *)
(* a frame one or two; a WebSocket message, which tungstenite delivers     *)
(* whole, is one.  Whether the server knows the device or redeems its      *)
(* token is the choice of admitted, and signatures verify.                 *)
(***************************************************************************)
EXTENDS Naturals, Sequences

CONSTANTS Kinds,         \* kinds of paths: "tcp", "ws", "quic"
          Frames,        \* bound: end -> frames it sends
          Capacity       \* units the stream holds in one direction

End == {"client", "server"}
Peer(e) == IF e = "client" THEN "server" ELSE "client"

ASSUME PathKinds == Kinds \subseteq {"tcp", "ws", "quic"}
ASSUME PathBounds == Frames \in [End -> Nat] /\ Capacity \in Nat \ {0}

VARIABLES kind,          \* the kind of this path
          admitted,      \* the server accepts the device
          up,            \* the network carries the path
          step,          \* end -> messages of the handshake it is through
          ended,         \* end -> its task is over and its socket closed
          todo,          \* end -> units a write_all has still to write
          out,           \* end -> units it wrote that are not yet read
          buf,           \* end -> units it has read ahead
          polling,       \* end -> a recv waits for the rest of a frame
          sent,          \* end -> frames handed to send
          got,           \* end -> frames recv has returned
          lost           \* history: units thrown away with a reader

streamVars == <<todo, out, buf, polling>>
pathVars == <<kind, admitted, up, step, ended, streamVars, sent, got, lost>>

-----------------------------------------------------------------------------
(* Messages and their units. *)

Line(x) == <<x, 0>>
Frame(n) == <<"frame", n>>

Size(m) == CASE kind = "ws" /\ m[1] \notin {"upgrade", "switching"} -> 1
             [] m[1] = "frame" -> 2 + 1 + (m[2] % 2)
             [] OTHER -> 2

Units(m) == [i \in 1..Size(m) |-> [msg |-> m, part |-> i, of |-> Size(m)]]

(* The messages of the handshake, by turns of the client and the server. *)
Handshake == (IF kind = "ws" THEN <<"upgrade", "switching">> ELSE <<>>)
               \o <<"hello", "challenge", "proof", "ok">>

Sender(i) == IF i % 2 = 1 THEN "client" ELSE "server"

(* Seeded fault: the client does not wait for the result. *)
LastStepHasty(e) == IF e = "client" THEN Len(Handshake) - 1 ELSE Len(Handshake)

LastStep(e) == Len(Handshake)

Open(e) == ~ended[e] /\ step[e] = LastStep(e) /\ todo[e] = <<>>
Shaking(e) == ~ended[e] /\ step[e] < LastStep(e)

(* perform_quic_auth_handshake of the client names the key "public_key";   *)
(* ClientHello of the server has no such field.                            *)
HelloParses == kind # "quic"

(* The server's answer to a hello. *)
Answer(x) == IF x = "challenge" /\ ~admitted THEN "unauthorized" ELSE x

-----------------------------------------------------------------------------
(* What is left of the units an end has read ahead. *)

(* read_buf belongs to the transport and survives the recv. *)
AfterCancel(b) == b

(* The line readers: QUIC makes one per line, the NaiveTCP server one per  *)
(* handshake, and PrependedStream replays what the router has read.        *)
ReaderDropped(e, s) ==
  \/ kind = "quic"
  \/ kind = "tcp" /\ e = "server" /\ s = LastStep(e)

KeepAhead(e, s, b) ==
  IF ReaderDropped(e, s)
  THEN buf' = [buf EXCEPT ![e] = <<>>] /\ lost' = (lost \/ b # <<>>)
  ELSE buf' = [buf EXCEPT ![e] = b] /\ UNCHANGED lost

(* The first message of b is there to its last unit. *)
Complete(b) == b # <<>> /\ b[1].part = 1 /\ Len(b) >= b[1].of
Rest(b) == SubSeq(b, b[1].of + 1, Len(b))
Misaligned(b) == b # <<>> /\ b[1].part # 1

-----------------------------------------------------------------------------
PathInit == /\ kind \in Kinds
            /\ admitted \in BOOLEAN
            /\ up = TRUE
            /\ step = [e \in End |-> 0]
            /\ ended = [e \in End |-> FALSE]
            /\ todo = [e \in End |-> <<>>]
            /\ out = [e \in End |-> <<>>]
            /\ buf = [e \in End |-> <<>>]
            /\ polling = [e \in End |-> FALSE]
            /\ sent = [e \in End |-> 0]
            /\ got = [e \in End |-> <<>>]
            /\ lost = FALSE

(* The task of e is over: its socket closes and its buffers go. *)
Ends(e) == /\ ended' = [ended EXCEPT ![e] = TRUE]
           /\ todo' = [todo EXCEPT ![e] = <<>>]
           /\ buf' = [buf EXCEPT ![e] = <<>>]
           /\ polling' = [polling EXCEPT ![e] = FALSE]

(* e is through one more message of the handshake and keeps b. *)
NextStep(e, b) == /\ step' = [step EXCEPT ![e] = @ + 1]
                  /\ KeepAhead(e, step[e] + 1, b)

-----------------------------------------------------------------------------
(* Writing.  write_all fills what the stream can hold. *)

StartLine(e) ==
  /\ Shaking(e) /\ todo[e] = <<>>
  /\ Sender(step[e] + 1) = e
  /\ todo' = [todo EXCEPT ![e] = Units(Line(Answer(Handshake[step[e] + 1])))]
  /\ UNCHANGED <<kind, admitted, up, step, ended, out, buf, polling, sent, got,
                 lost>>

(* The server is in its select once resolve_session_binding has a frame. *)
Selecting(e) == Open(e) /\ (e = "server" => got[e] # <<>>)

(* The app, or the server's TUN or forwarder, has a packet for the peer:   *)
(* the select drops the recv that was waiting.                             *)
Send(e) ==
  /\ Selecting(e)
  /\ sent[e] < Frames[e]
  /\ sent' = [sent EXCEPT ![e] = @ + 1]
  /\ todo' = [todo EXCEPT ![e] = Units(Frame(sent[e] + 1))]
  /\ buf' = [buf EXCEPT ![e] = IF polling[e] THEN AfterCancel(@) ELSE @]
  /\ polling' = [polling EXCEPT ![e] = FALSE]
  /\ UNCHANGED <<kind, admitted, up, step, ended, out, got, lost>>

(* What follows the last unit of a message. *)
Written(e, m) ==
  \/ m[1] = "frame" /\ UNCHANGED <<step, ended, buf, polling, lost>>
  \/ /\ m[1] = "unauthorized"
     /\ ended' = [ended EXCEPT ![e] = TRUE]
     /\ UNCHANGED <<step, buf, polling, lost>>
  \/ /\ m[1] \notin {"frame", "unauthorized"}
     /\ NextStep(e, buf[e])
     /\ UNCHANGED <<ended, polling>>

Room(e) == Capacity - Len(out[e])

Write(e) ==
  /\ ~ended[e] /\ todo[e] # <<>>
  /\ up /\ ~ended[Peer(e)]
  /\ LET n == IF Len(todo[e]) <= Room(e) THEN Len(todo[e]) ELSE Room(e)
     IN  /\ n > 0
         /\ out' = [out EXCEPT ![e] = @ \o SubSeq(todo[e], 1, n)]
         /\ todo' = [todo EXCEPT ![e] = SubSeq(@, n + 1, Len(@))]
         /\ IF n = Len(todo[e]) THEN Written(e, todo[e][1].msg)
            ELSE UNCHANGED <<step, ended, buf, polling, lost>>
  /\ UNCHANGED <<kind, admitted, up, sent, got>>

WriteFails(e) ==
  /\ ~ended[e] /\ todo[e] # <<>>
  /\ ~up \/ ended[Peer(e)]
  /\ Ends(e)
  /\ UNCHANGED <<kind, admitted, up, step, out, sent, got, lost>>

-----------------------------------------------------------------------------
(* Reading. *)

Reading(e) == \/ Open(e)
              \/ Shaking(e) /\ todo[e] = <<>> /\ Sender(step[e] + 1) = Peer(e)

(* Seeded fault: recv reads the stream before it looks at read_buf. *)
ChunksReadFirst(e) == 1..Len(out[Peer(e)])

(* Units one read can return: read_u8 of the NaiveTCP client takes one;    *)
(* nothing is read while a whole message is in the buffer.                 *)
Chunks(e) == IF Complete(buf[e]) THEN {0}
             ELSE IF kind = "tcp" /\ e = "client" /\ Shaking(e)
             THEN 1..Len(out["server"]) \cap {1}
             ELSE 1..Len(out[Peer(e)])

(* A line has arrived: the one that is expected, or the handshake is over. *)
LineRead(e, b) ==
  LET x == Handshake[step[e] + 1]
  IN  IF Complete(b) /\ b[1].msg[1] = x /\ (x = "hello" => HelloParses)
      THEN NextStep(e, Rest(b)) /\ UNCHANGED <<ended, todo, polling>>
      ELSE Ends(e) /\ UNCHANGED <<step, lost>>

(* Seeded fault: the buffer is cleared with the frame taken from it. *)
FrameReadClears(e, b) ==
  IF Complete(b) /\ b[1].msg[1] = "frame"
  THEN /\ got' = [got EXCEPT ![e] = Append(@, b[1].msg[2])]
       /\ buf' = [buf EXCEPT ![e] = <<>>]
       /\ polling' = [polling EXCEPT ![e] = FALSE]
       /\ UNCHANGED <<ended, todo>>
  ELSE Ends(e) /\ UNCHANGED got

(* recv returns a frame; a length prefix out of place is an error. *)
FrameRead(e, b) ==
  IF Complete(b) /\ b[1].msg[1] = "frame"
  THEN /\ got' = [got EXCEPT ![e] = Append(@, b[1].msg[2])]
       /\ buf' = [buf EXCEPT ![e] = Rest(b)]
       /\ polling' = [polling EXCEPT ![e] = FALSE]
       /\ UNCHANGED <<ended, todo>>
  ELSE Ends(e) /\ UNCHANGED got

(* The message is not whole: the reader waits with what it has. *)
Await(e, b) == /\ buf' = [buf EXCEPT ![e] = b]
               /\ polling' = [polling EXCEPT ![e] = Open(e)]
               /\ UNCHANGED <<step, ended, todo, got, lost>>

Read(e) ==
  /\ Reading(e)
  /\ up
  /\ \E n \in Chunks(e) :
       LET b == buf[e] \o SubSeq(out[Peer(e)], 1, n)
       IN  /\ out' = [out EXCEPT ![Peer(e)] = SubSeq(@, n + 1, Len(@))]
           /\ IF ~ Complete(b) /\ ~ Misaligned(b) THEN Await(e, b)
              ELSE IF Shaking(e) THEN LineRead(e, b) /\ UNCHANGED got
              ELSE FrameRead(e, b) /\ UNCHANGED <<step, lost>>
  /\ UNCHANGED <<kind, admitted, up, sent>>

(* Seeded fault: read = 0 is not taken for the end of the stream. *)
EofUnnoticed(e) == /\ Reading(e)
                   /\ ~up
                   /\ Ends(e)
                   /\ UNCHANGED <<kind, admitted, up, step, out, sent, got, lost>>

(* The stream ends or breaks, perhaps before what is in flight. *)
Eof(e) == /\ Reading(e)
          /\ ~up \/ ended[Peer(e)]
          /\ Ends(e)
          /\ UNCHANGED <<kind, admitted, up, step, out, sent, got, lost>>

(* Another branch of the select was ready: a heartbeat, a new peer path. *)
Cancel(e) == /\ polling[e] /\ Selecting(e)
             /\ polling' = [polling EXCEPT ![e] = FALSE]
             /\ buf' = [buf EXCEPT ![e] = AfterCancel(@)]
             /\ UNCHANGED <<kind, admitted, up, step, ended, todo, out, sent, got,
                            lost>>

(* PATH_ESTABLISH_TIMEOUT: the client drops the handshake. *)
TimesOut == /\ Shaking("client")
            /\ Ends("client")
            /\ UNCHANGED <<kind, admitted, up, step, out, sent, got, lost>>

(* The network fails and the sockets report it. *)
NetFails == /\ up
            /\ up' = FALSE
            /\ UNCHANGED <<kind, admitted, step, ended, streamVars, sent, got, lost>>

-----------------------------------------------------------------------------
Progress(e) == \/ StartLine(e) \/ Write(e) \/ WriteFails(e) \/ Read(e) \/ Eof(e)

PathNext == \/ \E e \in End : Progress(e) \/ Send(e) \/ Cancel(e)
            \/ TimesOut \/ NetFails

(* A task whose socket is ready is polled.  Nothing makes an end send.     *)
PathSpec == /\ PathInit /\ [][PathNext]_pathVars
            /\ \A e \in End : WF_pathVars(Progress(e))

-----------------------------------------------------------------------------
Unit == [msg : {"frame"} \X Nat \cup
               {"upgrade", "switching", "hello", "challenge", "proof", "ok",
                "unauthorized"} \X {0},
         part : 1..4, of : 1..4]

(* The variables keep their types and the stream its capacity. *)
PathTypeOK ==
  /\ kind \in Kinds /\ {admitted, up, lost} \subseteq BOOLEAN
  /\ {ended, polling} \subseteq [End -> BOOLEAN]
  /\ \A e \in End : /\ step[e] \in 0..Len(Handshake)
                    /\ sent[e] \in 0..Frames[e]
                    /\ got[e] \in Seq(Nat)
                    /\ {todo[e], out[e], buf[e]} \subseteq Seq(Unit)
                    /\ Len(out[e]) <= Capacity

(* No unit is thrown away with a line reader, although the readers of the  *)
(* NaiveTCP server and of QUIC are dropped with their buffer: the peer     *)
(* sends nothing more before the message that answers the line.            *)
NothingReadAheadIsLost == ~lost

(* What recv returns on one end is what was sent on the other, in order    *)
(* and without a gap, however the stream cuts it and however often recv is *)
(* cancelled (read_buf of NaiveTcpTransport and QuicTransport); and every  *)
(* variable keeps its type.                                                *)
FramesIntact ==
  /\ PathTypeOK
  /\ \A e \in End : /\ got[e] = [i \in 1..Len(got[e]) |-> i]
                    /\ Len(got[e]) <= sent[Peer(e)]

(* A frame that was handed to send arrives, as long as the path lasts. *)
FrameArrives ==
  \A e \in End : \A n \in 1..Frames[e] :
    sent[e] >= n ~> Len(got[Peer(e)]) >= n \/ ~up \/ ended[e] \/ ended[Peer(e)]

(* When one end is over the other one is soon: a client that gives up in   *)
(* the handshake leaves no server task that waits for it.                  *)
EndsTogether == \A e \in End : ended[e] ~> ended[Peer(e)]

(* The server gives up on a client that is still there only when it does   *)
(* not admit the device.  TLC finds this violated: see section 7 of the    *)
(* README.                                                                 *)
ServesTheAdmitted ==
  ended["server"] /\ up /\ ~ended["client"] => ~admitted
=============================================================================
