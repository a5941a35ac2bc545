------------------------------ MODULE Framing -------------------------------
(***************************************************************************)
(* One direction of a TCP connection between the server and a command-line *)
(* client: ClientSession.send on one side, called by many threads; recv,   *)
(* decode_frames and the dispatch of what was decoded on the other.        *)
(*                                                                         *)
(* A frame is 4 bytes of length and a body.  Bytes are named by the frame  *)
(* they belong to and their position in it; they have the values the       *)
(* length prefix is computed from, so a receiver that has lost the frame   *)
(* boundary reads whatever number the next 4 bytes make.                   *)
(***************************************************************************)
EXTENDS Naturals, Sequences, FiniteSets

CONSTANTS
  Thread,     \* threads that send on the connection
  NoThread,   \* nobody holds send_lock
  Lengths,    \* lengths of bodies
  RecvSize,   \* most bytes one recv returns
  MaxFrames,  \* bound on the frames sent
  MaxFaults   \* bound on failures of the connection and of handlers

HEADER_SIZE == 4
MAX_FRAME_SIZE == 8 * 1024 * 1024

ASSUME FramingAssumption ==
  /\ NoThread \notin Thread
  /\ Lengths \subseteq 1..MAX_FRAME_SIZE
  /\ RecvSize \in Nat \ {0}
  /\ MaxFrames \in Nat /\ MaxFaults \in Nat

VARIABLES
  closed,     \* the sender's ClientSession.closed
  lock,       \* the thread in send_lock
  unsent,     \* what sendall has still to write, by thread
  frames,     \* the frames written so far; good: the receiver can parse it
  wire,       \* bytes on their way
  buffer,     \* the receiver's buffer
  pc,         \* where the receiving thread is
  decoded,    \* its local messages: the frames decoded and not yet dispatched
  delivered,  \* the frames dispatched
  raised,     \* a handler has raised
  faults

vars == <<closed, lock, unsent, frames, wire, buffer, pc, decoded, delivered,
          raised, faults>>
sender == <<closed, lock, unsent, frames>>
receiver == <<buffer, pc, decoded, delivered, raised>>

Byte == [frame : Nat \ {0}, pos : Nat \ {0}]
Envelope == [len : Lengths, good : BOOLEAN]

SizeOf(k) == HEADER_SIZE + frames[k].len

\* Mutant: positions are counted from 0.
EncodeFrameFromZero(k, len) ==
  [i \in 1..(HEADER_SIZE + len) |-> [frame |-> k, pos |-> i - 1]]

\* encode_frame: the bytes of the k-th frame, with a body of len bytes.
EncodeFrame(k, len) ==
  [i \in 1..(HEADER_SIZE + len) |-> [frame |-> k, pos |-> i]]

Init ==
  /\ closed = FALSE
  /\ lock = NoThread
  /\ unsent = [t \in Thread |-> <<>>]
  /\ frames = <<>>
  /\ wire = <<>>
  /\ buffer = <<>>
  /\ pc = "recv"
  /\ decoded = <<>>
  /\ delivered = <<>>
  /\ raised = FALSE
  /\ faults = 0

-----------------------------------------------------------------------------
(* The sender.  A body above MAX_FRAME_SIZE makes encode_frame raise before *)
(* anything is written, and send on a closed session returns False: neither *)
(* changes the state.                                                       *)

\* Mutant: send does not wait for send_lock.
BeginSendUnlocked(t) ==
  /\ ~closed
  /\ Len(frames) < MaxFrames
  /\ \E envelope \in Envelope :
       /\ frames' = Append(frames, envelope)
       /\ unsent' = [unsent EXCEPT ![t] =
                       EncodeFrame(Len(frames) + 1, envelope.len)]
  /\ lock' = t
  /\ UNCHANGED <<closed, wire, receiver, faults>>

BeginSend(t) ==
  /\ lock = NoThread /\ ~closed
  /\ Len(frames) < MaxFrames
  /\ \E envelope \in Envelope :
       /\ frames' = Append(frames, envelope)
       /\ unsent' = [unsent EXCEPT ![t] =
                       EncodeFrame(Len(frames) + 1, envelope.len)]
  /\ lock' = t
  /\ UNCHANGED <<closed, wire, receiver, faults>>

\* sendall writes as much as the socket takes; after the last byte the thread
\* leaves send_lock.
SendSome(t) ==
  /\ lock = t
  /\ \E n \in 1..Len(unsent[t]) :
       /\ wire' = wire \o SubSeq(unsent[t], 1, n)
       /\ unsent' = [unsent EXCEPT ![t] = SubSeq(@, n + 1, Len(@))]
       /\ lock' = IF n = Len(unsent[t]) THEN NoThread ELSE t
  /\ UNCHANGED <<closed, frames, receiver, faults>>

\* The socket fails or times out in the middle of a frame.
SendFails(t) ==
  /\ lock = t
  /\ faults < MaxFaults
  /\ faults' = faults + 1
  /\ closed' = TRUE
  /\ unsent' = [unsent EXCEPT ![t] = <<>>]
  /\ lock' = NoThread
  /\ UNCHANGED <<frames, wire, receiver>>

\* ClientSession.close waits for send_lock.
CloseSession ==
  /\ lock = NoThread /\ ~closed
  /\ closed' = TRUE
  /\ UNCHANGED <<lock, unsent, frames, wire, receiver, faults>>

-----------------------------------------------------------------------------
(* The receiver: _client_loop of the server, Receiver.run of the client.    *)

Recv ==
  /\ pc = "recv"
  /\ \E n \in 1..Len(wire) :
       /\ n <= RecvSize
       /\ buffer' = buffer \o SubSeq(wire, 1, n)
       /\ wire' = SubSeq(wire, n + 1, Len(wire))
  /\ pc' = "decode"
  /\ UNCHANGED <<sender, decoded, delivered, raised, faults>>

\* recv returns no bytes.
RecvEof ==
  /\ pc = "recv" /\ wire = <<>> /\ closed
  /\ pc' = "stopped"
  /\ UNCHANGED <<sender, wire, buffer, decoded, delivered, raised, faults>>

\* recv raises OSError, the stop flag is set, or (server, between two messages)
\* the session was closed by another thread.
ReceiverStops ==
  /\ pc \in {"recv", "dispatch"}
  /\ faults < MaxFaults
  /\ faults' = faults + 1
  /\ pc' = "stopped"
  /\ UNCHANGED <<sender, wire, buffer, decoded, delivered, raised>>

\* The value of a byte: a big-endian digit of the length, or some character of
\* JSON text; any from 32 on makes a prefix that begins with it too large.
ByteValue(b) ==
  IF b.pos <= HEADER_SIZE
  THEN (frames[b.frame].len \div <<16777216, 65536, 256, 1>>[b.pos]) % 256
  ELSE 34

LengthPrefix(bytes) ==
  16777216 * ByteValue(bytes[1]) + 65536 * ByteValue(bytes[2])
    + 256 * ByteValue(bytes[3]) + ByteValue(bytes[4])

HeaderArrived == Len(buffer) >= HEADER_SIZE
ValidLength == LengthPrefix(buffer) \in 1..MAX_FRAME_SIZE
FrameEnd == HEADER_SIZE + LengthPrefix(buffer)

\* Mutant: <= for < in decode_frame, a frame is taken only when more follows.
FrameArrivedStrict == HeaderArrived /\ ValidLength /\ Len(buffer) > FrameEnd

\* A whole frame is at the head of the buffer, or what passes for one.
FrameArrived == HeaderArrived /\ ValidLength /\ Len(buffer) >= FrameEnd

\* ProtocolMessage.from_json accepts exactly the bodies of good frames: other
\* runs of bytes cut a body or contain a header's zeros.
Parses ==
  LET k == buffer[HEADER_SIZE + 1].frame
  IN  /\ frames[k].good
      /\ frames[k].len = LengthPrefix(buffer)
      /\ \A i \in (HEADER_SIZE + 1)..FrameEnd :
           buffer[i] = [frame |-> k, pos |-> i]

\* Mutant: decode_frames returns after the first frame.
DecodeFrameOnce ==
  /\ pc = "decode"
  /\ FrameArrived /\ Parses
  /\ decoded' = Append(decoded, buffer[HEADER_SIZE + 1].frame)
  /\ buffer' = SubSeq(buffer, FrameEnd + 1, Len(buffer))
  /\ pc' = "dispatch"
  /\ UNCHANGED <<sender, wire, delivered, raised, faults>>

\* One turn of the loop of decode_frames.
DecodeFrame ==
  /\ pc = "decode"
  /\ FrameArrived /\ Parses
  /\ decoded' = Append(decoded, buffer[HEADER_SIZE + 1].frame)
  /\ buffer' = SubSeq(buffer, FrameEnd + 1, Len(buffer))
  /\ UNCHANGED <<sender, wire, pc, delivered, raised, faults>>

\* Mutant: what is left of the buffer is not kept for the next read.
DecodeReturnsNothing ==
  /\ pc = "decode"
  /\ HeaderArrived => ValidLength /\ ~FrameArrived
  /\ buffer' = <<>>
  /\ pc' = "dispatch"
  /\ UNCHANGED <<sender, wire, decoded, delivered, raised, faults>>

\* decode_frames returns what is left.
DecodeReturns ==
  /\ pc = "decode"
  /\ HeaderArrived => ValidLength /\ ~FrameArrived
  /\ pc' = "dispatch"
  /\ UNCHANGED <<sender, wire, buffer, decoded, delivered, raised, faults>>

\* decode_frames raises, and with its local messages goes what it has decoded;
\* the caller reports the error and empties the buffer.
DecodeRaises ==
  /\ pc = "decode"
  /\ HeaderArrived
  /\ ~ValidLength \/ (FrameArrived /\ ~Parses)
  /\ decoded' = <<>>
  /\ buffer' = <<>>
  /\ pc' = "recv"
  /\ UNCHANGED <<sender, wire, delivered, raised, faults>>

Dispatch ==
  /\ pc = "dispatch" /\ decoded # <<>>
  /\ delivered' = Append(delivered, Head(decoded))
  /\ decoded' = Tail(decoded)
  /\ UNCHANGED <<sender, wire, buffer, pc, raised, faults>>

\* The handler raises: the loop over messages ends, and the client goes on with
\* the next recv while the server gives the connection up.
HandlerRaises ==
  /\ pc = "dispatch" /\ decoded # <<>>
  /\ faults < MaxFaults
  /\ faults' = faults + 1
  /\ raised' = TRUE
  /\ delivered' = Append(delivered, Head(decoded))
  /\ decoded' = <<>>
  /\ pc' \in {"recv", "stopped"}
  /\ UNCHANGED <<sender, wire, buffer>>

DispatchEnds ==
  /\ pc = "dispatch" /\ decoded = <<>>
  /\ pc' = "recv"
  /\ UNCHANGED <<sender, wire, buffer, decoded, delivered, raised, faults>>

-----------------------------------------------------------------------------
Receive ==
  \/ Recv \/ RecvEof
  \/ DecodeFrame \/ DecodeReturns \/ DecodeRaises
  \/ Dispatch \/ DispatchEnds

Next ==
  \/ \E t \in Thread : BeginSend(t) \/ SendSome(t) \/ SendFails(t)
  \/ CloseSession
  \/ Receive
  \/ ReceiverStops \/ HandlerRaises

FramingSpec == Init /\ [][Next]_vars

\* A sendall that has begun goes on, because the receiver reads; the receiving
\* thread runs.
FairFramingSpec ==
  FramingSpec /\ WF_vars(Receive) /\ \A t \in Thread : WF_vars(SendSome(t))

-----------------------------------------------------------------------------
(* Properties.                                                              *)

FramingTypeOK ==
  /\ closed \in BOOLEAN
  /\ lock \in Thread \union {NoThread}
  /\ unsent \in [Thread -> Seq(Byte)]
  /\ frames \in Seq(Envelope)
  /\ wire \in Seq(Byte)
  /\ buffer \in Seq(Byte)
  /\ pc \in {"recv", "decode", "dispatch", "stopped"}
  /\ decoded \in Seq(Nat)
  /\ delivered \in Seq(Nat)
  /\ raised \in BOOLEAN
  /\ faults \in 0..MaxFaults

\* The bytes that are underway, in the order in which the receiver sees them.
Pending == IF lock = NoThread THEN <<>> ELSE unsent[lock]
Stream == (buffer \o wire) \o Pending

\* send "is safe to call from any thread": the bytes of two frames never mix,
\* and wherever the receiver has dropped its buffer, what follows is the rest of
\* one frame and then whole frames.
FramesDoNotMix ==
  \A a \in DOMAIN Stream : a + 1 \in DOMAIN Stream =>
    LET b == Stream[a]
    IN  Stream[a + 1] = IF b.pos < SizeOf(b.frame)
                        THEN [frame |-> b.frame, pos |-> b.pos + 1]
                        ELSE [frame |-> b.frame + 1, pos |-> 1]

\* The receiver never waits for bytes while a frame it could handle is in its
\* buffer, and so the buffer stays below one frame between two reads.
NothingHeldBack ==
  pc = "recv" =>
    /\ ~FrameArrived
    /\ Len(buffer) < HEADER_SIZE + MAX_FRAME_SIZE

\* However the stream is cut, it decodes to the messages sent: in order, none
\* twice, and none passed over unless a later one comes after an unreadable
\* frame or a handler that raised.
Channel == INSTANCE MessageChannel WITH
  Message <- Envelope, sent <- frames, got <- delivered, excused <- raised

ImplementsChannel == Channel!ChannelSpec

\* Every frame is handled if all are readable and nothing fails: no cut leaves
\* one in the buffer.  A single unreadable frame may cost those read with it,
\* also the good ones before it.
EveryFrameArrives ==
  \A k \in 1..MaxFrames :
    k <= Len(frames) ~> \/ faults > 0
                       \/ \E j \in DOMAIN frames : ~frames[j].good
                       \/ \E i \in DOMAIN delivered : delivered[i] = k
=============================================================================
