------------------------ MODULE FramingChannel_proofs ------------------------
(***************************************************************************)
(* Framing implements MessageChannel, however the stream of bytes is cut.  *)
(***************************************************************************)
EXTENDS Framing_proofs

LastDone == Channel!Latest(delivered)

\* The last frame that was taken off the buffer, apart from those lost with a
\* batch.
Taken == IF decoded = <<>> THEN LastDone ELSE decoded[Len(decoded)]

\* The channel may pass over frames before the k-th.
Excusable(k) == raised \/ Channel!Unreadable(k)

\* What is decoded can be dispatched, one after the other.
OrderInv ==
  /\ LastDone \in 0..Len(frames)
  /\ \A i \in 1..Len(decoded) :
       /\ decoded[i] \in 1..Len(frames)
       /\ frames[decoded[i]].good
       /\ LastDone < decoded[i]
  /\ \A i, j \in 1..Len(decoded) : i < j => decoded[i] < decoded[j]
  /\ decoded # <<>> => decoded[1] = LastDone + 1 \/ Excusable(decoded[1])
  /\ \A i \in 1..Len(decoded) : i > 1 =>
       decoded[i] = decoded[i - 1] + 1 \/ Excusable(decoded[i])

\* The stream is ahead of what was taken, and goes on right after it unless a
\* frame was lost for a reason.
NextInv ==
  /\ Stream # <<>> => Taken < Stream[1].frame
  /\ Stream # <<>> /\ ~Excusable(Stream[1].frame) =>
       Stream[1] = [frame |-> Taken + 1, pos |-> 1]
  /\ Stream = <<>> /\ ~closed /\ ~Excusable(Len(frames)) => Taken = Len(frames)

ChannelInv == OrderInv /\ NextInv

-----------------------------------------------------------------------------
LEMMA LatestAppended ==
  ASSUME NEW s \in Seq(Nat), NEW n \in Nat
  PROVE  Channel!Latest(Append(s, n)) = n
<1>1. /\ Append(s, n) \in Seq(Nat) /\ Len(Append(s, n)) = Len(s) + 1
      /\ Append(s, n)[Len(s) + 1] = n /\ Len(s) \in Nat
  BY AppendProperties, LenProperties
<1>2. Append(s, n) # <<>>
  BY <1>1
<1> QED
  BY <1>1, <1>2 DEF Channel!Latest

LEMMA TakenBounds ==
  ASSUME FramingTypeOK, OrderInv
  PROVE  /\ Taken \in 0..Len(frames) /\ LastDone <= Taken
         /\ \A i \in 1..Len(decoded) : decoded[i] <= Taken
<1>1. decoded \in Seq(Nat) /\ Len(decoded) \in Nat /\ Len(frames) \in Nat
  BY LenProperties DEF FramingTypeOK
<1>2. CASE decoded = <<>>
  <2>1. Len(decoded) = 0 /\ Taken = LastDone
    BY <1>2, EmptySeq DEF Taken
  <2> QED
    BY <1>1, <2>1 DEF OrderInv
<1>3. CASE decoded # <<>>
  <2>1. Len(decoded) \in 1..Len(decoded) /\ Taken = decoded[Len(decoded)]
    BY <1>1, <1>3, EmptySeq DEF Taken
  <2>2. Taken \in 0..Len(frames) /\ LastDone <= Taken
    BY <1>1, <2>1 DEF OrderInv
  <2>3. \A i \in 1..Len(decoded) : decoded[i] <= Taken
    <3> SUFFICES ASSUME NEW i \in 1..Len(decoded) PROVE decoded[i] <= Taken
      OBVIOUS
    <3>1. i = Len(decoded) \/ i < Len(decoded)
      BY <1>1
    <3>2. decoded[i] \in Nat /\ decoded[Len(decoded)] \in Nat
      BY <1>1, <2>1, ElementOfSeq
    <3> QED
      BY <2>1, <3>1, <3>2 DEF OrderInv
  <2> QED
    BY <2>2, <2>3
<1> QED
  BY <1>2, <1>3

\* Whether a frame may be passed over does not change when others are sent, and
\* an excuse for one frame is an excuse for every later one.
LEMMA ExcuseKept ==
  ASSUME FramingTypeOK, raised' = raised, NEW k \in 0..Len(frames),
         \A j \in 1..Len(frames) : frames'[j] = frames[j]
  PROVE  Excusable(k)' = Excusable(k)
<1>1. Len(frames) \in Nat
  BY LenProperties DEF FramingTypeOK
<1>2. \A j \in 1..k : frames'[j] = frames[j]
  BY <1>1
<1>3. Channel!Unreadable(k)' = Channel!Unreadable(k)
  BY <1>2 DEF Channel!Unreadable
<1> QED
  BY <1>3 DEF Excusable

LEMMA ExcuseGrows ==
  ASSUME NEW j \in Nat, NEW k \in Nat, j <= k, Excusable(j)
  PROVE  Excusable(k)
BY DEF Excusable, Channel!Unreadable

-----------------------------------------------------------------------------
(* The frame at the head of the buffer.                                     *)

\* If the buffer begins with a frame, its prefix is the frame's length and the
\* bytes after it are the frame's.
LEMMA HeadFrame ==
  ASSUME FramingTypeOK, StreamInv, HeaderArrived,
         NEW k, Stream[1] = [frame |-> k, pos |-> 1]
  PROVE  /\ Stream # <<>> /\ k \in 1..Len(frames)
         /\ LengthPrefix(buffer) = frames[k].len
         /\ FrameEnd = FrameSize(frames, k)
         /\ \A i \in 1..Len(buffer) :
              i <= FrameEnd => buffer[i] = [frame |-> k, pos |-> i]
<1>1. /\ Len(buffer) \in Nat /\ Len(buffer) >= 4 /\ Len(Stream) \in Nat
      /\ Len(Stream) >= Len(buffer) /\ DOMAIN Stream = 1..Len(Stream)
      /\ \A i \in 1..Len(buffer) : Stream[i] = buffer[i]
  BY StreamParts, Sizes DEF HeaderArrived
<1>2. Stream # <<>>
  BY <1>1, EmptySeq
<1>3. k \in 1..Len(frames)
  BY <1>1 DEF StreamInv, WellCut, InRange
<1>4. /\ FrameSize(frames, k) \in Nat /\ FrameSize(frames, k) > 4
      /\ FrameSize(frames, k) = HEADER_SIZE + frames[k].len
  BY <1>3, EnvelopeOf, Sizes DEF FrameSize, FramingTypeOK
<1>5. \A i \in 1..Len(buffer) :
        i <= FrameSize(frames, k) => buffer[i] = [frame |-> k, pos |-> i]
  <2> SUFFICES ASSUME NEW i \in 1..Len(buffer), i <= FrameSize(frames, k)
               PROVE  buffer[i] = [frame |-> k, pos |-> i]
    OBVIOUS
  <2>1. 1 \in DOMAIN Stream /\ i \in DOMAIN Stream /\ 1 <= i
    BY <1>1
  <2>2. 1 + (i - 1) = i
    BY <1>1
  <2>3. /\ Stream[1].pos = 1 /\ Stream[1].frame = k
    OBVIOUS
  <2>4. Stream[i] = [frame |-> k, pos |-> i]
    BY <2>1, <2>2, <2>3 DEF StreamInv, WellCut, Runs
  <2> QED
    BY <1>1, <2>4
<1>6. LengthPrefix(buffer) = frames[k].len
  <2>1. \A i \in 1..4 : buffer[i] = [frame |-> k, pos |-> i]
    BY <1>1, <1>4, <1>5
  <2> QED
    BY <1>3, <2>1, PrefixIsLength
<1>7. FrameEnd = FrameSize(frames, k)
  BY <1>4, <1>6 DEF FrameEnd
<1> QED
  BY <1>2, <1>3, <1>5, <1>6, <1>7

\* decode_frames raises only when some frame that had begun cannot be parsed.
LEMMA RaisesExcused ==
  ASSUME FramingTypeOK, StreamInv, OrderInv, NextInv, DecodeRaises
  PROVE  Stream # <<>> /\ Excusable(Stream[1].frame)
<1>1. HeaderArrived /\ (~ValidLength \/ (FrameArrived /\ ~Parses))
  BY DEF DecodeRaises
<1>2. /\ Len(buffer) \in Nat /\ Len(buffer) >= 4 /\ Len(Stream) \in Nat
      /\ Len(Stream) >= Len(buffer)
  BY <1>1, StreamParts, Sizes DEF HeaderArrived
<1>3. Stream # <<>>
  BY <1>2, EmptySeq
<1>4. ASSUME ~Excusable(Stream[1].frame) PROVE FALSE
  <2> DEFINE k == Taken + 1
  <2>1. Stream[1] = [frame |-> k, pos |-> 1]
    BY <1>3, <1>4 DEF NextInv
  <2> HIDE DEF k
  <2>2. /\ k \in 1..Len(frames) /\ LengthPrefix(buffer) = frames[k].len
        /\ \A i \in 1..Len(buffer) :
             i <= FrameEnd => buffer[i] = [frame |-> k, pos |-> i]
    BY <1>1, <2>1, HeadFrame
  <2>3. LengthPrefix(buffer) \in 1..MAX_FRAME_SIZE
    BY <2>2, EnvelopeOf DEF FramingTypeOK
  <2>4. ValidLength
    BY <2>3 DEF ValidLength
  <2>5. FrameArrived /\ ~Parses
    BY <1>1, <2>4
  <2>6. /\ FrameEnd \in Nat /\ FrameEnd <= Len(buffer)
        /\ HEADER_SIZE + 1 \in 1..Len(buffer) /\ HEADER_SIZE + 1 <= FrameEnd
    BY <1>2, <2>3, <2>5, Sizes DEF FrameArrived, FrameEnd
  <2>7. buffer[HEADER_SIZE + 1].frame = k
    <3>1. buffer[HEADER_SIZE + 1] = [frame |-> k, pos |-> HEADER_SIZE + 1]
      BY <2>2, <2>6
    <3> QED
      BY <3>1
  <2>8. \A i \in (HEADER_SIZE + 1)..FrameEnd : buffer[i] = [frame |-> k, pos |-> i]
    BY <1>2, <2>2, <2>6, Sizes
  <2>9. frames[k].good
    BY <1>4, <2>1, <2>2 DEF Excusable, Channel!Unreadable
  <2> QED
    BY <2>2, <2>5, <2>7, <2>8, <2>9 DEF Parses
<1> QED
  BY <1>3, <1>4

\* What a turn of the decode loop takes is a whole frame, and the stream goes on
\* with the next one.
LEMMA FrameTaken ==
  ASSUME FramingTypeOK, StreamInv, DecodeFrame,
         NEW k, k = buffer[HEADER_SIZE + 1].frame
  PROVE  /\ k \in 1..Len(frames) /\ frames[k].good
         /\ Stream # <<>> /\ Stream[1].frame <= k
         /\ Stream[1].pos = 1 => Stream[1].frame = k
         /\ FrameEnd \in 1..Len(Stream)
         /\ Stream[FrameEnd] = [frame |-> k, pos |-> FrameSize(frames, k)]
         /\ FrameEnd < Len(Stream) =>
              Stream[FrameEnd + 1] = [frame |-> k + 1, pos |-> 1]
<1>1. /\ Len(buffer) \in Nat /\ Len(Stream) \in Nat
      /\ Len(Stream) >= Len(buffer) /\ DOMAIN Stream = 1..Len(Stream)
      /\ \A i \in 1..Len(buffer) : Stream[i] = buffer[i]
  BY StreamParts
<1>2. FrameEnd \in 0..Len(buffer) /\ FrameEnd > HEADER_SIZE
  BY DecodeTakes
<1>3. HEADER_SIZE + 1 = 5 /\ FrameEnd \in 5..Len(buffer)
  BY <1>1, <1>2, Sizes
<1>4. Stream # <<>>
  BY <1>1, <1>3, EmptySeq
<1>5. /\ frames[k].good /\ frames[k].len = LengthPrefix(buffer)
      /\ \A i \in 5..FrameEnd : buffer[i] = [frame |-> k, pos |-> i]
  BY <1>3 DEF DecodeFrame, Parses
<1>6. FrameEnd = FrameSize(frames, k)
  BY <1>5 DEF FrameEnd, FrameSize
<1>7. /\ Stream[5] = [frame |-> k, pos |-> 5]
      /\ Stream[FrameEnd] = [frame |-> k, pos |-> FrameEnd]
  BY <1>1, <1>3, <1>5
<1>8. 1 \in DOMAIN Stream /\ 5 \in DOMAIN Stream
  BY <1>1, <1>3
<1>9. k \in 1..Len(frames)
  BY <1>7, <1>8 DEF StreamInv, WellCut, InRange
<1>10. Stream[1].frame <= k
  BY <1>7, <1>8 DEF StreamInv, WellCut, Climbs
<1>11. ASSUME Stream[1].pos = 1 PROVE Stream[1].frame = k
  <2> DEFINE j == Stream[1].frame
  <2>1. j \in 1..Len(frames)
    BY <1>8 DEF StreamInv, WellCut, InRange
  <2> HIDE DEF j
  <2>2. FrameSize(frames, j) \in Nat /\ FrameSize(frames, j) >= 5
    <3>1. frames[j].len \in 1..MAX_FRAME_SIZE
      BY <2>1, EnvelopeOf DEF FramingTypeOK
    <3> QED
      BY <3>1, Sizes DEF FrameSize
  <2> USE DEF j
  <2>3. Stream[1].pos + (5 - 1) <= FrameSize(frames, j)
    BY <1>11, <2>2
  <2>4. Stream[5] = [frame |-> j, pos |-> Stream[1].pos + (5 - 1)]
    BY <1>8, <2>3 DEF StreamInv, WellCut, Runs
  <2> QED
    BY <1>7, <2>4
<1>12. ASSUME FrameEnd < Len(Stream)
       PROVE  Stream[FrameEnd + 1] = [frame |-> k + 1, pos |-> 1]
  <2>1. FrameEnd \in DOMAIN Stream /\ FrameEnd + 1 \in DOMAIN Stream
        /\ FrameEnd <= FrameEnd + 1 /\ (FrameEnd + 1) - FrameEnd = 1
    BY <1>1, <1>3, <1>12
  <2>2. Stream[FrameEnd].frame = k /\ Stream[FrameEnd].pos = FrameEnd
    BY <1>7
  <2> QED
    BY <1>6, <2>1, <2>2 DEF StreamInv, WellCut, Runs
<1>13. FrameEnd \in 1..Len(Stream)
  BY <1>1, <1>3
<1> QED
  BY <1>4, <1>5, <1>6, <1>7, <1>9, <1>10, <1>11, <1>12, <1>13

-----------------------------------------------------------------------------
(* The steps.                                                               *)

receiving == <<decoded, delivered, raised>>

\* What is decoded stays in order while other frames are sent.
LEMMA OrderKept ==
  ASSUME FramingTypeOK, OrderInv, UNCHANGED receiving,
         Len(frames') \in Nat, Len(frames) <= Len(frames'),
         \A j \in 1..Len(frames) : frames'[j] = frames[j]
  PROVE  OrderInv' /\ Taken' = Taken
<1>1. /\ decoded' = decoded /\ delivered' = delivered /\ raised' = raised
      /\ Len(frames) \in Nat
  BY LenProperties DEF receiving, FramingTypeOK
<1>2. LastDone' = LastDone /\ Taken' = Taken
  BY <1>1 DEF LastDone, Taken, Channel!Latest
<1>3. \A i \in 1..Len(decoded) : Excusable(decoded[i])' = Excusable(decoded[i])
  <2> SUFFICES ASSUME NEW i \in 1..Len(decoded)
               PROVE  Excusable(decoded[i])' = Excusable(decoded[i])
    OBVIOUS
  <2>1. decoded[i] \in 0..Len(frames)
    BY <1>1 DEF OrderInv
  <2> DEFINE k == decoded[i]
  <2>2. k' = k
    BY <1>1
  <2> HIDE DEF k
  <2>3. Excusable(k)' = Excusable(k)
    BY <1>1, <2>1, <2>2, ExcuseKept DEF k
  <2> QED
    BY <2>3 DEF k
<1>4. \A i \in 1..Len(decoded) :
        decoded[i] \in 1..Len(frames') /\ frames'[decoded[i]].good
  BY <1>1 DEF OrderInv
<1>5. LastDone \in 0..Len(frames')
  BY <1>1 DEF OrderInv
<1>6. decoded # <<>> => 1 \in 1..Len(decoded)
  <2>1. Len(decoded) \in Nat /\ (Len(decoded) = 0 => decoded = <<>>)
    BY LenProperties, EmptySeq DEF FramingTypeOK
  <2> QED
    BY <2>1
<1> QED
  BY <1>1, <1>2, <1>3, <1>4, <1>5, <1>6 DEF OrderInv

LEMMA SendStep ==
  ASSUME FramingTypeOK, StreamInv, ChannelInv, NEW t \in Thread, BeginSend(t)
  PROVE  ChannelInv'
<1>1. PICK e \in Envelope :
        /\ frames' = Append(frames, e)
        /\ Stream' = Stream \o EncodeFrame(Len(frames) + 1, e.len)
  BY StreamGrows
<1>2. /\ Stream \in Seq(Byte) /\ frames \in Seq(Envelope)
      /\ ~closed /\ closed' = closed /\ UNCHANGED receiving
  BY StreamParts DEF FramingTypeOK, BeginSend, receiver, receiving
<1>3. Stream # <<>> => EndsWith(Stream, frames)
  BY <1>2 DEF StreamInv
<1>4. /\ Stream' # <<>>
      /\ Stream'[1] = IF Stream = <<>> THEN [frame |-> Len(frames) + 1, pos |-> 1]
                                       ELSE Stream[1]
  BY <1>1, <1>2, <1>3, FrameAfterRun DEF StreamInv
<1>5. /\ Len(frames) \in Nat /\ Len(frames') = Len(frames) + 1
      /\ \A j \in 1..Len(frames) : frames'[j] = frames[j]
  BY <1>1, <1>2, AppendProperties, LenProperties
<1>6. OrderInv' /\ Taken' = Taken
  BY <1>2, <1>5, OrderKept DEF ChannelInv
<1>7. Taken \in 0..Len(frames)
  BY TakenBounds DEF ChannelInv
<1>8. raised' = raised
  BY <1>2 DEF receiving
<1>9. CASE Stream = <<>>
  <2>1. Stream'[1] = [frame |-> Len(frames) + 1, pos |-> 1]
    BY <1>4, <1>9
  <2>2. ~(raised' \/ \E j \in 1..(Len(frames) + 1) : ~frames'[j].good)
          => ~Excusable(Len(frames))
    <3>1. Len(frames) \in 0..Len(frames) /\ Len(frames) <= Len(frames) + 1
      BY <1>5
    <3>2. \A j \in 1..Len(frames) : j \in 1..(Len(frames) + 1)
      BY <1>5
    <3> QED
      BY <1>5, <1>8, <3>2 DEF Excusable, Channel!Unreadable
  <2>3. (Stream[1].frame)' = Len(frames) + 1
    BY <2>1
  <2>4. Taken' < (Stream[1].frame)'
    BY <1>5, <1>6, <1>7, <2>3
  <2>5. ASSUME ~Excusable(Stream[1].frame)'
        PROVE  (Stream[1])' = [frame |-> Taken' + 1, pos |-> 1]
    <3>1. ~(raised' \/ \E j \in 1..(Len(frames) + 1) : ~frames'[j].good)
      BY <2>3, <2>5 DEF Excusable, Channel!Unreadable
    <3>2. Taken = Len(frames)
      BY <1>2, <1>9, <2>2, <3>1 DEF ChannelInv, NextInv
    <3> QED
      BY <1>6, <2>1, <3>2
  <2> QED
    BY <1>4, <1>6, <2>4, <2>5 DEF ChannelInv, NextInv
<1>10. CASE Stream # <<>>
  <2> DEFINE b == Stream[1]
  <2>1. Stream'[1] = b
    BY <1>4, <1>10
  <2>2. b.frame \in 0..Len(frames)
    <3>1. 1 \in DOMAIN Stream
      BY <1>2, <1>10, LenProperties, EmptySeq
    <3> QED
      BY <1>5, <3>1 DEF StreamInv, WellCut, InRange
  <2>3. Taken < b.frame
    BY <1>10 DEF ChannelInv, NextInv
  <2>4. ~Excusable(b.frame) => b = [frame |-> Taken + 1, pos |-> 1]
    BY <1>10 DEF ChannelInv, NextInv
  <2> HIDE DEF b
  <2>5. Excusable(Stream[1].frame)' = Excusable(b.frame)
    BY <1>5, <1>8, <2>1, <2>2 DEF Excusable, Channel!Unreadable
  <2> QED
    BY <1>4, <1>6, <2>1, <2>3, <2>4, <2>5 DEF ChannelInv, NextInv
<1> QED
  BY <1>9, <1>10

\* A step that leaves the frames and what was decoded alone and takes nothing,
\* or only the end of an unfinished frame, off the stream.
LEMMA QuietStep ==
  ASSUME FramingTypeOK, StreamInv, ChannelInv, UNCHANGED <<frames, receiving>>,
         \/ Stream' = Stream /\ closed' \in {closed, TRUE}
         \/ closed' = TRUE /\ (Stream' # <<>> =>
                                 Stream # <<>> /\ Stream'[1] = Stream[1])
  PROVE  ChannelInv'
<1>1. /\ frames' = frames /\ UNCHANGED receiving /\ raised' = raised
      /\ Len(frames) \in Nat
  BY LenProperties DEF receiving, FramingTypeOK
<1>2. OrderInv' /\ Taken' = Taken
  BY <1>1, OrderKept DEF ChannelInv
<1>3. \A k : Excusable(k)' <=> Excusable(k)
  BY <1>1 DEF Excusable, Channel!Unreadable
<1>4. Stream' # <<>> => Stream # <<>> /\ Stream'[1] = Stream[1]
  OBVIOUS
<1>5. ASSUME Stream' # <<>>
      PROVE  /\ Taken' < (Stream[1].frame)'
             /\ ~Excusable(Stream[1].frame)' =>
                  (Stream[1])' = [frame |-> Taken' + 1, pos |-> 1]
  <2>1. (Stream[1])' = Stream[1] /\ Stream # <<>>
    BY <1>4, <1>5
  <2>2. Excusable(Stream[1].frame)' <=> Excusable(Stream[1].frame)
    BY <1>1, <2>1 DEF Excusable, Channel!Unreadable
  <2> QED
    BY <1>2, <2>1, <2>2 DEF ChannelInv, NextInv
<1>6. ASSUME Stream' = <<>>, ~closed', ~Excusable(Len(frames))'
      PROVE  Taken' = Len(frames')
  <2>1. Stream = <<>> /\ ~closed
    <3>1. closed' # TRUE
      BY <1>6
    <3>2. Stream' = Stream /\ closed' = closed
      BY <3>1
    <3> QED
      BY <1>6, <3>2
  <2>2. ~Excusable(Len(frames))
    BY <1>1, <1>6 DEF Excusable, Channel!Unreadable
  <2> QED
    BY <1>1, <1>2, <2>1, <2>2 DEF ChannelInv, NextInv
<1> QED
  BY <1>2, <1>5, <1>6 DEF ChannelInv, NextInv

LEMMA FailStep ==
  ASSUME FramingTypeOK, StreamInv, ChannelInv, NEW t \in Thread, SendFails(t)
  PROVE  ChannelInv'
<1>1. closed' = TRUE /\ UNCHANGED <<frames, receiving>>
  BY DEF SendFails, receiver, receiving
<1>2. PICK n \in 0..Len(Stream) : Stream' = SubSeq(Stream, 1, n)
  BY StreamEndsEarly
<1>3. Stream \in Seq(Byte) /\ Len(Stream) \in Nat
  BY StreamParts, LenProperties
<1>4. /\ SubSeq(Stream, 1, n) \in Seq(Byte) /\ Len(SubSeq(Stream, 1, n)) = n
      /\ \A i \in 1..n : SubSeq(Stream, 1, n)[i] = Stream[i]
  BY <1>3, CutSeq
<1>5. ASSUME Stream' # <<>> PROVE Stream # <<>> /\ Stream'[1] = Stream[1]
  <2>1. n # 0
    BY <1>2, <1>4, <1>5, EmptySeq
  <2>2. 1 \in 1..n /\ Len(Stream) # 0
    BY <1>3, <2>1
  <2> QED
    BY <1>2, <1>4, <2>2, EmptySeq
<1> QED
  BY <1>1, <1>5, QuietStep

LEMMA DecodeStep ==
  ASSUME FramingTypeOK, StreamInv, ChannelInv, DecodeFrame
  PROVE  ChannelInv'
<1> DEFINE k == buffer[HEADER_SIZE + 1].frame
           s == SubSeq(Stream, FrameEnd + 1, Len(Stream))
<1>1. /\ decoded' = Append(decoded, k) /\ frames' = frames /\ closed' = closed
      /\ delivered' = delivered /\ raised' = raised
  BY DEF DecodeFrame, sender
<1>2. /\ k \in 1..Len(frames) /\ frames[k].good
      /\ Stream # <<>> /\ Stream[1].frame <= k
      /\ Stream[1].pos = 1 => Stream[1].frame = k
      /\ FrameEnd \in 1..Len(Stream)
      /\ Stream[FrameEnd] = [frame |-> k, pos |-> FrameSize(frames, k)]
      /\ FrameEnd < Len(Stream) =>
           Stream[FrameEnd + 1] = [frame |-> k + 1, pos |-> 1]
  BY FrameTaken
<1>3. Stream' = s
  BY DecodeTakes
<1> HIDE DEF k
<1>4. /\ decoded \in Seq(Nat) /\ Len(decoded) \in Nat /\ Len(frames) \in Nat
      /\ Stream \in Seq(Byte) /\ Len(Stream) \in Nat
  BY StreamParts, LenProperties DEF FramingTypeOK
<1>5. /\ Taken \in 0..Len(frames) /\ LastDone <= Taken
      /\ \A i \in 1..Len(decoded) : decoded[i] <= Taken
      /\ LastDone \in 0..Len(frames)
      /\ \A i \in 1..Len(decoded) : decoded[i] \in 1..Len(frames)
  BY TakenBounds DEF ChannelInv, OrderInv
<1>6. Stream[1].frame \in 1..Len(frames) /\ Stream[1].frame > Taken
  <2>1. 1 \in DOMAIN Stream
    BY <1>2, <1>4
  <2> QED
    BY <1>2, <2>1 DEF StreamInv, WellCut, InRange, ChannelInv, NextInv
<1>7. Taken < k /\ k \in Nat
  BY <1>2, <1>4, <1>5, <1>6
<1>8. k = Taken + 1 \/ Excusable(k)
  <2> SUFFICES ASSUME ~Excusable(k) PROVE k = Taken + 1
    OBVIOUS
  <2>1. ~Excusable(Stream[1].frame)
    BY <1>2, <1>4, <1>6, ExcuseGrows
  <2>2. Stream[1] = [frame |-> Taken + 1, pos |-> 1]
    BY <1>2, <2>1 DEF ChannelInv, NextInv
  <2> QED
    BY <1>2, <2>2
<1>9. \A i : Excusable(i) <=> (raised' \/ \E j \in 1..i : ~frames'[j].good)
  BY <1>1 DEF Excusable, Channel!Unreadable
<1>10. LastDone' = LastDone
  BY <1>1 DEF LastDone, Channel!Latest
<1>11. /\ Append(decoded, k) \in Seq(Nat)
       /\ Len(Append(decoded, k)) = Len(decoded) + 1
       /\ \A i \in 1..Len(decoded) : Append(decoded, k)[i] = decoded[i]
       /\ Append(decoded, k)[Len(decoded) + 1] = k
       /\ Append(decoded, k) # <<>>
  <2>1. /\ Append(decoded, k) \in Seq(Nat)
        /\ Len(Append(decoded, k)) = Len(decoded) + 1
        /\ \A i \in 1..Len(decoded) : Append(decoded, k)[i] = decoded[i]
        /\ Append(decoded, k)[Len(decoded) + 1] = k
    BY <1>4, <1>7, AppendProperties
  <2> QED
    BY <1>4, <2>1, EmptySeq
<1> DEFINE d == Append(decoded, k)
<1> HIDE DEF d
<1>12. /\ d \in Seq(Nat) /\ Len(d) = Len(decoded) + 1 /\ d # <<>>
       /\ \A i \in 1..Len(decoded) : d[i] = decoded[i]
       /\ d[Len(decoded) + 1] = k /\ decoded' = d
  BY <1>1, <1>11 DEF d
<1>13. Taken' = k
  BY <1>12 DEF Taken
<1>14. OrderInv'
  <2>1. \A i \in 1..Len(d) :
          d[i] \in 1..Len(frames) /\ frames[d[i]].good /\ LastDone < d[i]
    <3>1. \A i \in 1..Len(decoded) :
            d[i] \in 1..Len(frames) /\ frames[d[i]].good /\ LastDone < d[i]
      BY <1>12 DEF ChannelInv, OrderInv
    <3>2. k \in 1..Len(frames) /\ frames[k].good /\ LastDone < k
      BY <1>2, <1>4, <1>5, <1>7
    <3>3. \A i \in 1..Len(d) : i \in 1..Len(decoded) \/ i = Len(decoded) + 1
      BY <1>4, <1>12
    <3> QED
      BY <1>12, <3>1, <3>2, <3>3
  <2>2. \A i, j \in 1..Len(d) : i < j => d[i] < d[j]
    <3> SUFFICES ASSUME NEW i \in 1..Len(d), NEW j \in 1..Len(d), i < j
                 PROVE  d[i] < d[j]
      OBVIOUS
    <3>1. CASE j \in 1..Len(decoded)
      <4>1. i \in 1..Len(decoded)
        BY <1>4, <1>12, <3>1
      <4>2. decoded[i] < decoded[j]
        BY <3>1, <4>1 DEF ChannelInv, OrderInv
      <4> QED
        BY <1>12, <3>1, <4>1, <4>2
    <3>2. CASE j = Len(decoded) + 1
      <4>1. i \in 1..Len(decoded)
        BY <1>4, <1>12, <3>2
      <4>2. decoded[i] <= Taken /\ decoded[i] \in Nat
        BY <1>4, <1>5, <4>1
      <4>3. decoded[i] < k
        BY <1>4, <1>5, <1>7, <4>2
      <4> QED
        BY <1>12, <3>2, <4>1, <4>3
    <3>3. j \in 1..Len(decoded) \/ j = Len(decoded) + 1
      <4>1. Len(d) = Len(decoded) + 1 /\ Len(decoded) \in Nat
        BY <1>4, <1>12
      <4> QED
        BY <4>1
    <3> QED
      BY <3>1, <3>2, <3>3
  <2>3. d[1] = LastDone + 1 \/ Excusable(d[1])
    <3>1. CASE Len(decoded) = 0
      <4>1. decoded = <<>> /\ d[1] = k
        BY <1>4, <1>12, <3>1, EmptySeq
      <4>2. Taken = LastDone
        BY <4>1 DEF Taken
      <4> QED
        BY <1>8, <4>1, <4>2
    <3>2. CASE Len(decoded) # 0
      <4>1. 1 \in 1..Len(decoded) /\ decoded # <<>>
        BY <1>4, <3>2, EmptySeq
      <4> QED
        BY <1>12, <4>1 DEF ChannelInv, OrderInv
    <3> QED
      BY <3>1, <3>2
  <2>4. ASSUME NEW i \in 1..Len(d), i > 1
        PROVE  d[i] = d[i - 1] + 1 \/ Excusable(d[i])
    <3>1. CASE i \in 1..Len(decoded)
      <4>1. i - 1 \in 1..Len(decoded)
        BY <1>4, <2>4, <3>1
      <4> QED
        BY <1>12, <2>4, <3>1, <4>1 DEF ChannelInv, OrderInv
    <3>2. CASE i = Len(decoded) + 1
      <4>1. i - 1 = Len(decoded) /\ i - 1 \in 1..Len(decoded)
        BY <1>4, <2>4, <3>2
      <4>2. decoded # <<>>
        BY <1>4, <4>1, EmptySeq
      <4>3. d[i - 1] = Taken
        BY <1>12, <4>1, <4>2 DEF Taken
      <4> QED
        BY <1>8, <1>12, <3>2, <4>3
    <3> QED
      BY <1>4, <1>12, <3>1, <3>2
  <2> QED
    BY <1>1, <1>5, <1>9, <1>10, <1>12, <2>1, <2>2, <2>3, <2>4
    DEF OrderInv, Excusable, Channel!Unreadable
<1>15. NextInv'
  <2>1. /\ s \in Seq(Byte) /\ Len(s) = Len(Stream) - FrameEnd
        /\ \A i \in 1..(Len(Stream) - FrameEnd) : s[i] = Stream[FrameEnd + i]
    BY <1>2, <1>4, CutSeq
  <2> HIDE DEF s
  <2>2. ASSUME s # <<>> PROVE s[1] = [frame |-> k + 1, pos |-> 1]
    <3>1. Len(s) # 0
      BY <2>1, <2>2, EmptySeq
    <3>2. FrameEnd < Len(Stream) /\ 1 \in 1..(Len(Stream) - FrameEnd)
      BY <1>2, <1>4, <2>1, <3>1
    <3> QED
      BY <1>2, <2>1, <3>2
  <2>3. ASSUME s = <<>>, ~closed PROVE k = Len(frames)
    <3>1. Len(s) = 0
      BY <2>3, EmptySeq
    <3>2. FrameEnd = Len(Stream)
      BY <1>2, <1>4, <2>1, <3>1
    <3>3. EndsWith(Stream, frames)
      BY <1>2, <2>3 DEF StreamInv
    <3> QED
      BY <1>2, <3>2, <3>3 DEF EndsWith
  <2>4. s # <<>> => k < s[1].frame
    BY <1>7, <2>2
  <2> QED
    BY <1>1, <1>3, <1>13, <2>2, <2>3, <2>4 DEF NextInv
<1> QED
  BY <1>14, <1>15 DEF ChannelInv

\* A bad frame takes what was decoded with it: all that follows is excused.
LEMMA RaiseStep ==
  ASSUME FramingTypeOK, StreamInv, ChannelInv, DecodeRaises
  PROVE  ChannelInv'
<1> DEFINE cut == Len(buffer)
           s == SubSeq(Stream, cut + 1, Len(Stream))
<1>1. /\ decoded' = <<>> /\ frames' = frames
      /\ delivered' = delivered /\ raised' = raised
  BY DEF DecodeRaises, sender
<1>2. /\ cut \in 0..Len(Stream) /\ Stream' = s
      /\ cut \in Nat /\ cut <= Len(Stream)
  BY RaisingTakes, StreamParts
<1>3. Stream # <<>> /\ Excusable(Stream[1].frame)
  BY RaisesExcused DEF ChannelInv
<1> HIDE DEF cut
<1>4. /\ Len(frames) \in Nat /\ Stream \in Seq(Byte) /\ Len(Stream) \in Nat
      /\ DOMAIN Stream = 1..Len(Stream)
  BY StreamParts, LenProperties DEF FramingTypeOK
<1>5. Taken \in 0..Len(frames) /\ LastDone <= Taken /\ LastDone \in 0..Len(frames)
  BY TakenBounds DEF ChannelInv, OrderInv
<1>6. 1 \in DOMAIN Stream
  BY <1>3, <1>4, EmptySeq
<1>7. Stream[1].frame \in 1..Len(frames) /\ Stream[1].frame > Taken
  BY <1>3, <1>6 DEF StreamInv, WellCut, InRange, ChannelInv, NextInv
<1>8. LastDone' = LastDone /\ Taken' = LastDone
  BY <1>1 DEF Taken, LastDone, Channel!Latest
<1>9. OrderInv'
  BY <1>1, <1>5, <1>8, EmptySeq DEF OrderInv
<1>10. /\ s \in Seq(Byte) /\ Len(s) = Len(Stream) - cut
       /\ \A i \in 1..(Len(Stream) - cut) : s[i] = Stream[cut + i]
  BY <1>2, <1>4, CutSeq
<1> HIDE DEF s
<1>11. ASSUME s # <<>> PROVE Excusable(s[1].frame) /\ LastDone < s[1].frame
  <2>1. Len(s) # 0
    BY <1>10, <1>11, EmptySeq
  <2>2. cut + 1 \in DOMAIN Stream /\ 1 \in 1..(Len(Stream) - cut) /\ 1 <= cut + 1
    <3>1. cut \in Nat /\ cut <= Len(Stream) /\ Len(Stream) - cut # 0
      BY <1>2, <1>10, <2>1
    <3>2. Len(Stream) \in Nat
      BY <1>4
    <3>3. cut < Len(Stream)
      BY <3>1, <3>2
    <3>4. cut + 1 \in 1..Len(Stream) /\ 1 \in 1..(Len(Stream) - cut) /\ 1 <= cut + 1
      BY <3>1, <3>2, <3>3
    <3> QED
      BY <1>4, <3>4
  <2>3. s[1] = Stream[cut + 1]
    BY <1>10, <2>2
  <2>4. s[1].frame \in 1..Len(frames) /\ Stream[1].frame <= s[1].frame
    BY <1>6, <2>2, <2>3 DEF StreamInv, WellCut, InRange, Climbs
  <2>5. Excusable(s[1].frame)
    BY <1>3, <1>4, <1>7, <2>4, ExcuseGrows
  <2> QED
    BY <1>4, <1>5, <1>7, <2>4, <2>5
<1>12. Excusable(Len(frames))
  BY <1>3, <1>4, <1>7, ExcuseGrows
<1>13. NextInv'
  <2>1. \A i : Excusable(i)
               <=> (raised' \/ \E j \in 1..i : ~frames'[j].good)
    BY <1>1 DEF Excusable, Channel!Unreadable
  <2> QED
    BY <1>1, <1>2, <1>8, <1>11, <1>12, <2>1
    DEF NextInv, Excusable, Channel!Unreadable
<1> QED
  BY <1>9, <1>13 DEF ChannelInv

\* The head of what was decoded can be delivered, whatever its handler does.
LEMMA HeadDelivered ==
  ASSUME FramingTypeOK, OrderInv, decoded # <<>>,
         frames' = frames, delivered' = Append(delivered, Head(decoded)),
         raised' \in {raised, TRUE}
  PROVE  /\ 1 \in 1..Len(decoded) /\ decoded[1] = Head(decoded)
         /\ LastDone' = decoded[1]
         /\ Channel!Deliver(decoded[1])
         /\ decoded[1] \in 1..Len(frames)
<1>1. /\ decoded \in Seq(Nat) /\ Len(decoded) \in Nat /\ delivered \in Seq(Nat)
      /\ Len(frames) \in Nat
  BY LenProperties DEF FramingTypeOK
<1>2. 1 \in 1..Len(decoded)
  BY <1>1, EmptySeq
<1>3. decoded[1] = Head(decoded)
  BY <1>1, HeadTailProperties
<1>4. /\ decoded[1] \in 1..Len(frames) /\ frames[decoded[1]].good
      /\ LastDone < decoded[1]
      /\ decoded[1] = LastDone + 1 \/ Excusable(decoded[1])
  BY <1>2 DEF OrderInv
<1>5. LastDone' = decoded[1]
  <2>1. decoded[1] \in Nat
    BY <1>1, <1>4
  <2> QED
    BY <1>1, <1>3, <2>1, LatestAppended DEF LastDone, Channel!Latest
<1>6. Channel!Deliver(decoded[1])
  BY <1>3, <1>4 DEF Channel!Deliver, LastDone, Excusable
<1> QED
  BY <1>2, <1>3, <1>4, <1>5, <1>6

LEMMA DispatchStep ==
  ASSUME FramingTypeOK, StreamInv, ChannelInv, Dispatch
  PROVE  ChannelInv' /\ Channel!Next
<1>1. /\ decoded # <<>> /\ decoded' = Tail(decoded)
      /\ delivered' = Append(delivered, Head(decoded))
      /\ frames' = frames /\ raised' = raised /\ closed' = closed
      /\ Stream' = Stream
  BY DEF Dispatch, sender, Stream, Pending
<1>2. /\ 1 \in 1..Len(decoded) /\ LastDone' = decoded[1]
      /\ Channel!Deliver(decoded[1]) /\ decoded[1] \in 1..Len(frames)
  BY <1>1, HeadDelivered DEF ChannelInv
<1>3. /\ decoded \in Seq(Nat) /\ Len(decoded) \in Nat /\ Len(frames) \in Nat
  BY LenProperties DEF FramingTypeOK
<1> DEFINE d == Tail(decoded)
<1>4. /\ d \in Seq(Nat) /\ Len(d) = Len(decoded) - 1
      /\ \A i \in 1..Len(d) : d[i] = decoded[i + 1]
  BY <1>1, <1>3, HeadTailProperties
<1> HIDE DEF d
<1>5. \A i \in 1..Len(d) : i \in 1..Len(decoded) /\ i + 1 \in 1..Len(decoded)
  BY <1>3, <1>4
<1>6. decoded' = d
  BY <1>1 DEF d
<1>7. Taken' = Taken
  <2>1. CASE d = <<>>
    <3>1. Len(decoded) = 1
      BY <1>3, <1>4, <2>1, EmptySeq
    <3> QED
      BY <1>1, <1>2, <1>6, <2>1, <3>1 DEF Taken
  <2>2. CASE d # <<>>
    <3>1. Len(d) \in 1..Len(d) /\ Len(d) + 1 = Len(decoded)
      BY <1>3, <1>4, <2>2, EmptySeq
    <3>2. d[Len(d)] = decoded[Len(decoded)]
      BY <1>4, <3>1
    <3> QED
      BY <1>1, <1>6, <2>2, <3>2 DEF Taken
  <2> QED
    BY <2>1, <2>2
<1>8. \A i : Excusable(i) <=> (raised' \/ \E j \in 1..i : ~frames'[j].good)
  BY <1>1 DEF Excusable, Channel!Unreadable
<1>9. OrderInv'
  <2>1. \A i \in 1..Len(d) :
          d[i] \in 1..Len(frames) /\ frames[d[i]].good /\ decoded[1] < d[i]
    <3> SUFFICES ASSUME NEW i \in 1..Len(d)
                 PROVE  /\ d[i] \in 1..Len(frames) /\ frames[d[i]].good
                        /\ decoded[1] < d[i]
      OBVIOUS
    <3>1. i + 1 \in 1..Len(decoded) /\ d[i] = decoded[i + 1]
      BY <1>4, <1>5
    <3>2. 1 < i + 1
      BY <1>3, <1>4
    <3> QED
      BY <1>2, <3>1, <3>2 DEF ChannelInv, OrderInv
  <2>2. \A i, j \in 1..Len(d) : i < j => d[i] < d[j]
    <3> SUFFICES ASSUME NEW i \in 1..Len(d), NEW j \in 1..Len(d), i < j
                 PROVE  d[i] < d[j]
      OBVIOUS
    <3>1. i + 1 \in 1..Len(decoded) /\ j + 1 \in 1..Len(decoded)
      BY <1>5
    <3>2. i + 1 < j + 1
      BY <1>3, <1>4
    <3> QED
      BY <1>4, <3>1, <3>2 DEF ChannelInv, OrderInv
  <2>3. \A i \in 1..Len(d) : d[i] = decoded[i] + 1 \/ Excusable(d[i])
    <3> SUFFICES ASSUME NEW i \in 1..Len(d)
                 PROVE  d[i] = decoded[i] + 1 \/ Excusable(d[i])
      OBVIOUS
    <3>1. i + 1 \in 1..Len(decoded) /\ d[i] = decoded[i + 1]
      BY <1>4, <1>5
    <3>2. i + 1 > 1 /\ (i + 1) - 1 = i
      BY <1>3, <1>4
    <3> QED
      BY <3>1, <3>2 DEF ChannelInv, OrderInv
  <2>4. d # <<>> => d[1] = decoded[1] + 1 \/ Excusable(d[1])
    <3>1. d # <<>> => 1 \in 1..Len(d)
      BY <1>4, EmptySeq, LenProperties
    <3> QED
      BY <2>3, <3>1
  <2>5. \A i \in 1..Len(d) : i > 1 => d[i] = d[i - 1] + 1 \/ Excusable(d[i])
    <3> SUFFICES ASSUME NEW i \in 1..Len(d), i > 1
                 PROVE  d[i] = d[i - 1] + 1 \/ Excusable(d[i])
      OBVIOUS
    <3>1. i - 1 \in 1..Len(d) /\ (i - 1) + 1 = i
      BY <1>3, <1>4
    <3>2. d[i - 1] = decoded[i]
      BY <1>4, <3>1
    <3> QED
      BY <2>3, <3>2
  <2>6. decoded[1] \in 0..Len(frames)
    BY <1>2, <1>3
  <2> QED
    BY <1>1, <1>2, <1>6, <1>8, <2>1, <2>2, <2>4, <2>5, <2>6
    DEF OrderInv, Excusable, Channel!Unreadable
<1>10. NextInv'
  BY <1>1, <1>7, <1>8 DEF ChannelInv, NextInv, Excusable, Channel!Unreadable
<1> QED
  BY <1>2, <1>9, <1>10 DEF ChannelInv, Channel!Next

\* After a handler has raised every frame may be passed over.
LEMMA HandlerStep ==
  ASSUME FramingTypeOK, StreamInv, ChannelInv, HandlerRaises
  PROVE  ChannelInv' /\ Channel!Next
<1>1. /\ decoded # <<>> /\ decoded' = <<>>
      /\ delivered' = Append(delivered, Head(decoded))
      /\ frames' = frames /\ raised' = TRUE
      /\ Stream' = Stream
  BY DEF HandlerRaises, sender, Stream, Pending
<1>2. /\ 1 \in 1..Len(decoded) /\ LastDone' = decoded[1]
      /\ Channel!Deliver(decoded[1]) /\ decoded[1] \in 1..Len(frames)
  BY <1>1, HeadDelivered DEF ChannelInv
<1>3. Len(frames) \in Nat /\ decoded[1] \in 0..Len(frames)
  BY <1>2, LenProperties DEF FramingTypeOK
<1>4. Taken' = decoded[1] /\ decoded[1] <= Taken /\ Taken \in 0..Len(frames)
  BY <1>1, <1>2, TakenBounds DEF ChannelInv, Taken
<1>5. OrderInv'
  BY <1>1, <1>2, <1>3, EmptySeq DEF OrderInv
<1>6. Stream # <<>> => decoded[1] < Stream[1].frame
  <2> SUFFICES ASSUME Stream # <<>> PROVE decoded[1] < Stream[1].frame
    OBVIOUS
  <2>1. Len(Stream) \in Nat /\ DOMAIN Stream = 1..Len(Stream)
        /\ Stream \in Seq(Byte)
    BY StreamParts, LenProperties
  <2>2. 1 \in DOMAIN Stream
    BY <2>1, EmptySeq
  <2>3. Stream[1].frame \in 1..Len(frames) /\ Taken < Stream[1].frame
    BY <2>2 DEF StreamInv, WellCut, InRange, ChannelInv, NextInv
  <2> QED
    BY <1>3, <1>4, <2>3
<1>7. NextInv'
  BY <1>1, <1>4, <1>6 DEF NextInv, Excusable
<1> QED
  BY <1>2, <1>5, <1>7 DEF ChannelInv, Channel!Next

\* Every step keeps the invariant, and is a step of the channel or none.
LEMMA ChannelStep ==
  ASSUME FramingTypeOK, StreamInv, ChannelInv, [Next]_vars
  PROVE  ChannelInv' /\ [Channel!Next]_(Channel!vars)
<1>1. ASSUME NEW t \in Thread, BeginSend(t)
      PROVE  ChannelInv' /\ Channel!Next
  <2>1. Channel!Send
    BY <1>1 DEF BeginSend, receiver, Channel!Send
  <2> QED
    BY <1>1, <2>1, SendStep DEF Channel!Next
<1>2. ASSUME UNCHANGED <<frames, receiving>>
      PROVE  UNCHANGED Channel!vars
  BY <1>2 DEF receiving, Channel!vars
<1>3. ASSUME NEW t \in Thread, SendFails(t)
      PROVE  ChannelInv' /\ UNCHANGED Channel!vars
  BY <1>2, <1>3, FailStep DEF SendFails, receiver, receiving
<1>4. ASSUME DecodeFrame
      PROVE  ChannelInv' /\ UNCHANGED Channel!vars
  BY <1>4, DecodeStep DEF DecodeFrame, sender, Channel!vars
<1>5. ASSUME DecodeRaises
      PROVE  ChannelInv' /\ UNCHANGED Channel!vars
  BY <1>5, RaiseStep DEF DecodeRaises, sender, Channel!vars
<1>6. ASSUME \/ \E t \in Thread : SendSome(t)
             \/ CloseSession \/ Recv \/ RecvEof \/ DecodeReturns
             \/ DispatchEnds \/ ReceiverStops \/ UNCHANGED vars
      PROVE  ChannelInv' /\ UNCHANGED Channel!vars
  <2>1. UNCHANGED <<frames, receiving>> /\ closed' \in {closed, TRUE}
    BY <1>6 DEF SendSome, CloseSession, Recv, RecvEof, DecodeReturns,
                DispatchEnds, ReceiverStops, vars, sender, receiver, receiving
  <2>2. Stream' = Stream
    <3>1. ASSUME NEW t \in Thread, SendSome(t) PROVE Stream' = Stream
      BY <3>1, BytesWritten
    <3>2. ASSUME Recv PROVE Stream' = Stream
      BY <3>2, BytesRead
    <3>3. ASSUME CloseSession \/ RecvEof \/ DecodeReturns \/ DispatchEnds
                   \/ ReceiverStops \/ UNCHANGED vars
          PROVE  Stream' = Stream
      BY <3>3 DEF CloseSession, RecvEof, DecodeReturns, DispatchEnds,
                  ReceiverStops, vars, sender, receiver, Stream, Pending
    <3> QED
      BY <1>6, <3>1, <3>2, <3>3
  <2> QED
    BY <1>2, <2>1, <2>2, QuietStep
<1>7. ASSUME Dispatch PROVE ChannelInv' /\ Channel!Next
  BY <1>7, DispatchStep
<1>8. ASSUME HandlerRaises PROVE ChannelInv' /\ Channel!Next
  BY <1>8, HandlerStep
<1> QED
  BY <1>1, <1>3, <1>4, <1>5, <1>6, <1>7, <1>8 DEF Next, Receive

\* However the stream is cut, and whatever fails, the frames are handled in the
\* order in which they were written, each at most once, and one is passed over
\* for a later one only if an unreadable frame was written before that or a
\* handler raised.
THEOREM FramingImplementsChannel == FramingSpec => ImplementsChannel
<1>1. Init => ChannelInv /\ Channel!Init
  <2> SUFFICES ASSUME Init PROVE ChannelInv /\ Channel!Init
    OBVIOUS
  <2>1. Stream = <<>>
    BY EmptySeq, ConcatEmptySeq DEF Init, Stream, Pending
  <2>2. Len(<<>>) = 0 /\ LastDone = 0 /\ Taken = 0
    BY EmptySeq DEF Init, LastDone, Taken, Channel!Latest
  <2> QED
    BY <2>1, <2>2 DEF Init, ChannelInv, OrderInv, NextInv, Channel!Init
<1>2. FramingTypeOK /\ StreamInv /\ ChannelInv /\ [Next]_vars
        => ChannelInv' /\ [Channel!Next]_(Channel!vars)
  BY ChannelStep
<1> QED
  BY <1>1, <1>2, StreamInvHolds, PTL
  DEF FramingSpec, ImplementsChannel, Channel!ChannelSpec
=============================================================================
