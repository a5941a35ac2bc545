--------------------------- MODULE Framing_proofs ---------------------------
(***************************************************************************)
(* Proofs about Framing for any number of threads, frames and faults, any  *)
(* lengths of bodies and every way of cutting the stream.                  *)
(***************************************************************************)
EXTENDS Framing, SequenceTheorems, TLAPS

LEMMA Sizes == HEADER_SIZE = 4 /\ MAX_FRAME_SIZE \in Nat
BY SMT DEF HEADER_SIZE, MAX_FRAME_SIZE

\* What a byte of a sequence of bytes and a frame of a sequence of frames are.
LEMMA ByteOf ==
  ASSUME NEW s \in Seq(Byte), NEW i \in 1..Len(s)
  PROVE  /\ s[i] \in Byte
         /\ s[i].frame \in Nat \ {0} /\ s[i].pos \in Nat \ {0}
         /\ s[i] = [frame |-> s[i].frame, pos |-> s[i].pos]
<1>1. s[i] \in Byte
  BY ElementOfSeq
<1> QED
  BY <1>1 DEF Byte

LEMMA EnvelopeOf ==
  ASSUME NEW f \in Seq(Envelope), NEW k \in 1..Len(f)
  PROVE  /\ f[k].len \in Lengths /\ f[k].good \in BOOLEAN
         /\ f[k].len \in 1..MAX_FRAME_SIZE
         /\ HEADER_SIZE + f[k].len \in Nat
<1>1. f[k] \in Envelope
  BY ElementOfSeq
<1>2. f[k].len \in Lengths /\ f[k].good \in BOOLEAN
  BY <1>1 DEF Envelope
<1>3. f[k].len \in 1..MAX_FRAME_SIZE
  BY <1>2, FramingAssumption DEF FramingAssumption
<1> QED
  BY <1>2, <1>3, Sizes

\* A sequence cut in two: its parts, and that they make it up again.
LEMMA CutSeq ==
  ASSUME NEW S, NEW s \in Seq(S), NEW n \in 0..Len(s)
  PROVE  /\ SubSeq(s, 1, n) \in Seq(S)
         /\ Len(SubSeq(s, 1, n)) = n
         /\ \A i \in 1..n : SubSeq(s, 1, n)[i] = s[i]
         /\ SubSeq(s, n + 1, Len(s)) \in Seq(S)
         /\ Len(SubSeq(s, n + 1, Len(s))) = Len(s) - n
         /\ \A i \in 1..(Len(s) - n) : SubSeq(s, n + 1, Len(s))[i] = s[n + i]
         /\ SubSeq(s, 1, n) \o SubSeq(s, n + 1, Len(s)) = s
<1>1. Len(s) \in Nat /\ n \in Nat /\ \A i \in 1..Len(s) : s[i] \in S
  BY LenProperties, ElementOfSeq
<1>2. /\ SubSeq(s, 1, n) \in Seq(S)
      /\ Len(SubSeq(s, 1, n)) = n
      /\ \A i \in 1..n : SubSeq(s, 1, n)[i] = s[i]
  BY <1>1, SubSeqProperties
<1>3. /\ SubSeq(s, n + 1, Len(s)) \in Seq(S)
      /\ Len(SubSeq(s, n + 1, Len(s))) = Len(s) - n
      /\ \A i \in 1..(Len(s) - n) : SubSeq(s, n + 1, Len(s))[i] = s[n + i]
  BY <1>1, SubSeqProperties
<1>4. SubSeq(s, 1, n) \o SubSeq(s, n + 1, Len(s)) = s
  <2>1. SubSeq(s, 1, n) \o SubSeq(s, n + 1, Len(s)) = SubSeq(s, 1, Len(s))
    <3>1. 1 \in 1..(Len(s) + 1) /\ n \in (1 - 1)..Len(s) /\ Len(s) \in n..Len(s)
      BY <1>1
    <3> QED
      BY <3>1, ConcatAdjacentSubSeq
  <2> QED
    BY <2>1, SubSeqFull
<1> QED
  BY <1>2, <1>3, <1>4

\* A frame is a sequence of bytes, at least 5 of them.
LEMMA FrameBytes ==
  ASSUME NEW k \in Nat \ {0}, NEW len \in Lengths
  PROVE  /\ len \in 1..MAX_FRAME_SIZE
         /\ EncodeFrame(k, len) \in Seq(Byte)
         /\ Len(EncodeFrame(k, len)) = HEADER_SIZE + len
         /\ \A i \in 1..(HEADER_SIZE + len) :
              EncodeFrame(k, len)[i] = [frame |-> k, pos |-> i]
<1>1. len \in 1..MAX_FRAME_SIZE /\ HEADER_SIZE + len \in Nat
  BY FramingAssumption, Sizes DEF FramingAssumption
<1>2. \A i \in 1..(HEADER_SIZE + len) : [frame |-> k, pos |-> i] \in Byte
  BY <1>1 DEF Byte
<1> DEFINE e(i) == [frame |-> k, pos |-> i]
<1>3. [i \in 1..(HEADER_SIZE + len) |-> e(i)] \in Seq(Byte)
  <2> HIDE DEF e
  <2>1. \A i \in 1..(HEADER_SIZE + len) : e(i) \in Byte
    BY <1>2 DEF e
  <2> QED
    BY <1>1, <2>1, IsASeq
<1> QED
  BY <1>1, <1>3 DEF EncodeFrame

-----------------------------------------------------------------------------
\* Every variable keeps its type: no cut of the stream and no failure makes a
\* byte, a frame number or a thread out of nothing.
THEOREM FramingTypeCorrect == FramingSpec => []FramingTypeOK
<1>1. Init => FramingTypeOK
  <2>1. <<>> \in Seq(Byte) /\ <<>> \in Seq(Envelope) /\ <<>> \in Seq(Nat)
    BY EmptySeq
  <2>2. 0 \in 0..MaxFaults
    BY FramingAssumption DEF FramingAssumption
  <2> QED
    BY <2>1, <2>2 DEF Init, FramingTypeOK
<1>2. FramingTypeOK /\ [Next]_vars => FramingTypeOK'
  <2> SUFFICES ASSUME FramingTypeOK, [Next]_vars PROVE FramingTypeOK'
    OBVIOUS
  <2> USE DEF FramingTypeOK, sender, receiver
  <2>1. ASSUME NEW t \in Thread, BeginSend(t) PROVE FramingTypeOK'
    <3>1. PICK envelope \in Envelope :
            /\ frames' = Append(frames, envelope)
            /\ unsent' = [unsent EXCEPT ![t] =
                            EncodeFrame(Len(frames) + 1, envelope.len)]
      BY <2>1 DEF BeginSend
    <3>2. Len(frames) + 1 \in Nat \ {0} /\ envelope.len \in Lengths
      BY DEF Envelope
    <3>3. EncodeFrame(Len(frames) + 1, envelope.len) \in Seq(Byte)
      BY <3>2, FrameBytes
    <3>4. unsent' \in [Thread -> Seq(Byte)] /\ frames' \in Seq(Envelope)
      BY <3>1, <3>3
    <3> QED
      BY <2>1, <3>4 DEF BeginSend
  <2>2. ASSUME NEW t \in Thread, SendSome(t) PROVE FramingTypeOK'
    <3>1. PICK n \in 1..Len(unsent[t]) :
            /\ wire' = wire \o SubSeq(unsent[t], 1, n)
            /\ unsent' = [unsent EXCEPT ![t] = SubSeq(@, n + 1, Len(@))]
            /\ lock' = IF n = Len(unsent[t]) THEN NoThread ELSE t
      BY <2>2 DEF SendSome
    <3>2. /\ SubSeq(unsent[t], 1, n) \in Seq(Byte)
          /\ SubSeq(unsent[t], n + 1, Len(unsent[t])) \in Seq(Byte)
      BY CutSeq
    <3>3. wire' \in Seq(Byte) /\ unsent' \in [Thread -> Seq(Byte)]
      BY <3>1, <3>2
    <3> QED
      BY <2>2, <3>1, <3>3 DEF SendSome
  <2>3. ASSUME NEW t \in Thread, SendFails(t) PROVE FramingTypeOK'
    BY <2>3, FramingAssumption DEF FramingAssumption, SendFails
  <2>4. CASE CloseSession
    BY <2>4 DEF CloseSession
  <2>5. CASE Recv
    <3>1. PICK n \in 1..Len(wire) :
            /\ buffer' = buffer \o SubSeq(wire, 1, n)
            /\ wire' = SubSeq(wire, n + 1, Len(wire))
      BY <2>5 DEF Recv
    <3>2. /\ SubSeq(wire, 1, n) \in Seq(Byte)
          /\ SubSeq(wire, n + 1, Len(wire)) \in Seq(Byte)
      BY CutSeq
    <3>3. buffer' \in Seq(Byte) /\ wire' \in Seq(Byte)
      BY <3>1, <3>2
    <3> QED
      BY <2>5, <3>3 DEF Recv
  <2>6. CASE RecvEof
    BY <2>6 DEF RecvEof
  <2>7. CASE DecodeFrame
    <3>1. FrameEnd \in 0..Len(buffer) /\ Len(buffer) >= HEADER_SIZE + 1
      BY <2>7, Sizes
       DEF DecodeFrame, FrameArrived, HeaderArrived, ValidLength, FrameEnd
    <3>2. SubSeq(buffer, FrameEnd + 1, Len(buffer)) \in Seq(Byte)
      BY <3>1, CutSeq
    <3>3. buffer[HEADER_SIZE + 1].frame \in Nat
      <4>1. buffer \in Seq(Byte) /\ HEADER_SIZE + 1 \in 1..Len(buffer)
        BY <3>1, Sizes
      <4> QED
        BY <4>1, ByteOf
    <3>4. decoded' \in Seq(Nat) /\ buffer' \in Seq(Byte)
      BY <2>7, <3>2, <3>3 DEF DecodeFrame
    <3> QED
      BY <2>7, <3>4 DEF DecodeFrame
  <2>8. CASE DecodeReturns
    BY <2>8 DEF DecodeReturns
  <2>9. CASE DecodeRaises
    BY <2>9 DEF DecodeRaises
  <2>10. CASE Dispatch
    BY <2>10 DEF Dispatch
  <2>11. CASE DispatchEnds
    BY <2>11 DEF DispatchEnds
  <2>12. CASE ReceiverStops
    BY <2>12, FramingAssumption DEF FramingAssumption, ReceiverStops
  <2>13. CASE HandlerRaises
    BY <2>13, FramingAssumption DEF FramingAssumption, HandlerRaises
  <2>14. CASE UNCHANGED vars
    BY <2>14 DEF vars
  <2> QED
    BY <2>1, <2>2, <2>3, <2>4, <2>5, <2>6, <2>7, <2>8, <2>9, <2>10, <2>11,
       <2>12, <2>13, <2>14 DEF Next, Receive
<1> QED
  BY <1>1, <1>2, PTL DEF FramingSpec

-----------------------------------------------------------------------------
(* Runs of bytes, apart from the state they are part of: s is a run of the  *)
(* frames f.                                                                *)

FrameSize(f, k) == HEADER_SIZE + f[k].len

\* A byte determines those that follow it, up to the next frame's first.
Runs(s, f) ==
  \A a, c \in DOMAIN s : a <= c =>
    /\ s[a].pos + (c - a) <= FrameSize(f, s[a].frame) =>
         s[c] = [frame |-> s[a].frame, pos |-> s[a].pos + (c - a)]
    /\ s[a].pos + (c - a) = FrameSize(f, s[a].frame) + 1 =>
         s[c] = [frame |-> s[a].frame + 1, pos |-> 1]

Climbs(s) == \A a, c \in DOMAIN s : a <= c => s[a].frame <= s[c].frame

InRange(s, f) ==
  \A a \in DOMAIN s : /\ s[a].frame \in 1..Len(f)
                      /\ s[a].pos \in 1..FrameSize(f, s[a].frame)

WellCut(s, f) == Runs(s, f) /\ Climbs(s) /\ InRange(s, f)

\* s ends with the last byte of the last of the frames f.
EndsWith(s, f) ==
  s[Len(s)] = [frame |-> Len(f), pos |-> FrameSize(f, Len(f))]

\* What remains when bytes are taken off either end is a run.
LEMMA CutOfRun ==
  ASSUME NEW s \in Seq(Byte), NEW f \in Seq(Envelope), NEW n \in 0..Len(s),
         WellCut(s, f)
  PROVE  /\ WellCut(SubSeq(s, 1, n), f)
         /\ WellCut(SubSeq(s, n + 1, Len(s)), f)
<1>1. Len(s) \in Nat /\ n \in Nat /\ DOMAIN s = 1..Len(s)
  BY LenProperties
<1>2. \A a \in 1..Len(s) : s[a].pos \in Nat /\ s[a].frame \in Nat
  BY ByteOf
<1> DEFINE p == SubSeq(s, 1, n)
           q == SubSeq(s, n + 1, Len(s))
<1>3. /\ DOMAIN p = 1..n /\ \A i \in 1..n : p[i] = s[i]
      /\ DOMAIN q = 1..(Len(s) - n)
      /\ \A i \in 1..(Len(s) - n) : q[i] = s[n + i]
  BY <1>1, CutSeq, LenProperties
<1> HIDE DEF p, q
<1>4. WellCut(p, f)
  BY <1>1, <1>3 DEF WellCut, Runs, Climbs, InRange
<1>5. WellCut(q, f)
  <2>1. \A a \in DOMAIN q : n + a \in DOMAIN s
    BY <1>1, <1>3
  <2>2. \A a, c \in DOMAIN q : a <= c =>
           n + a <= n + c /\ (n + c) - (n + a) = c - a
    BY <1>1, <1>3
  <2>3. Runs(q, f)
    <3>1. SUFFICES ASSUME NEW a \in DOMAIN q, NEW c \in DOMAIN q, a <= c
          PROVE  /\ q[a].pos + (c - a) <= FrameSize(f, q[a].frame) =>
                      q[c] = [frame |-> q[a].frame, pos |-> q[a].pos + (c - a)]
                 /\ q[a].pos + (c - a) = FrameSize(f, q[a].frame) + 1 =>
                      q[c] = [frame |-> q[a].frame + 1, pos |-> 1]
      BY DEF Runs
    <3>2. q[a] = s[n + a] /\ q[c] = s[n + c]
      BY <1>3
    <3>3. /\ n + a \in DOMAIN s /\ n + c \in DOMAIN s
          /\ n + a <= n + c /\ (n + c) - (n + a) = c - a
      BY <2>1, <2>2, <3>1
    <3>4. \A x, y \in DOMAIN s : x <= y =>
            /\ s[x].pos + (y - x) <= FrameSize(f, s[x].frame) =>
                 s[y] = [frame |-> s[x].frame, pos |-> s[x].pos + (y - x)]
            /\ s[x].pos + (y - x) = FrameSize(f, s[x].frame) + 1 =>
                 s[y] = [frame |-> s[x].frame + 1, pos |-> 1]
      BY DEF WellCut, Runs
    <3>5. /\ s[n + a].pos + (c - a) <= FrameSize(f, s[n + a].frame) =>
               s[n + c] = [frame |-> s[n + a].frame,
                           pos |-> s[n + a].pos + (c - a)]
          /\ s[n + a].pos + (c - a) = FrameSize(f, s[n + a].frame) + 1 =>
               s[n + c] = [frame |-> s[n + a].frame + 1, pos |-> 1]
      <4> DEFINE x == n + a
                 y == n + c
      <4>1. x \in DOMAIN s /\ y \in DOMAIN s /\ x <= y /\ y - x = c - a
        BY <3>3
      <4> HIDE DEF x, y
      <4>2. /\ s[x].pos + (c - a) <= FrameSize(f, s[x].frame) =>
                 s[y] = [frame |-> s[x].frame, pos |-> s[x].pos + (c - a)]
            /\ s[x].pos + (c - a) = FrameSize(f, s[x].frame) + 1 =>
                 s[y] = [frame |-> s[x].frame + 1, pos |-> 1]
        BY <3>4, <4>1
      <4> QED
        BY <4>2 DEF x, y
    <3> QED
      BY <3>2, <3>5
  <2>4. Climbs(q) /\ InRange(q, f)
    BY <1>3, <2>1, <2>2 DEF WellCut, Climbs, InRange
  <2> QED
    BY <2>3, <2>4 DEF WellCut
<1> QED
  BY <1>4, <1>5 DEF p, q

\* A new frame after the end of a run makes a run, which ends with it.
LEMMA FrameAfterRun ==
  ASSUME NEW s \in Seq(Byte), NEW f \in Seq(Envelope), NEW e \in Envelope,
         WellCut(s, f), s # <<>> => EndsWith(s, f)
  PROVE  LET t == s \o EncodeFrame(Len(f) + 1, e.len)
         IN  /\ t \in Seq(Byte)
             /\ WellCut(t, Append(f, e))
             /\ t # <<>>
             /\ EndsWith(t, Append(f, e))
             /\ t[1] = IF s = <<>> THEN [frame |-> Len(f) + 1, pos |-> 1]
                                  ELSE s[1]
<1> DEFINE k == Len(f) + 1
           b == EncodeFrame(k, e.len)
           g == Append(f, e)
           t == s \o b
           size == HEADER_SIZE + e.len
<1>1. Len(f) \in Nat /\ k \in Nat \ {0} /\ e.len \in Lengths
  BY LenProperties DEF Envelope
<1>2. /\ b \in Seq(Byte) /\ Len(b) = size /\ size \in Nat /\ size > 4
      /\ \A i \in 1..size : b[i] = [frame |-> k, pos |-> i]
  <2>1. /\ b \in Seq(Byte) /\ Len(b) = size
        /\ \A i \in 1..size : b[i] = [frame |-> k, pos |-> i]
        /\ e.len \in 1..MAX_FRAME_SIZE
    BY <1>1, FrameBytes
  <2>2. size \in Nat /\ size > 4
    BY <2>1, Sizes
  <2> QED
    BY <2>1, <2>2
<1>3. /\ g \in Seq(Envelope) /\ Len(g) = k /\ g[k] = e
      /\ \A j \in 1..Len(f) : g[j] = f[j]
  BY <1>1, AppendProperties
<1>4. /\ FrameSize(g, k) = size
      /\ \A j \in 1..Len(f) : FrameSize(g, j) = FrameSize(f, j)
  BY <1>3 DEF FrameSize
<1>5. /\ t \in Seq(Byte) /\ DOMAIN t = 1..(Len(s) + size)
      /\ Len(t) = Len(s) + size
      /\ \A i \in 1..Len(s) : t[i] = s[i]
      /\ \A c \in (Len(s) + 1)..(Len(s) + size) :
           /\ t[c] = [frame |-> k, pos |-> c - Len(s)]
           /\ t[c].frame = k /\ t[c].pos = c - Len(s)
  <2>1. /\ t \in Seq(Byte) /\ Len(t) = Len(s) + size
        /\ \A i \in 1..(Len(s) + size) :
             t[i] = IF i <= Len(s) THEN s[i] ELSE b[i - Len(s)]
    <3> HIDE DEF b, size
    <3>1. /\ s \o b \in Seq(Byte) /\ Len(s \o b) = Len(s) + Len(b)
          /\ \A i \in 1..(Len(s) + Len(b)) :
               (s \o b)[i] = IF i <= Len(s) THEN s[i] ELSE b[i - Len(s)]
      BY <1>2, ConcatProperties
    <3> QED
      BY <3>1, <1>2
  <2>2. Len(s) \in Nat
    BY LenProperties
  <2> HIDE DEF t, b
  <2>3. DOMAIN t = 1..Len(t)
    BY <2>1, LenProperties
  <2>4. ASSUME NEW c \in (Len(s) + 1)..(Len(s) + size)
        PROVE  t[c] = [frame |-> k, pos |-> c - Len(s)]
    <3>1. c \in 1..(Len(s) + size) /\ ~(c <= Len(s)) /\ c - Len(s) \in 1..size
      BY <2>2, <1>2
    <3>2. t[c] = b[c - Len(s)]
      BY <2>1, <3>1
    <3> QED
      BY <3>1, <3>2, <1>2
  <2>5. /\ DOMAIN t = 1..(Len(s) + size)
        /\ \A i \in 1..Len(s) : t[i] = s[i]
    <3>1. DOMAIN t = 1..(Len(s) + size)
      BY <2>1, <2>3
    <3>2. \A i \in 1..Len(s) : i \in 1..(Len(s) + size) /\ i <= Len(s)
      BY <2>2, <1>2
    <3> QED
      BY <3>1, <3>2, <2>1
  <2>6. \A c \in (Len(s) + 1)..(Len(s) + size) :
           /\ t[c] = [frame |-> k, pos |-> c - Len(s)]
           /\ t[c].frame = k /\ t[c].pos = c - Len(s)
    BY <2>4
  <2> QED
    BY <2>1, <2>5, <2>6
<1>6. Len(s) \in Nat /\ DOMAIN s = 1..Len(s)
  BY LenProperties
<1>7. \A a \in 1..Len(s) :
        /\ s[a].frame \in 1..Len(f) /\ s[a].pos \in 1..FrameSize(f, s[a].frame)
        /\ FrameSize(f, s[a].frame) \in Nat
  <2>2. \A j \in 1..Len(f) : FrameSize(f, j) \in Nat
    BY EnvelopeOf DEF FrameSize
  <2> QED
    BY <1>6, <2>2 DEF WellCut, InRange
<1> HIDE DEF b, g, t, size, k
<1>8. InRange(t, g)
  <2>1. \A a \in 1..Len(s) :
          /\ t[a].frame \in 1..Len(g) /\ t[a].pos \in 1..FrameSize(g, t[a].frame)
    BY <1>1, <1>3, <1>4, <1>5, <1>7 DEF k
  <2>2. \A a \in (Len(s) + 1)..(Len(s) + size) :
          /\ t[a].frame \in 1..Len(g) /\ t[a].pos \in 1..FrameSize(g, t[a].frame)
    <3> SUFFICES ASSUME NEW a \in (Len(s) + 1)..(Len(s) + size)
                 PROVE  /\ t[a].frame \in 1..Len(g)
                        /\ t[a].pos \in 1..FrameSize(g, t[a].frame)
      OBVIOUS
    <3>1. t[a].frame = k /\ t[a].pos = a - Len(s)
      BY <1>5
    <3>2. a - Len(s) \in 1..size /\ k \in 1..k
      BY <1>1, <1>2, <1>6
    <3> QED
      BY <3>1, <3>2, <1>3, <1>4
  <2>3. \A a \in DOMAIN t : \/ a \in 1..Len(s)
                            \/ a \in (Len(s) + 1)..(Len(s) + size)
    BY <1>2, <1>5, <1>6
  <2> QED
    BY <2>1, <2>2, <2>3 DEF InRange
<1>9. Climbs(t)
  <2> SUFFICES ASSUME NEW a \in DOMAIN t, NEW c \in DOMAIN t, a <= c
               PROVE  t[a].frame <= t[c].frame
    BY DEF Climbs
  <2>1. CASE c <= Len(s)
    BY <2>1, <1>5, <1>6 DEF WellCut, Climbs
  <2>2. CASE c > Len(s)
    <3>1. c \in (Len(s) + 1)..(Len(s) + size)
      BY <2>2, <1>2, <1>5, <1>6
    <3>2. t[c].frame = k
      BY <3>1, <1>5
    <3>3. t[a].frame \in 1..k
      BY <1>8, <1>3 DEF InRange
    <3> QED
      BY <1>1, <3>2, <3>3
  <2> QED
    BY <2>1, <2>2, <1>5, <1>6, <1>2
<1>10. Runs(t, g)
  <2> SUFFICES ASSUME NEW a \in DOMAIN t, NEW c \in DOMAIN t, a <= c
               PROVE  /\ t[a].pos + (c - a) <= FrameSize(g, t[a].frame) =>
                           t[c] = [frame |-> t[a].frame,
                                   pos |-> t[a].pos + (c - a)]
                      /\ t[a].pos + (c - a) = FrameSize(g, t[a].frame) + 1 =>
                           t[c] = [frame |-> t[a].frame + 1, pos |-> 1]
    BY DEF Runs
  <2>0. a \in 1..(Len(s) + size) /\ c \in 1..(Len(s) + size)
    BY <1>5
  <2>1. CASE c <= Len(s)
    <3>1. a \in 1..Len(s) /\ c \in 1..Len(s)
      BY <2>0, <2>1, <1>2, <1>6
    <3>2. t[a] = s[a] /\ t[c] = s[c]
      BY <3>1, <1>5
    <3>3. FrameSize(g, s[a].frame) = FrameSize(f, s[a].frame)
      BY <3>1, <1>4, <1>7
    <3> QED
      BY <3>1, <3>2, <3>3, <1>6 DEF WellCut, Runs
  <2>2. CASE a > Len(s)
    <3>1. /\ a \in (Len(s) + 1)..(Len(s) + size)
          /\ c \in (Len(s) + 1)..(Len(s) + size)
      BY <2>0, <2>2, <1>2, <1>6
    <3>2. /\ t[a] = [frame |-> k, pos |-> a - Len(s)]
          /\ t[c] = [frame |-> k, pos |-> c - Len(s)]
      BY <3>1, <1>5
    <3> QED
      BY <3>1, <3>2, <2>0, <1>2, <1>4, <1>6
  <2>3. CASE a <= Len(s) /\ c > Len(s)
    <3>1. /\ a \in 1..Len(s) /\ Len(s) \in 1..Len(s)
          /\ c \in (Len(s) + 1)..(Len(s) + size)
      BY <2>0, <2>3, <1>2, <1>6
    <3>2. s # <<>> /\ EndsWith(s, f)
      BY <3>1, <1>6
    <3>3. s[Len(s)] = [frame |-> Len(f), pos |-> FrameSize(f, Len(f))]
      BY <3>2 DEF EndsWith
    <3> DEFINE d == Len(s) - a
               z == FrameSize(f, s[a].frame)
    <3>4. /\ s[a].pos + d <= z =>
                s[Len(s)] = [frame |-> s[a].frame, pos |-> s[a].pos + d]
          /\ s[a].pos + d = z + 1 =>
                s[Len(s)] = [frame |-> s[a].frame + 1, pos |-> 1]
      BY <3>1, <1>6 DEF WellCut, Runs
    <3>5. /\ t[a] = s[a] /\ FrameSize(g, s[a].frame) = z
          /\ z \in Nat /\ s[a].pos \in Nat /\ s[a].frame \in Nat
      <4>1. t[a] = s[a] /\ s[a].frame \in 1..Len(f) /\ z \in Nat
        BY <3>1, <1>5, <1>7
      <4>2. s[a].pos \in Nat /\ s[a].frame \in Nat
        BY <3>1, ByteOf
      <4> QED
        BY <4>1, <4>2, <1>4
    <3>8. t[c] = [frame |-> k, pos |-> c - Len(s)]
      BY <3>1, <1>5
    <3>6. s[a].pos + (c - a) <= z + 1 => 
             s[a].frame = Len(f) /\ s[a].pos + d = z
      <4> SUFFICES ASSUME s[a].pos + (c - a) <= z + 1
                   PROVE  s[a].frame = Len(f) /\ s[a].pos + d = z
        OBVIOUS
      <4>1. s[a].pos + d <= z
        BY <3>1, <3>5, <2>0, <1>2, <1>6
      <4>2. [frame |-> s[a].frame, pos |-> s[a].pos + d]
              = [frame |-> Len(f), pos |-> FrameSize(f, Len(f))]
        BY <4>1, <3>3, <3>4
      <4>3. s[a].frame = Len(f) /\ s[a].pos + d = FrameSize(f, Len(f))
        BY <4>2
      <4> QED
        BY <4>3
    <3>7. s[a].pos + (c - a) <= z + 1 =>
             /\ s[a].pos + (c - a) = z + 1
             /\ c - Len(s) = 1
             /\ k = s[a].frame + 1
      <4> SUFFICES ASSUME s[a].pos + (c - a) <= z + 1
                   PROVE  /\ s[a].pos + (c - a) = z + 1
                          /\ c - Len(s) = 1
                          /\ k = s[a].frame + 1
        OBVIOUS
      <4>1. s[a].frame = Len(f) /\ s[a].pos + (Len(s) - a) = z
        BY <3>6
      <4>2. /\ a \in Nat /\ c \in Nat /\ Len(s) \in Nat /\ c >= Len(s) + 1
            /\ s[a].pos \in Nat /\ z \in Nat
        BY <3>1, <3>5, <1>2, <1>6
      <4> HIDE DEF z
      <4>3. c - Len(s) = 1 /\ s[a].pos + (c - a) = z + 1
        <5>1. PICK m \in Nat, x \in Nat, l \in Nat, i \in Nat, j \in Nat :
                m = s[a].pos /\ x = z /\ l = Len(s) /\ i = a /\ j = c
          BY <4>2
        <5>2. m + (l - i) = x
          BY <4>1, <5>1
        <5>3. m + (j - i) <= x + 1
          BY <5>1
        <5>4. j >= l + 1
          BY <4>2, <5>1
        <5>5. j - l = 1 /\ m + (j - i) = x + 1
          BY <5>2, <5>3, <5>4
        <5> QED
          BY <5>1, <5>5
      <4> QED
        BY <4>1, <4>3 DEF k
    <3>9. s[a].pos + (c - a) \in Int
      BY <3>1, <3>5, <2>0, <1>2, <1>6
    <3> QED
      BY <3>5, <3>7, <3>8, <3>9
  <2> QED
    BY <2>0, <2>1, <2>2, <2>3, <1>2, <1>6
<1>11. t # <<>> /\ EndsWith(t, g)
  BY <1>2, <1>3, <1>4, <1>5, <1>6 DEF EndsWith
<1>12. t[1] = IF s = <<>> THEN [frame |-> k, pos |-> 1] ELSE s[1]
  <2>1. CASE s = <<>>
    BY <2>1, <1>2, <1>5
  <2>2. CASE s # <<>>
    <3>1. Len(s) > 0
      BY <2>2, <1>6
    <3> QED
      BY <2>2, <3>1, <1>5, <1>6
  <2> QED
    BY <2>1, <2>2
<1> QED
  BY <1>5, <1>8, <1>9, <1>10, <1>11, <1>12 DEF WellCut, t, b, g, k

-----------------------------------------------------------------------------
(* The bytes underway are a run of the frames sent.                         *)

\* Concatenation of three and of four parts.
LEMMA Regroup ==
  ASSUME NEW a \in Seq(Byte), NEW b \in Seq(Byte), NEW c \in Seq(Byte)
  PROVE  (a \o b) \o c = a \o (b \o c) /\ (a \o b) \o c \in Seq(Byte)
<1>1. (a \o b) \o c = a \o (b \o c)
  BY ConcatAssociative
<1>2. a \o b \in Seq(Byte)
  BY ConcatProperties
<1>3. (a \o b) \o c \in Seq(Byte)
  BY <1>2, ConcatProperties
<1> QED
  BY <1>1, <1>3

\* The typing of Stream, and where the bytes of the buffer are in it.
LEMMA StreamParts ==
  ASSUME FramingTypeOK
  PROVE  /\ Pending \in Seq(Byte)
         /\ buffer \o wire \in Seq(Byte)
         /\ Stream \in Seq(Byte)
         /\ Len(Stream) = Len(buffer) + Len(wire) + Len(Pending)
         /\ Len(buffer) \in Nat /\ Len(wire) \in Nat /\ Len(Pending) \in Nat
         /\ DOMAIN Stream = 1..Len(Stream)
         /\ \A i \in 1..Len(buffer) : Stream[i] = buffer[i]
<1>1. Pending \in Seq(Byte) /\ buffer \in Seq(Byte) /\ wire \in Seq(Byte)
  BY DEF FramingTypeOK, Pending
<1> HIDE DEF Pending
<1>2. Len(buffer) \in Nat /\ Len(wire) \in Nat /\ Len(Pending) \in Nat
  BY <1>1, LenProperties
<1>3. Stream = buffer \o (wire \o Pending)
  BY <1>1, ConcatAssociative DEF Stream
<1>4. wire \o Pending \in Seq(Byte) /\ Len(wire \o Pending) = Len(wire) + Len(Pending)
  BY <1>1, ConcatProperties
<1>5. /\ Stream \in Seq(Byte)
      /\ Len(Stream) = Len(buffer) + (Len(wire) + Len(Pending))
      /\ \A i \in 1..(Len(buffer) + (Len(wire) + Len(Pending))) :
           Stream[i] = IF i <= Len(buffer) THEN buffer[i]
                       ELSE (wire \o Pending)[i - Len(buffer)]
  BY <1>1, <1>3, <1>4, ConcatProperties
<1>6. \A i \in 1..Len(buffer) : Stream[i] = buffer[i]
  BY <1>2, <1>5
<1>7. buffer \o wire \in Seq(Byte)
  BY <1>1, ConcatProperties
<1> QED
  BY <1>1, <1>2, <1>5, <1>6, <1>7, LenProperties

\* A receiver that drops its whole buffer, or the frame at its head, goes on
\* with the rest of the stream.
LEMMA BufferCut ==
  ASSUME FramingTypeOK, NEW n \in 0..Len(buffer),
         buffer' = SubSeq(buffer, n + 1, Len(buffer)),
         UNCHANGED <<wire, lock, unsent>>
  PROVE  /\ n \in 0..Len(Stream)
         /\ Stream' = SubSeq(Stream, n + 1, Len(Stream))
<1> DEFINE rest == wire \o Pending
<1>1. /\ Pending \in Seq(Byte) /\ wire \in Seq(Byte) /\ buffer \in Seq(Byte)
      /\ Len(buffer) \in Nat /\ Stream \in Seq(Byte)
      /\ Len(Stream) = Len(buffer) + Len(wire) + Len(Pending)
      /\ Len(wire) \in Nat /\ Len(Pending) \in Nat
      /\ Pending' = Pending
  BY StreamParts DEF FramingTypeOK, Pending
<1>2. buffer' \in Seq(Byte)
  BY <1>1, CutSeq
<1> HIDE DEF Pending
<1>3. /\ rest \in Seq(Byte) /\ Len(rest) = Len(wire) + Len(Pending)
      /\ Stream = buffer \o rest /\ Stream' = buffer' \o rest
  <2>1. Stream = buffer \o rest
    BY <1>1, Regroup DEF Stream
  <2>2. Stream' = buffer' \o rest
    <3>1. Stream' = (buffer' \o wire) \o Pending
      BY <1>1 DEF Stream
    <3> QED
      BY <3>1, <1>1, <1>2, Regroup
  <2> QED
    BY <2>1, <2>2, <1>1, ConcatProperties
<1>4. buffer = SubSeq(buffer, 1, n) \o buffer' /\ SubSeq(buffer, 1, n) \in Seq(Byte)
      /\ Len(SubSeq(buffer, 1, n)) = n
  BY <1>1, CutSeq
<1>5. Stream = SubSeq(buffer, 1, n) \o Stream'
  <2>1. (SubSeq(buffer, 1, n) \o buffer') \o rest
          = SubSeq(buffer, 1, n) \o (buffer' \o rest)
    BY <1>2, <1>3, <1>4, Regroup
  <2> QED
    BY <2>1, <1>3, <1>4
<1>6. n \in 0..Len(Stream) /\ n \in Nat
  BY <1>1
<1>7. /\ Stream' \in Seq(Byte) /\ Len(Stream') = Len(Stream) - n
      /\ \A i \in 1..Len(Stream') : Stream'[i] = Stream[n + i]
  <2>1. Stream' \in Seq(Byte) /\ Len(Stream') \in Nat
    BY <1>2, <1>3, ConcatProperties, LenProperties
  <2> DEFINE p == SubSeq(buffer, 1, n)
  <2>2. p \in Seq(Byte) /\ Len(p) = n /\ Stream = p \o Stream'
    BY <1>4, <1>5
  <2> HIDE DEF p
  <2>3. /\ Len(Stream) = n + Len(Stream')
        /\ \A i \in 1..(n + Len(Stream')) :
             Stream[i] = IF i <= n THEN p[i] ELSE Stream'[i - n]
    BY <2>1, <2>2, ConcatProperties
  <2>4. \A i \in 1..Len(Stream') : Stream'[i] = Stream[n + i]
    BY <2>1, <2>3, <1>6
  <2> QED
    BY <2>1, <2>3, <2>4, <1>6
<1>8. /\ SubSeq(Stream, n + 1, Len(Stream)) \in Seq(Byte)
      /\ Len(SubSeq(Stream, n + 1, Len(Stream))) = Len(Stream) - n
      /\ \A i \in 1..(Len(Stream) - n) :
           SubSeq(Stream, n + 1, Len(Stream))[i] = Stream[n + i]
  BY <1>1, <1>6, CutSeq
<1> HIDE DEF Stream
<1>9. Stream' = SubSeq(Stream, n + 1, Len(Stream))
  BY <1>7, <1>8, SeqEqual
<1> QED
  BY <1>6, <1>9

\* Writing and reading move bytes and leave the stream as it is.
LEMMA BytesWritten ==
  ASSUME FramingTypeOK, NEW t \in Thread, SendSome(t)
  PROVE  Stream' = Stream
<1>1. PICK n \in 1..Len(unsent[t]) :
        /\ wire' = wire \o SubSeq(unsent[t], 1, n)
        /\ unsent' = [unsent EXCEPT ![t] = SubSeq(@, n + 1, Len(@))]
        /\ lock' = IF n = Len(unsent[t]) THEN NoThread ELSE t
  BY DEF SendSome
<1>2. /\ lock = t /\ buffer' = buffer /\ t # NoThread
      /\ buffer \in Seq(Byte) /\ wire \in Seq(Byte) /\ unsent[t] \in Seq(Byte)
      /\ unsent \in [Thread -> Seq(Byte)]
  BY FramingAssumption
  DEF SendSome, receiver, FramingAssumption, FramingTypeOK
<1> DEFINE p == SubSeq(unsent[t], 1, n)
           q == SubSeq(unsent[t], n + 1, Len(unsent[t]))
<1>3. n \in 0..Len(unsent[t])
  BY <1>1
<1>4. /\ p \in Seq(Byte) /\ q \in Seq(Byte) /\ p \o q = unsent[t]
      /\ Len(q) = Len(unsent[t]) - n
  BY <1>2, <1>3, CutSeq
<1>5. Pending = unsent[t]
  BY <1>2 DEF Pending
<1>6. Pending' = q
  <2>1. CASE n = Len(unsent[t])
    <3>1. q = <<>>
      BY <1>4, <2>1
    <3> QED
      BY <1>1, <2>1, <3>1 DEF Pending
  <2>2. CASE n # Len(unsent[t])
    BY <1>1, <1>2, <2>2 DEF Pending
  <2> QED
    BY <2>1, <2>2
<1>7. Stream' = (buffer \o (wire \o p)) \o q
  BY <1>1, <1>2, <1>6 DEF Stream
<1>8. Stream = (buffer \o wire) \o (p \o q)
  BY <1>4, <1>5 DEF Stream
<1> HIDE DEF p, q
<1>9. (buffer \o wire) \o p = buffer \o (wire \o p) /\ buffer \o wire \in Seq(Byte)
  BY <1>2, <1>4, Regroup, ConcatProperties
<1>10. ((buffer \o wire) \o p) \o q = (buffer \o wire) \o (p \o q)
  BY <1>4, <1>9, Regroup
<1> QED
  BY <1>7, <1>8, <1>9, <1>10

LEMMA BytesRead ==
  ASSUME FramingTypeOK, Recv
  PROVE  Stream' = Stream
<1>1. PICK n \in 1..Len(wire) :
        /\ buffer' = buffer \o SubSeq(wire, 1, n)
        /\ wire' = SubSeq(wire, n + 1, Len(wire))
  BY DEF Recv
<1>2. Pending' = Pending /\ buffer \in Seq(Byte) /\ wire \in Seq(Byte)
  BY DEF Recv, sender, Pending, FramingTypeOK
<1>3. n \in 0..Len(wire)
  BY <1>1
<1>4. /\ SubSeq(wire, 1, n) \in Seq(Byte) /\ wire' \in Seq(Byte)
      /\ SubSeq(wire, 1, n) \o wire' = wire
  BY <1>1, <1>2, <1>3, CutSeq
<1>5. (buffer \o SubSeq(wire, 1, n)) \o wire'
        = buffer \o (SubSeq(wire, 1, n) \o wire')
  BY <1>2, <1>4, Regroup
<1> QED
  BY <1>1, <1>2, <1>4, <1>5 DEF Stream

\* send puts a whole frame at the end of the stream.
LEMMA StreamGrows ==
  ASSUME FramingTypeOK, NEW t \in Thread, BeginSend(t)
  PROVE  \E e \in Envelope :
           /\ frames' = Append(frames, e)
           /\ Stream' = Stream \o EncodeFrame(Len(frames) + 1, e.len)
<1>1. PICK e \in Envelope :
        /\ frames' = Append(frames, e)
        /\ unsent' = [unsent EXCEPT ![t] = EncodeFrame(Len(frames) + 1, e.len)]
  BY DEF BeginSend
<1>2. /\ lock = NoThread /\ lock' = t /\ t # NoThread
      /\ buffer' = buffer /\ wire' = wire /\ unsent \in [Thread -> Seq(Byte)]
  BY FramingAssumption DEF BeginSend, receiver, FramingAssumption, FramingTypeOK
<1>3. Stream = (buffer \o wire) \o <<>>
  BY <1>2 DEF Stream, Pending
<1>4. Stream = buffer \o wire
  BY <1>3, StreamParts, ConcatEmptySeq
<1>5. Pending' = EncodeFrame(Len(frames) + 1, e.len)
  BY <1>1, <1>2 DEF Pending
<1>6. Stream' = (buffer \o wire) \o EncodeFrame(Len(frames) + 1, e.len)
  BY <1>2, <1>5 DEF Stream
<1> QED
  BY <1>1, <1>4, <1>6

\* A failing send takes the rest of its frame off the end of the stream.
LEMMA StreamEndsEarly ==
  ASSUME FramingTypeOK, NEW t \in Thread, SendFails(t)
  PROVE  \E n \in 0..Len(Stream) : Stream' = SubSeq(Stream, 1, n)
<1>1. lock' = NoThread /\ buffer' = buffer /\ wire' = wire
  BY DEF SendFails, receiver
<1>2. /\ buffer \o wire \in Seq(Byte) /\ Pending \in Seq(Byte)
      /\ buffer \in Seq(Byte) /\ wire \in Seq(Byte)
  BY StreamParts DEF FramingTypeOK
<1>3. Stream' = (buffer \o wire) \o <<>>
  BY <1>1 DEF Stream, Pending
<1>4. Stream' = buffer \o wire
  BY <1>2, <1>3, ConcatEmptySeq
<1> DEFINE x == buffer \o wire
           n == Len(x)
<1>5. /\ x \in Seq(Byte) /\ Stream = x \o Pending /\ Stream' = x
  BY <1>2, <1>4 DEF Stream
<1> HIDE DEF x
<1>6. /\ n \in Nat /\ Len(Pending) \in Nat /\ Stream \in Seq(Byte)
      /\ Len(Stream) = n + Len(Pending)
      /\ \A i \in 1..(n + Len(Pending)) :
           Stream[i] = IF i <= n THEN x[i] ELSE Pending[i - n]
  BY <1>2, <1>5, ConcatProperties, LenProperties
<1>7. n \in 0..Len(Stream) /\ \A i \in 1..n : Stream[i] = x[i]
  BY <1>6
<1>8. /\ SubSeq(Stream, 1, n) \in Seq(Byte) /\ Len(SubSeq(Stream, 1, n)) = n
      /\ \A i \in 1..n : SubSeq(Stream, 1, n)[i] = Stream[i]
  BY <1>6, <1>7, CutSeq
<1>9. x = SubSeq(Stream, 1, n)
  <2> DEFINE y == SubSeq(Stream, 1, n)
  <2>1. y \in Seq(Byte) /\ Len(x) = Len(y) /\ \A i \in 1..Len(x) : x[i] = y[i]
    BY <1>7, <1>8
  <2> HIDE DEF y
  <2>2. x = y
    BY <2>1, <1>5, SeqEqual
  <2> QED
    BY <2>2 DEF y
<1> QED
  BY <1>5, <1>7, <1>9

LEMMA CutEnds ==
  ASSUME NEW s \in Seq(Byte), NEW f, NEW n \in 0..Len(s), EndsWith(s, f),
         SubSeq(s, n + 1, Len(s)) # <<>>
  PROVE  EndsWith(SubSeq(s, n + 1, Len(s)), f)
<1> DEFINE q == SubSeq(s, n + 1, Len(s))
<1>1. /\ q \in Seq(Byte) /\ Len(q) = Len(s) - n /\ Len(s) \in Nat /\ n \in Nat
      /\ \A i \in 1..(Len(s) - n) : q[i] = s[n + i]
  BY CutSeq, LenProperties
<1> HIDE DEF q
<1>2. q # <<>>
  BY DEF q
<1>3. Len(q) # 0
  BY <1>1, <1>2
<1>4. Len(q) \in 1..(Len(s) - n) /\ n + Len(q) = Len(s)
  BY <1>1, <1>3
<1>5. q[Len(q)] = s[Len(s)]
  BY <1>1, <1>4
<1>6. EndsWith(q, f)
  BY <1>5 DEF EndsWith
<1> QED
  BY <1>6 DEF q

\* What decoding takes off the buffer, and that the rest of the step leaves the
\* stream alone.
LEMMA DecodeTakes ==
  ASSUME FramingTypeOK, DecodeFrame
  PROVE  /\ FrameEnd \in 0..Len(buffer) /\ FrameEnd > HEADER_SIZE
         /\ FrameEnd \in 0..Len(Stream)
         /\ Stream' = SubSeq(Stream, FrameEnd + 1, Len(Stream))
<1>1. FrameEnd \in 0..Len(buffer) /\ FrameEnd > HEADER_SIZE
  BY Sizes
  DEF FramingTypeOK, DecodeFrame, FrameArrived, HeaderArrived, ValidLength,
      FrameEnd
<1>2. /\ buffer' = SubSeq(buffer, FrameEnd + 1, Len(buffer))
      /\ UNCHANGED <<wire, lock, unsent>>
  BY DEF DecodeFrame, sender
<1> QED
  BY <1>1, <1>2, BufferCut

LEMMA RaisingTakes ==
  ASSUME FramingTypeOK, DecodeRaises
  PROVE  /\ Len(buffer) \in 0..Len(Stream)
         /\ Stream' = SubSeq(Stream, Len(buffer) + 1, Len(Stream))
<1>1. buffer' = <<>> /\ UNCHANGED <<wire, lock, unsent>>
  BY DEF DecodeRaises, sender
<1>2. Len(buffer) \in Nat /\ Len(buffer) \in 0..Len(buffer)
  BY StreamParts
<1>3. SubSeq(buffer, Len(buffer) + 1, Len(buffer)) = <<>>
  BY <1>2, SubSeqEmpty
<1> QED
  BY <1>1, <1>2, <1>3, BufferCut

\* Every other step leaves the stream and the frames as they are.
StreamKept == Stream' = Stream /\ frames' = frames

LEMMA OtherSteps ==
  ASSUME FramingTypeOK, [Next]_vars
  PROVE  \/ \E t \in Thread : BeginSend(t) \/ SendFails(t)
         \/ DecodeFrame \/ DecodeRaises
         \/ StreamKept /\ closed' = closed
         \/ StreamKept /\ CloseSession
<1>1. ASSUME NEW t \in Thread, SendSome(t) PROVE StreamKept /\ closed' = closed
  BY <1>1, BytesWritten DEF SendSome, StreamKept
<1>2. ASSUME Recv PROVE StreamKept /\ closed' = closed
  BY <1>2, BytesRead DEF Recv, sender, StreamKept
<1>3. ASSUME CloseSession PROVE StreamKept
  BY <1>3 DEF CloseSession, receiver, StreamKept, Stream, Pending
<1>4. ASSUME \/ RecvEof \/ DecodeReturns \/ Dispatch \/ DispatchEnds
             \/ ReceiverStops \/ HandlerRaises \/ UNCHANGED vars
      PROVE  StreamKept /\ closed' = closed
  <2>1. UNCHANGED <<closed, lock, unsent, frames, wire, buffer>>
    BY <1>4 DEF RecvEof, DecodeReturns, Dispatch, DispatchEnds, ReceiverStops,
                HandlerRaises, vars, sender
  <2> QED
    BY <2>1 DEF StreamKept, Stream, Pending
<1> QED
  BY <1>1, <1>2, <1>3, <1>4 DEF Next, Receive

StreamInv ==
  /\ WellCut(Stream, frames)
  /\ ~closed /\ Stream # <<>> => EndsWith(Stream, frames)

LEMMA StreamStep ==
  ASSUME FramingTypeOK, StreamInv, [Next]_vars
  PROVE  StreamInv'
<1>1. Stream \in Seq(Byte) /\ frames \in Seq(Envelope)
  BY StreamParts DEF FramingTypeOK
<1>2. ASSUME NEW t \in Thread, BeginSend(t) PROVE StreamInv'
  <2>1. PICK e \in Envelope :
          /\ frames' = Append(frames, e)
          /\ Stream' = Stream \o EncodeFrame(Len(frames) + 1, e.len)
    BY <1>2, StreamGrows
  <2>2. Stream # <<>> => EndsWith(Stream, frames)
    BY <1>2 DEF BeginSend, StreamInv
  <2>3. WellCut(Stream', frames') /\ EndsWith(Stream', frames')
    BY <1>1, <2>1, <2>2, FrameAfterRun DEF StreamInv
  <2> QED
    BY <2>3 DEF StreamInv
<1>3. ASSUME NEW t \in Thread, SendFails(t) PROVE StreamInv'
  <2>1. closed' = TRUE /\ frames' = frames
    BY <1>3 DEF SendFails
  <2>2. WellCut(Stream', frames)
    BY <1>1, <1>3, StreamEndsEarly, CutOfRun DEF StreamInv
  <2> QED
    BY <2>1, <2>2 DEF StreamInv
<1>4. ASSUME NEW n \in 0..Len(Stream), frames' = frames, closed' = closed,
             Stream' = SubSeq(Stream, n + 1, Len(Stream))
      PROVE  StreamInv'
  <2>1. WellCut(Stream', frames)
    BY <1>1, <1>4, CutOfRun DEF StreamInv
  <2>2. ~closed /\ Stream' # <<>> => EndsWith(Stream', frames)
    <3> SUFFICES ASSUME ~closed, Stream' # <<>> PROVE EndsWith(Stream', frames)
      OBVIOUS
    <3>1. Stream # <<>>
      <4> SUFFICES ASSUME Stream = <<>> PROVE FALSE
        OBVIOUS
      <4>1. n \in Nat /\ Len(Stream) = 0 /\ n = 0
        BY <1>4
      <4>2. Stream' = <<>>
        BY <4>1, <1>4, SubSeqEmpty
      <4> QED
        BY <4>2
    <3> QED
      BY <1>1, <1>4, <3>1, CutEnds DEF StreamInv
  <2> QED
    BY <1>4, <2>1, <2>2 DEF StreamInv
<1>5. ASSUME DecodeFrame PROVE StreamInv'
  BY <1>4, <1>5, DecodeTakes DEF DecodeFrame, sender
<1>6. ASSUME DecodeRaises PROVE StreamInv'
  BY <1>4, <1>6, RaisingTakes DEF DecodeRaises, sender
<1>7. ASSUME StreamKept, closed' = closed PROVE StreamInv'
  BY <1>7 DEF StreamKept, StreamInv
<1>8. ASSUME StreamKept, CloseSession PROVE StreamInv'
  BY <1>8 DEF StreamKept, StreamInv, CloseSession
<1> QED
  BY <1>2, <1>3, <1>5, <1>6, <1>7, <1>8, OtherSteps

LEMMA StreamInvHolds == FramingSpec => [](FramingTypeOK /\ StreamInv)
<1>1. Init => StreamInv
  <2> SUFFICES ASSUME Init PROVE StreamInv
    OBVIOUS
  <2>1. Stream = <<>>
    BY EmptySeq, ConcatEmptySeq DEF Init, Stream, Pending
  <2> QED
    BY <2>1 DEF StreamInv, WellCut, Runs, Climbs, InRange
<1>2. FramingTypeOK /\ StreamInv /\ [Next]_vars => StreamInv'
  BY StreamStep
<1> QED
  BY <1>1, <1>2, FramingTypeCorrect, PTL DEF FramingSpec

\* send is "safe to call from any thread": however many threads send and
\* wherever their writes are cut or fail, the bytes of two frames never mix, and
\* what follows a dropped buffer is the rest of one frame and then whole ones.
THEOREM FramesNeverMix == FramingSpec => []FramesDoNotMix
<1>1. FramingTypeOK /\ StreamInv => FramesDoNotMix
  <2> SUFFICES ASSUME FramingTypeOK, StreamInv,
                      NEW a \in DOMAIN Stream, a + 1 \in DOMAIN Stream
               PROVE  LET b == Stream[a]
                      IN  Stream[a + 1] =
                            IF b.pos < SizeOf(b.frame)
                            THEN [frame |-> b.frame, pos |-> b.pos + 1]
                            ELSE [frame |-> b.frame + 1, pos |-> 1]
    BY DEF FramesDoNotMix
  <2> DEFINE k == Stream[a].frame
             p == Stream[a].pos
             z == FrameSize(frames, k)
  <2>1. DOMAIN Stream = 1..Len(Stream) /\ Len(Stream) \in Nat
    BY StreamParts, LenProperties
  <2>2. a \in Nat /\ a <= a + 1 /\ (a + 1) - a = 1
    BY <2>1
  <2>3. /\ p + 1 <= z => Stream[a + 1] = [frame |-> k, pos |-> p + 1]
        /\ p + 1 = z + 1 => Stream[a + 1] = [frame |-> k + 1, pos |-> 1]
    BY <2>2 DEF StreamInv, WellCut, Runs
  <2>4. k \in 1..Len(frames) /\ p \in 1..z
    BY DEF StreamInv, WellCut, InRange
  <2>5. z \in Nat /\ z = SizeOf(k)
    BY <2>4, EnvelopeOf DEF FrameSize, SizeOf, FramingTypeOK
  <2> HIDE DEF z, p, k
  <2>6. p < z \/ p = z
    BY <2>4, <2>5
  <2> QED
    BY <2>3, <2>4, <2>5, <2>6 DEF p, k
<1> QED
  BY <1>1, StreamInvHolds, PTL

-----------------------------------------------------------------------------
(* The length prefix.                                                       *)

\* The prefix of the buffer depends on frames that are there already.
LEMMA PrefixKept ==
  ASSUME FramingTypeOK, StreamInv, HeaderArrived, buffer' = buffer,
         \A k \in 1..Len(frames) : frames'[k] = frames[k]
  PROVE  LengthPrefix(buffer)' = LengthPrefix(buffer)
<1>1. \A i \in 1..Len(buffer) : buffer[i].frame \in 1..Len(frames)
  BY StreamParts DEF StreamInv, WellCut, InRange
<1>2. \A i \in {1, 2, 3, 4} : frames'[buffer[i].frame] = frames[buffer[i].frame]
  <2>1. {1, 2, 3, 4} \subseteq 1..Len(buffer)
    BY Sizes, StreamParts DEF HeaderArrived
  <2> QED
    BY <1>1, <2>1
<1>3. \A i \in {1, 2, 3, 4} : ByteValue(buffer[i])' = ByteValue(buffer[i])
  BY <1>2, SMT DEF ByteValue
<1>4. /\ ByteValue(buffer[1])' = ByteValue(buffer[1])
      /\ ByteValue(buffer[2])' = ByteValue(buffer[2])
      /\ ByteValue(buffer[3])' = ByteValue(buffer[3])
      /\ ByteValue(buffer[4])' = ByteValue(buffer[4])
  BY <1>3
<1> QED
  BY <1>4, SMT DEF LengthPrefix

\* The digits of a length make up the length.
FromDigits(n) ==
  16777216 * ((n \div 16777216) % 256) + 65536 * ((n \div 65536) % 256)
    + 256 * ((n \div 256) % 256) + ((n \div 1) % 256)

LEMMA LargestFrame == MAX_FRAME_SIZE < 16777216
BY SMT DEF MAX_FRAME_SIZE

LEMMA BigEndian ==
  ASSUME NEW n \in 1..MAX_FRAME_SIZE
  PROVE  FromDigits(n) = n
<1> DEFINE q1 == n \div 256
           q2 == n \div 65536
           q3 == n \div 16777216
<1> HIDE DEF q1, q2, q3
<1>1. n \in Nat /\ n < 16777216
  BY LargestFrame, Sizes, SMT
<1> USE DEF q1, q2, q3
<1>2. n \div 1 = n /\ q3 = 0 /\ 0 % 256 = 0
  BY <1>1, SMT
<1>3. q1 \in Nat /\ q2 \in Nat /\ q2 = q1 \div 256 /\ q2 % 256 = q2
  BY <1>1, SMT
<1>4. n = 256 * q1 + (n % 256) /\ q1 = 256 * (q1 \div 256) + (q1 % 256)
  BY <1>1, <1>3, SMT
<1>5. n % 256 \in Nat /\ q1 % 256 \in Nat
  BY <1>1, <1>3, SMT
<1> HIDE DEF q1, q2, q3
<1>6. 16777216 * (q3 % 256) + 65536 * (q2 % 256) + 256 * (q1 % 256)
        + ((n \div 1) % 256) = n
  BY <1>1, <1>2, <1>3, <1>4, <1>5, SMT
<1> QED
  BY <1>6, SMT DEF q1, q2, q3, FromDigits

\* At the head of a frame the prefix is the length of its body.
LEMMA PrefixIsLength ==
  ASSUME FramingTypeOK, NEW k \in 1..Len(frames),
         \A i \in 1..4 : buffer[i] = [frame |-> k, pos |-> i]
  PROVE  LengthPrefix(buffer) = frames[k].len
<1> DEFINE n == frames[k].len
<1>1. n \in 1..MAX_FRAME_SIZE
  BY EnvelopeOf DEF FramingTypeOK
<1>2. /\ buffer[1].frame = k /\ buffer[2].frame = k
      /\ buffer[3].frame = k /\ buffer[4].frame = k
      /\ buffer[1].pos = 1 /\ buffer[2].pos = 2
      /\ buffer[3].pos = 3 /\ buffer[4].pos = 4
  BY SMT
<1>3. /\ ByteValue(buffer[1]) = (n \div 16777216) % 256
      /\ ByteValue(buffer[2]) = (n \div 65536) % 256
      /\ ByteValue(buffer[3]) = (n \div 256) % 256
      /\ ByteValue(buffer[4]) = (n \div 1) % 256
  BY <1>2, Sizes, SMT DEF ByteValue
<1>4. LengthPrefix(buffer) = FromDigits(n)
  BY <1>3, SMT DEF LengthPrefix, FromDigits
<1> QED
  BY <1>1, <1>4, BigEndian

-----------------------------------------------------------------------------
(* What the receiver leaves in its buffer.                                  *)

DrainInv ==
  pc \in {"recv", "dispatch"} =>
    ~FrameArrived /\ Len(buffer) < HEADER_SIZE + MAX_FRAME_SIZE

LEMMA DrainStep ==
  ASSUME FramingTypeOK, StreamInv, DrainInv, [Next]_vars
  PROVE  DrainInv'
<1> SUFFICES ASSUME pc' \in {"recv", "dispatch"}
             PROVE  (~FrameArrived /\ Len(buffer) < HEADER_SIZE + MAX_FRAME_SIZE)'
  BY DEF DrainInv
<1>1. Len(buffer) \in Nat
  BY StreamParts
<1>2. ASSUME pc \in {"recv", "dispatch"}, buffer' = buffer,
             \A k \in 1..Len(frames) : frames'[k] = frames[k]
      PROVE  (~FrameArrived /\ Len(buffer) < HEADER_SIZE + MAX_FRAME_SIZE)'
  <2>1. ~FrameArrived /\ Len(buffer) < HEADER_SIZE + MAX_FRAME_SIZE
    BY <1>2 DEF DrainInv
  <2>2. HeaderArrived' = HeaderArrived
    BY <1>2 DEF HeaderArrived
  <2>3. HeaderArrived => LengthPrefix(buffer)' = LengthPrefix(buffer)
    BY <1>2, PrefixKept
  <2>4. HeaderArrived => ValidLength' = ValidLength /\ FrameEnd' = FrameEnd
    BY <2>3 DEF ValidLength, FrameEnd
  <2>5. (~FrameArrived)'
    BY <1>2, <2>1, <2>2, <2>4 DEF FrameArrived
  <2> QED
    BY <1>2, <2>1, <2>5
<1>3. ASSUME NEW t \in Thread, BeginSend(t)
      PROVE  (~FrameArrived /\ Len(buffer) < HEADER_SIZE + MAX_FRAME_SIZE)'
  <2>1. PICK e \in Envelope : frames' = Append(frames, e)
    BY <1>3 DEF BeginSend
  <2>2. \A k \in 1..Len(frames) : frames'[k] = frames[k]
    BY <2>1, AppendProperties DEF FramingTypeOK
  <2>3. pc' = pc /\ buffer' = buffer
    BY <1>3 DEF BeginSend, receiver
  <2> QED
    BY <1>2, <2>2, <2>3
<1>4. ASSUME DecodeReturns
      PROVE  (~FrameArrived /\ Len(buffer) < HEADER_SIZE + MAX_FRAME_SIZE)'
  <2>1. UNCHANGED <<buffer, frames>>
    BY <1>4 DEF DecodeReturns, sender
  <2>2. ~FrameArrived /\ (HeaderArrived => Len(buffer) < FrameEnd /\ ValidLength)
    <3>1. HeaderArrived => ValidLength /\ ~FrameArrived
      BY <1>4 DEF DecodeReturns
    <3>2. ~FrameArrived
      BY <3>1 DEF FrameArrived
    <3>3. HeaderArrived => ~(Len(buffer) >= FrameEnd)
      BY <3>1, <3>2 DEF FrameArrived
    <3>4. HeaderArrived => FrameEnd \in Nat
      BY <3>1, Sizes DEF ValidLength, FrameEnd
    <3> QED
      BY <3>1, <3>2, <3>3, <3>4, <1>1
  <2>3. Len(buffer) < HEADER_SIZE + MAX_FRAME_SIZE
    <3>1. CASE HeaderArrived
      BY <3>1, <2>2, <1>1, Sizes DEF ValidLength, FrameEnd
    <3>2. CASE ~HeaderArrived
      BY <3>2, <1>1, Sizes DEF HeaderArrived
    <3> QED
      BY <3>1, <3>2
  <2>4. FrameArrived' = FrameArrived
    BY <2>1 DEF FrameArrived, HeaderArrived, ValidLength, FrameEnd, LengthPrefix,
                ByteValue
  <2> QED
    BY <2>1, <2>2, <2>3, <2>4
<1>5. ASSUME DecodeRaises
      PROVE  (~FrameArrived /\ Len(buffer) < HEADER_SIZE + MAX_FRAME_SIZE)'
  <2>1. buffer' = <<>>
    BY <1>5 DEF DecodeRaises
  <2> QED
    BY <2>1, Sizes DEF FrameArrived, HeaderArrived
<1>6. ASSUME \/ \E t \in Thread : SendSome(t) \/ SendFails(t)
             \/ CloseSession \/ RecvEof \/ Dispatch \/ DispatchEnds
             \/ ReceiverStops \/ HandlerRaises \/ UNCHANGED vars
      PROVE  (~FrameArrived /\ Len(buffer) < HEADER_SIZE + MAX_FRAME_SIZE)'
  <2>1. /\ pc \in {"recv", "dispatch"} /\ buffer' = buffer /\ frames' = frames
    BY <1>6 DEF SendSome, SendFails, CloseSession, RecvEof, Dispatch,
                DispatchEnds, ReceiverStops, HandlerRaises, vars, sender, receiver
  <2> QED
    BY <1>2, <2>1
<1>7. ~Recv /\ ~DecodeFrame
  BY DEF Recv, DecodeFrame
<1> QED
  BY <1>3, <1>4, <1>5, <1>6, <1>7 DEF Next, Receive

\* No frame waits in the buffer for the bytes of the next one, and an unfinished
\* frame is all the buffer ever holds between two reads.
THEOREM NothingIsHeldBack == FramingSpec => []NothingHeldBack
<1>1. Init => DrainInv
  BY Sizes DEF Init, DrainInv, FrameArrived, HeaderArrived
<1>2. FramingTypeOK /\ StreamInv /\ DrainInv /\ [Next]_vars => DrainInv'
  BY DrainStep
<1>3. DrainInv => NothingHeldBack
  BY DEF DrainInv, NothingHeldBack
<1> QED
  BY <1>1, <1>2, <1>3, StreamInvHolds, PTL DEF FramingSpec
=============================================================================
