------------------------ MODULE FileTransfer_proofs ------------------------
(***************************************************************************)
(* Proofs about FileTransfer for files, chunks and digests of any size,    *)
(* uploads without a digest included.                                      *)
(*                                                                         *)
(* One thing is left to the clients, and is the assumption of the          *)
(* theorems: one connection at a time works on the upload.                 *)
(***************************************************************************)
EXTENDS FileTransfer, SequenceTheorems, TLAPS

OneHandler == \A s1, s2 \in Session : s1 = s2

\* The first bytes of the owner's file and nothing else.
IsPrefix(file) == file = [i \in 1..Len(file) |-> i]

\* What file_end may publish.
Deliverable(file) == file # Missing /\ (file = Whole \/ Unchecked(file))

\* What the handler has established at each of its steps.
Progress ==
  \A s \in Session :
    /\ pc[s] \in {"touch", "append", "record", "digest", "rename", "refuse",
                  "finish"} => Accepting
    /\ pc[s] = "touch" => offset = 0 /\ final = Missing
    /\ pc[s] \in {"append", "record"} =>
         /\ chunk[s].at = offset
         /\ chunk[s].length >= 1
         /\ chunk[s].at + chunk[s].length <= Size
    /\ pc[s] = "record" =>
         part # Missing /\ Len(part) >= chunk[s].at + chunk[s].length
    /\ pc[s] = "record" /\ Len(part) = chunk[s].at + chunk[s].length =>
         IsPrefix(part)
    /\ pc[s] \in {"digest", "rename"} => offset = Size
    /\ pc[s] = "rename" => Deliverable(part)
    /\ pc[s] = "finish" => Deliverable(final)
    /\ pc[s] \in {"save", "link", "announce"} => status = "finished"

\* What the row, the files and the chat say of each other.
Agreement ==
  /\ status = "none" => offset = 0 /\ part = Missing /\ final = Missing
  /\ final # Missing => offset = Size /\ part = Missing
  /\ part # Missing /\ Len(part) = offset => IsPrefix(part)
  /\ status = "finished" => Deliverable(final)
  /\ saved \/ announced => status = "finished"
  /\ AcknowledgedIsStored

FileInv == FileTypeOK /\ Progress /\ Agreement

-----------------------------------------------------------------------------
\* The declared content is a content, and is not the absence of one.
LEMMA WholeIsContent == Whole \in Seq(1..Size) /\ Whole # Missing
<1>1. Whole \in Seq(1..Size)
  BY TransferAssumption DEF Whole
<1> QED
  BY <1>1, TransferAssumption

\* Appending at most a chunk's bytes gives a file, longer by what is written.
LEMMA AppendedIsContent ==
  ASSUME FileTypeOK, NEW s \in Session, NEW n \in 0..chunk[s].length,
         chunk[s].at + chunk[s].length <= Size
  PROVE  /\ Appended(s, n) \in Seq(1..Size)
         /\ Appended(s, n) # Missing
         /\ Len(Appended(s, n)) = (IF part = Missing THEN 0 ELSE Len(part)) + n
<1> DEFINE old == IF part = Missing THEN <<>> ELSE part
           new == [i \in 1..n |-> chunk[s].at + i]
<1>1. chunk[s].at \in Nat /\ chunk[s].length \in Nat /\ n \in Nat
  BY TransferAssumption DEF FileTypeOK, Chunk
<1>2. new \in Seq(1..Size) /\ Len(new) = n
  <2>1. \A i \in 1..n : chunk[s].at + i \in 1..Size
    BY <1>1, TransferAssumption
  <2> QED
    BY <1>1, <2>1
<1>3. old \in Seq(1..Size) /\ Len(old) = (IF part = Missing THEN 0 ELSE Len(part))
  <2>1. CASE part = Missing
    <3>1. old = <<>>
      BY <2>1
    <3> QED
      BY <2>1, <3>1
  <2>2. CASE part # Missing
    BY <2>2 DEF FileTypeOK
  <2> QED
    BY <2>1, <2>2
<1> HIDE DEF old, new
<1>4. old \o new \in Seq(1..Size) /\ Len(old \o new) = Len(old) + Len(new)
  BY <1>2, <1>3
<1>5. Appended(s, n) = old \o new
  BY DEF Appended, old, new
<1> QED
  BY <1>2, <1>3, <1>4, <1>5, TransferAssumption

\* The next bytes after the first ones are again the first ones.
LEMMA AppendedIsPrefix ==
  ASSUME FileTypeOK, NEW s \in Session, NEW n \in 0..chunk[s].length,
         chunk[s].at + chunk[s].length <= Size,
         part = Missing => chunk[s].at = 0,
         part # Missing => Len(part) = chunk[s].at /\ IsPrefix(part)
  PROVE  IsPrefix(Appended(s, n))
<1> DEFINE old == IF part = Missing THEN <<>> ELSE part
           new == [i \in 1..n |-> chunk[s].at + i]
<1>1. chunk[s].at \in Nat /\ chunk[s].length \in Nat /\ n \in Nat
  BY TransferAssumption DEF FileTypeOK, Chunk
<1>2. new \in Seq(Nat) /\ Len(new) = n /\ \A i \in 1..n : new[i] = chunk[s].at + i
  BY <1>1
<1>3. /\ old \in Seq(Nat)
      /\ Len(old) = chunk[s].at
      /\ \A i \in 1..Len(old) : old[i] = i
  <2>1. CASE part = Missing
    <3>1. old = <<>> /\ chunk[s].at = 0
      BY <2>1
    <3>2. <<>> \in Seq(Nat) /\ Len(<<>>) = 0
      BY EmptySeq
    <3>3. \A i \in 1..0 : old[i] = i
      OBVIOUS
    <3> HIDE DEF old
    <3> QED
      BY <3>1, <3>2, <3>3
  <2>2. CASE part # Missing
    <3>1. part \in Seq(1..Size) /\ old = part
      BY <2>2 DEF FileTypeOK
    <3>2. part \in Seq(Nat)
      BY <3>1, TransferAssumption
    <3> QED
      BY <2>2, <3>1, <3>2 DEF IsPrefix
  <2> QED
    BY <2>1, <2>2
<1> HIDE DEF old, new
<1>4. /\ old \o new \in Seq(Nat)
      /\ Len(old \o new) = chunk[s].at + n
      /\ \A i \in 1..Len(old \o new) : (old \o new)[i] = i
  <2>1. /\ old \o new \in Seq(Nat)
        /\ Len(old \o new) = chunk[s].at + n
        /\ \A i \in 1..chunk[s].at + n :
             (old \o new)[i] = IF i <= chunk[s].at THEN old[i]
                                                  ELSE new[i - chunk[s].at]
    <3>1. new \in Seq(Nat) /\ Len(new) = n
      BY <1>2
    <3>2. old \in Seq(Nat) /\ Len(old) = chunk[s].at
      BY <1>3
    <3>3. /\ old \o new \in Seq(Nat)
          /\ Len(old \o new) = Len(old) + Len(new)
          /\ \A i \in 1..Len(old) + Len(new) :
               (old \o new)[i] = IF i <= Len(old) THEN old[i]
                                                 ELSE new[i - Len(old)]
      BY <3>1, <3>2, ConcatProperties
    <3> QED
      BY <3>1, <3>2, <3>3
  <2>2. ASSUME NEW i \in 1..chunk[s].at + n
        PROVE  (old \o new)[i] = i
    <3>0. /\ (old \o new)[i] = IF i <= chunk[s].at THEN old[i]
                                                   ELSE new[i - chunk[s].at]
          /\ i \in Nat /\ i >= 1 /\ i <= chunk[s].at + n
      BY <1>1, <2>1, <2>2
    <3>1. CASE i <= chunk[s].at
      <4>1. i \in 1..Len(old)
        BY <1>1, <1>3, <3>0, <3>1
      <4> QED
        BY <1>3, <3>0, <3>1, <4>1
    <3>2. CASE i > chunk[s].at
      <4>1. i - chunk[s].at \in 1..n
        BY <1>1, <3>0, <3>2
      <4>2. new[i - chunk[s].at] = chunk[s].at + (i - chunk[s].at)
        BY <1>2, <4>1
      <4> QED
        BY <1>1, <3>0, <3>2, <4>2
    <3> QED
      BY <1>1, <3>0, <3>1, <3>2
  <2> QED
    BY <2>1, <2>2
<1>5. Appended(s, n) = old \o new
  BY DEF Appended, old, new
<1> DEFINE whole == old \o new
<1> HIDE DEF whole
<1>6. whole = [i \in 1..Len(whole) |-> i]
  <2>1. whole \in Seq(Nat) /\ \A i \in 1..Len(whole) : whole[i] = i
    BY <1>4 DEF whole
  <2>2. whole = [i \in 1..Len(whole) |-> whole[i]]
    BY <2>1
  <2> QED
    BY <2>1, <2>2
<1> QED
  BY <1>5, <1>6 DEF IsPrefix, whole

\* An empty file is a first part of any.
LEMMA EmptyIsPrefix == IsPrefix(<<>>)
<1>1. Len(<<>>) = 0
  BY EmptySeq
<1>2. <<>> = [i \in 1..0 |-> i]
  OBVIOUS
<1> QED
  BY <1>1, <1>2 DEF IsPrefix

\* A first part as long as the file is the file.
LEMMA WholePrefix ==
  ASSUME NEW file \in Seq(1..Size), IsPrefix(file), Len(file) = Size
  PROVE  file = Whole
  BY DEF IsPrefix, Whole

-----------------------------------------------------------------------------
\* Every step of the only handler, every failed write and every restart keeps
\* the row, the files and the chat in agreement.
LEMMA FileInvStep ==
  ASSUME OneHandler, FileInv, [Next]_vars
  PROVE  FileInv'
<1> USE TransferAssumption DEF FileInv, Accepting, Agreement,
    AcknowledgedIsStored, row, files, chat, Step, Chunk, Deliverable, Unchecked
<1>0. Whole \in Seq(1..Size) /\ Whole # Missing
  BY WholeIsContent
<1>1. ASSUME NEW s \in Session, NEW d \in Digests, StartInsert(s, d)
      PROVE  FileInv'
  <2>1. FileTypeOK'
    BY <1>1 DEF StartInsert, FileTypeOK, Progress
  <2>2. Progress'
    BY <1>0, <1>1, OneHandler
    DEF OneHandler, StartInsert, FileTypeOK, Progress
  <2>3. Agreement'
    BY <1>0, <1>1 DEF StartInsert, FileTypeOK, Progress
  <2> QED
    BY <2>1, <2>2, <2>3
<1>2. ASSUME NEW s \in Session, StartTouch(s)
      PROVE  FileInv'
  <2>0. IsPrefix(<<>>) /\ Len(<<>>) = 0
    BY EmptyIsPrefix, EmptySeq
  <2>1. FileTypeOK'
    BY <1>2 DEF StartTouch, FileTypeOK, Progress
  <2>2. Progress'
    BY <1>0, <1>2, <2>0, OneHandler
    DEF OneHandler, StartTouch, FileTypeOK, Progress
  <2>3. Agreement'
    BY <1>0, <1>2, <2>0 DEF StartTouch, FileTypeOK, Progress
  <2> QED
    BY <2>1, <2>2, <2>3
<1>3. ASSUME NEW s \in Session, NEW n \in 1..MaxChunk, ChunkCheck(s, n)
      PROVE  FileInv'
  <2>1. FileTypeOK'
    BY <1>3 DEF ChunkCheck, FileTypeOK, Progress
  <2>2. Progress'
    BY <1>0, <1>3, OneHandler
    DEF OneHandler, ChunkCheck, FileTypeOK, Progress
  <2>3. Agreement'
    BY <1>0, <1>3 DEF ChunkCheck, FileTypeOK, Progress
  <2> QED
    BY <2>1, <2>2, <2>3
<1>4. ASSUME NEW s \in Session, ChunkAppend(s)
      PROVE  FileInv'
  <2>0. /\ Appended(s, chunk[s].length) \in Seq(1..Size)
        /\ Appended(s, chunk[s].length) # Missing
        /\ Len(Appended(s, chunk[s].length)) =
             (IF part = Missing THEN 0 ELSE Len(part)) + chunk[s].length
    <3>1. chunk[s].length \in 0..chunk[s].length
      BY <1>4 DEF ChunkAppend, FileTypeOK, Chunk
    <3>2. chunk[s].at + chunk[s].length <= Size
      BY <1>4 DEF ChunkAppend, Step, Progress
    <3> QED
      BY <3>1, <3>2, AppendedIsContent
  <2>4. Len(Appended(s, chunk[s].length)) = chunk[s].at + chunk[s].length =>
          IsPrefix(Appended(s, chunk[s].length))
    <3>1. chunk[s].length \in 0..chunk[s].length
      BY <1>4 DEF ChunkAppend, FileTypeOK, Chunk
    <3>2. chunk[s].at + chunk[s].length <= Size /\ chunk[s].at = offset
      BY <1>4 DEF ChunkAppend, Step, Progress
    <3>3. chunk[s].at \in Nat /\ chunk[s].length \in Nat
      BY DEF FileTypeOK, Chunk
    <3>4. Len(Appended(s, chunk[s].length)) = chunk[s].at + chunk[s].length =>
            (IF part = Missing THEN 0 ELSE Len(part)) = chunk[s].at
      <4>1. part # Missing => Len(part) \in Nat
        BY LenProperties DEF FileTypeOK
      <4> QED
        BY <2>0, <3>3, <4>1
    <3> QED
      BY <3>1, <3>2, <3>4, AppendedIsPrefix
  <2>1. FileTypeOK'
    BY <1>4, <2>0 DEF ChunkAppend, FileTypeOK, Progress
  <2>2. Progress'
    <3>1. /\ pc[s] = "append" /\ pc'[s] = "record"
          /\ part' = Appended(s, chunk[s].length)
          /\ UNCHANGED <<row, final, chunk, compared>>
      BY <1>4 DEF ChunkAppend, Step, FileTypeOK
    <3>2. /\ Accepting'
          /\ chunk'[s].at = offset'
          /\ chunk'[s].length >= 1
          /\ chunk'[s].at + chunk'[s].length <= Size
      BY <1>0, <3>1 DEF Progress
    <3>3. part' # Missing /\ Len(part') >= chunk'[s].at + chunk'[s].length
      <4>1. part # Missing => Len(part) \in Nat /\ Len(part) >= offset
        BY <3>1, LenProperties DEF FileTypeOK, Progress
      <4> QED
        BY <1>0, <2>0, <3>1, <3>2, <4>1 DEF FileTypeOK, Chunk
    <3>4. Len(part') = chunk'[s].at + chunk'[s].length => IsPrefix(part')
      BY <2>4, <3>1
    <3>5. \A t \in Session : pc'[t] = "record" /\ t = s
      BY <3>1, OneHandler DEF OneHandler
    <3> QED
      BY <3>2, <3>3, <3>4, <3>5 DEF Progress
  <2>3. Agreement'
    BY <1>0, <1>4, <2>0, <2>4 DEF ChunkAppend, FileTypeOK, Progress
  <2> QED
    BY <2>1, <2>2, <2>3
<1>5. ASSUME NEW s \in Session, NEW n \in 0..MaxChunk,
             ChunkWriteFails(s, n)
      PROVE  FileInv'
  <2>0. /\ Appended(s, n) \in Seq(1..Size)
        /\ Appended(s, n) # Missing
        /\ Len(Appended(s, n)) =
             (IF part = Missing THEN 0 ELSE Len(part)) + n
    <3>1. n \in 0..chunk[s].length
      BY <1>5 DEF ChunkWriteFails, FileTypeOK, Chunk
    <3>2. chunk[s].at + chunk[s].length <= Size
      BY <1>5 DEF ChunkWriteFails, Step, Progress
    <3> QED
      BY <3>1, <3>2, AppendedIsContent
  <2>4. Len(Appended(s, n)) = offset => IsPrefix(Appended(s, n))
    <3>1. n \in 0..chunk[s].length
      BY <1>5 DEF ChunkWriteFails, FileTypeOK, Chunk
    <3>2. /\ chunk[s].at + chunk[s].length <= Size
          /\ chunk[s].at = offset
          /\ chunk[s].length >= 1
      BY <1>5 DEF ChunkWriteFails, Step, Progress
    <3>3. chunk[s].at \in Nat /\ chunk[s].length \in Nat /\ n \in Nat
      BY DEF FileTypeOK, Chunk
    <3>4. part = Missing => offset = 0
      BY <1>5, <3>2, <3>3 DEF ChunkWriteFails, Step, Progress, FileTypeOK
    <3>5. part # Missing => Len(part) \in Nat /\ Len(part) >= offset
      <4>1. part # Missing => Len(part) \in Nat
        BY LenProperties DEF FileTypeOK
      <4> QED
        BY <1>5, <3>2, <3>3, <4>1
        DEF ChunkWriteFails, Step, Progress, FileTypeOK
    <3>6. Len(Appended(s, n)) = offset =>
            (IF part = Missing THEN 0 ELSE Len(part)) = chunk[s].at
      BY <2>0, <3>2, <3>3, <3>4, <3>5
    <3> QED
      BY <3>1, <3>2, <3>4, <3>6, AppendedIsPrefix
  <2>1. FileTypeOK'
    BY <1>5, <2>0 DEF ChunkWriteFails, FileTypeOK, Progress
  <2>2. Progress'
    BY <1>0, <1>5, <2>0, <2>4, OneHandler
    DEF OneHandler, ChunkWriteFails, FileTypeOK, Progress
  <2>3. Agreement'
    BY <1>0, <1>5, <2>0, <2>4 DEF ChunkWriteFails, FileTypeOK, Progress
  <2> QED
    BY <2>1, <2>2, <2>3
<1>6. ASSUME NEW s \in Session, ChunkRecord(s)
      PROVE  FileInv'
  <2>1. FileTypeOK'
    BY <1>6 DEF ChunkRecord, FileTypeOK, Progress
  <2>2. Progress'
    BY <1>0, <1>6, OneHandler
    DEF OneHandler, ChunkRecord, FileTypeOK, Progress
  <2>3. Agreement'
    BY <1>0, <1>6 DEF ChunkRecord, FileTypeOK, Progress
  <2> QED
    BY <2>1, <2>2, <2>3
<1>7. ASSUME NEW s \in Session, EndCheck(s)
      PROVE  FileInv'
  <2>1. FileTypeOK'
    BY <1>7 DEF EndCheck, FileTypeOK, Progress
  <2>2. Progress'
    BY <1>0, <1>7, OneHandler
    DEF OneHandler, EndCheck, FileTypeOK, Progress
  <2>3. Agreement'
    BY <1>0, <1>7 DEF EndCheck, FileTypeOK, Progress
  <2> QED
    BY <2>1, <2>2, <2>3
<1>8. ASSUME NEW s \in Session, NEW d \in Digests, EndDigest(s, d)
      PROVE  FileInv'
  <2>0. part # Missing /\ Len(part) = Size => part = Whole
    BY <1>8, WholePrefix DEF EndDigest, FileTypeOK, Progress
  <2>4. part # Missing => Len(part) \in Nat
    BY LenProperties DEF FileTypeOK
  <2>5. part # Missing /\ final = Missing => Len(part) >= Size
    BY <1>8, <2>4 DEF EndDigest, FileTypeOK, Progress
  <2>1. FileTypeOK'
    BY <1>8 DEF EndDigest, FileTypeOK, Progress
  <2>2. Progress'
    BY <1>0, <1>8, <2>0, <2>4, <2>5, OneHandler
    DEF OneHandler, EndDigest, FileTypeOK, Progress, Matches, Expected
  <2>3. Agreement'
    BY <1>0, <1>8 DEF EndDigest, FileTypeOK, Progress
  <2> QED
    BY <2>1, <2>2, <2>3
<1>9. ASSUME NEW s \in Session, EndRename(s)
      PROVE  FileInv'
  <2>1. FileTypeOK'
    BY <1>9 DEF EndRename, FileTypeOK, Progress
  <2>2. Progress'
    BY <1>0, <1>9, OneHandler
    DEF OneHandler, EndRename, FileTypeOK, Progress
  <2>3. Agreement'
    BY <1>0, <1>9 DEF EndRename, FileTypeOK, Progress
  <2> QED
    BY <2>1, <2>2, <2>3
<1>10. ASSUME NEW s \in Session, EndRefuse(s)
      PROVE  FileInv'
  <2>1. FileTypeOK'
    BY <1>10 DEF EndRefuse, FileTypeOK, Progress
  <2>2. Progress'
    BY <1>0, <1>10, OneHandler
    DEF OneHandler, EndRefuse, FileTypeOK, Progress
  <2>3. Agreement'
    BY <1>0, <1>10 DEF EndRefuse, FileTypeOK, Progress
  <2> QED
    BY <2>1, <2>2, <2>3
<1>11. ASSUME NEW s \in Session, EndFinish(s)
      PROVE  FileInv'
  <2>1. FileTypeOK'
    BY <1>11 DEF EndFinish, FileTypeOK, Progress
  <2>2. Progress'
    BY <1>0, <1>11, OneHandler
    DEF OneHandler, EndFinish, FileTypeOK, Progress
  <2>3. Agreement'
    BY <1>0, <1>11 DEF EndFinish, FileTypeOK, Progress
  <2> QED
    BY <2>1, <2>2, <2>3
<1>12. ASSUME NEW s \in Session, EndSave(s)
      PROVE  FileInv'
  <2>1. FileTypeOK'
    BY <1>12 DEF EndSave, FileTypeOK, Progress
  <2>2. Progress'
    BY <1>0, <1>12, OneHandler
    DEF OneHandler, EndSave, FileTypeOK, Progress
  <2>3. Agreement'
    BY <1>0, <1>12 DEF EndSave, FileTypeOK, Progress
  <2> QED
    BY <2>1, <2>2, <2>3
<1>13. ASSUME NEW s \in Session, EndLink(s)
      PROVE  FileInv'
  <2>1. FileTypeOK'
    BY <1>13 DEF EndLink, FileTypeOK, Progress
  <2>2. Progress'
    BY <1>0, <1>13, OneHandler
    DEF OneHandler, EndLink, FileTypeOK, Progress
  <2>3. Agreement'
    BY <1>0, <1>13 DEF EndLink, FileTypeOK, Progress
  <2> QED
    BY <2>1, <2>2, <2>3
<1>14. ASSUME NEW s \in Session, EndAnnounce(s)
      PROVE  FileInv'
  <2>1. FileTypeOK'
    BY <1>14 DEF EndAnnounce, FileTypeOK, Progress
  <2>2. Progress'
    BY <1>0, <1>14, OneHandler
    DEF OneHandler, EndAnnounce, FileTypeOK, Progress
  <2>3. Agreement'
    BY <1>0, <1>14 DEF EndAnnounce, FileTypeOK, Progress
  <2> QED
    BY <2>1, <2>2, <2>3
<1>15. ASSUME Restart
      PROVE  FileInv'
  <2>1. FileTypeOK'
    BY <1>15 DEF Restart, FileTypeOK, Progress
  <2>2. Progress'
    BY <1>0, <1>15, OneHandler
    DEF OneHandler, Restart, FileTypeOK, Progress
  <2>3. Agreement'
    BY <1>0, <1>15 DEF Restart, FileTypeOK, Progress
  <2> QED
    BY <2>1, <2>2, <2>3
<1>16. CASE UNCHANGED vars
  BY <1>16 DEF FileTypeOK, Progress, vars
<1>17. ASSUME NEW s \in Session, EndRenameFails(s)
      PROVE  FileInv'
  <2>1. FileTypeOK'
    BY <1>17 DEF EndRenameFails, FileTypeOK, Progress
  <2>2. Progress'
    BY <1>0, <1>17, OneHandler
    DEF OneHandler, EndRenameFails, FileTypeOK, Progress
  <2>3. Agreement'
    BY <1>0, <1>17 DEF EndRenameFails, FileTypeOK, Progress
  <2> QED
    BY <2>1, <2>2, <2>3
<1> QED
  BY <1>1, <1>2, <1>3, <1>4, <1>5, <1>6, <1>7, <1>8, <1>9,
     <1>10, <1>11, <1>12, <1>13, <1>14, <1>15, <1>16,
     <1>17
  DEF Next, Faults, Requests, Handler

\* There is no transfer at first.
LEMMA FileInvInit == Init => FileInv
<1> SUFFICES ASSUME Init
             PROVE  FileInv
  OBVIOUS
<1> USE TransferAssumption DEF Init
<1>1. FileTypeOK
  <2>1. [at |-> 0, length |-> 0] \in Chunk
    BY DEF Chunk
  <2>2. chunk \in [Session -> Chunk]
    BY <2>1
  <2>3. pc \in [Session -> {"idle"}]
    OBVIOUS
  <2>4. saved \in BOOLEAN /\ announced \in BOOLEAN /\ linked \in BOOLEAN
       /\ compared \in BOOLEAN
    BY Zenon
  <2> HIDE DEF Init
  <2> QED
    BY <2>2, <2>3, <2>4 DEF FileTypeOK, Init
<1>2. Progress
  BY DEF Progress
<1>3. Agreement
  BY DEF Agreement, AcknowledgedIsStored, Accepting
<1> QED
  BY <1>1, <1>2, <1>3 DEF FileInv

\* The upload's invariant: with one handler at a time.
LEMMA FileInvAlways ==
  ASSUME OneHandler
  PROVE  TransferSpec => []FileInv
<1>1. FileInv /\ [Next]_vars => FileInv'
  BY FileInvStep, OneHandler
<1> QED
  BY FileInvInit, <1>1, PTL DEF TransferSpec

\* Every variable of the upload keeps its type: the recorded offset stays within
\* the declared size, and the part file gets only bytes of the declared file.
THEOREM FileTypesAlways ==
  ASSUME OneHandler
  PROVE  TransferSpec => []FileTypeOK
<1>1. FileInv => FileTypeOK
  BY DEF FileInv
<1> QED
  BY FileInvAlways, OneHandler, <1>1, PTL

-----------------------------------------------------------------------------
\* A download returns the declared bytes or nothing, through failed writes and
\* restarts, when one connection uploads; only an upload without any digest can
\* end as a longer file, never as a truncated one.
THEOREM DownloadsAreWhole ==
  ASSUME OneHandler
  PROVE  TransferSpec => []ServedIsWhole
<1>1. FileInv => ServedIsWhole
  BY DEF FileInv, Agreement, ServedIsWhole, Served, Deliverable
<1> QED
  BY FileInvAlways, OneHandler, <1>1, PTL

\* The same for the links in chat messages: they lead to such a file.
THEOREM LinksAlwaysWork ==
  ASSUME OneHandler
  PROVE  TransferSpec => []LinksWork
<1>1. FileInv => LinksWork
  BY DEF FileInv, Agreement, LinksWork, Served, Deliverable
<1> QED
  BY FileInvAlways, OneHandler, <1>1, PTL

\* No restart or failed write loses a byte the server acknowledged.
THEOREM NothingAcknowledgedIsLost ==
  ASSUME OneHandler
  PROVE  TransferSpec => []AcknowledgedIsStored
<1>1. FileInv => AcknowledgedIsStored
  BY DEF FileInv, Agreement
<1> QED
  BY FileInvAlways, OneHandler, <1>1, PTL

-----------------------------------------------------------------------------
\* A step of the upload publishes, refuses or announces the file, or changes
\* nothing its recipients could see.
LEMMA DeliveryStep ==
  ASSUME FileInv, [Next]_vars
  PROVE  [Delivery!Next]_(Delivery!vars)
<1> USE DEF Delivery!vars, Served, Step, row, files, chat
<1>1. ASSUME NEW s \in Session,
             \/ \E d \in Digests : StartInsert(s, d)
             \/ StartTouch(s)
             \/ \E n \in 1..MaxChunk : ChunkCheck(s, n)
             \/ ChunkAppend(s)
             \/ \E n \in 0..MaxChunk : ChunkWriteFails(s, n)
             \/ EndCheck(s)
      PROVE  UNCHANGED Delivery!vars
  BY <1>1 DEF StartInsert, StartTouch, ChunkCheck, ChunkAppend,
              ChunkWriteFails, EndCheck, FileInv, Agreement
<1>9. ASSUME NEW s \in Session, NEW d \in Digests, EndDigest(s, d)
      PROVE  Delivery!Vouch
  BY <1>9 DEF EndDigest, FileInv, Progress, Accepting, Delivery!Vouch
<1>2. ASSUME NEW s \in Session, ChunkRecord(s)
      PROVE  UNCHANGED Delivery!vars
  BY <1>2 DEF ChunkRecord, FileInv, Progress, Accepting
<1>3. ASSUME NEW s \in Session, EndRename(s) \/ EndRenameFails(s)
      PROVE  UNCHANGED Delivery!vars
  BY <1>3 DEF EndRename, EndRenameFails, FileInv, Progress, Accepting
<1>4. ASSUME NEW s \in Session, EndRefuse(s)
      PROVE  Delivery!Refuse
  BY <1>4 DEF EndRefuse, FileInv, Progress, Accepting, Delivery!Refuse
<1>5. ASSUME NEW s \in Session, EndFinish(s)
      PROVE  Delivery!Publish
  BY <1>5 DEF EndFinish, FileInv, Progress, Accepting, Deliverable, Unchecked,
              Delivery!Publish
<1>6. ASSUME NEW s \in Session, EndSave(s) \/ EndLink(s)
      PROVE  UNCHANGED Delivery!vars
  BY <1>6 DEF EndSave, EndLink, FileInv, Progress
<1>7. ASSUME NEW s \in Session, EndAnnounce(s)
      PROVE  Delivery!Announce \/ UNCHANGED Delivery!vars
  BY <1>7 DEF EndAnnounce, FileInv, Progress, Delivery!Announce
<1>8. CASE Restart \/ UNCHANGED vars
  BY <1>8 DEF Restart, vars
<1> QED
  BY <1>1, <1>2, <1>3, <1>4, <1>5, <1>6, <1>7, <1>8, <1>9
  DEF Next, Faults, Requests, Handler, Delivery!Next

\* The upload implements FileDelivery: available once and for good, whole if a
\* digest vouches for it, or refused for good, and announced only when available.
THEOREM TransferImplementsDelivery ==
  ASSUME OneHandler
  PROVE  TransferSpec => ImplementsDelivery
<1>1. Init => Delivery!Init
  BY DEF Init, Delivery!Init, Served
<1>2. FileInv /\ [Next]_vars => [Delivery!Next]_(Delivery!vars)
  BY DeliveryStep
<1> QED
  BY FileInvAlways, OneHandler, <1>1, <1>2, PTL
  DEF TransferSpec, ImplementsDelivery, Delivery!DeliverySpec
=============================================================================
