---------------------------- MODULE FileTransfer ----------------------------
(***************************************************************************)
(* One upload, file_start -> file_chunk* -> file_end: the row of table     *)
(* file_transfers, the two files it names on disk and the handlers of      *)
(* server/message_router.py that work on them.  Rows and files of other    *)
(* file_ids are disjoint, so one upload is the general case.               *)
(*                                                                         *)
(* The row and the files outlive the process; what a handler holds in its  *)
(* local variables does not.  Handlers run one per connection: only the    *)
(* owner's connections get past _require_owned_transfer, and while a new   *)
(* login displaces an old connection two of them can be at work at once.   *)
(*                                                                         *)
(* A step is one database transaction or one file-system operation.  Equal *)
(* SHA-256 digests are taken to mean equal contents.                       *)
(***************************************************************************)
EXTENDS Naturals, Sequences

CONSTANTS
  Session,   \* connections logged in as the file's owner
  Size,      \* the declared filesize
  MaxChunk,  \* MAX_FILE_CHUNK_BYTES
  Digests,   \* what clients send as sha256: of the file, of another, or none
  Missing,   \* no such file on disk
  MaxFaults  \* bound: failed writes and restarts of the server

ASSUME TransferAssumption ==
  /\ Size \in Nat
  /\ MaxChunk \in Nat
  /\ MaxFaults \in Nat
  /\ Digests \subseteq {"right", "wrong", "none"}
  /\ Missing \notin Seq(1..Size)

\* The owner's file; a byte is named by its position.
Whole == [i \in 1..Size |-> i]

VARIABLES
  status,    \* file_transfers.status, "none" before there is a row
  offset,    \* file_transfers.offset
  sha256,    \* file_transfers.sha256 as file_start declared it
  linked,    \* file_transfers.message_id is set
  part,      \* <storage_path>.part
  final,     \* <storage_path>
  saved,     \* the chat message with the link is in the history
  announced, \* it was forwarded to whoever of its recipients is online
  pc,        \* where each connection's handler is
  chunk,     \* the offset and length of the chunk it handles
  faults,    \* faults so far
  compared   \* history: the last file_end had a digest to compare with

vars == <<status, offset, sha256, linked, part, final, saved, announced, pc,
          chunk, faults, compared>>

row   == <<status, offset, sha256, linked>>
files == <<part, final>>
chat  == <<saved, announced>>

Chunk == [at : 0..Size, length : 0..MaxChunk]

\* Mutant: a finished transfer still takes chunks and file_end.
AcceptingFinished == status \in {"started", "transferring", "finished"}

Accepting == status \in {"started", "transferring"}

FileTypeOK ==
  /\ status \in {"none", "started", "transferring", "finished", "failed"}
  /\ offset \in 0..Size
  /\ sha256 \in Digests \union {"none"}
  /\ linked \in BOOLEAN
  /\ part \in Seq(1..Size) \union {Missing}
  /\ final \in Seq(1..Size) \union {Missing}
  /\ saved \in BOOLEAN
  /\ announced \in BOOLEAN
  /\ pc \in [Session -> {"idle", "touch", "append", "record", "digest",
                         "rename", "refuse", "finish", "save", "link",
                         "announce"}]
  /\ chunk \in [Session -> Chunk]
  /\ faults \in 0..MaxFaults
  /\ compared \in BOOLEAN

Init ==
  /\ status = "none"
  /\ offset = 0
  /\ sha256 = "none"
  /\ linked = FALSE
  /\ part = Missing
  /\ final = Missing
  /\ saved = FALSE
  /\ announced = FALSE
  /\ pc = [s \in Session |-> "idle"]
  /\ chunk = [s \in Session |-> [at |-> 0, length |-> 0]]
  /\ faults = 0
  /\ compared = FALSE

Step(s, from, to) == pc[s] = from /\ pc' = [pc EXCEPT ![s] = to]

-----------------------------------------------------------------------------
(* file_start.                                                              *)

\* Mutant: INSERT OR REPLACE.
StartInsertReplaces(s, d) ==
  /\ Step(s, "idle", "touch")
  /\ status' = "started"
  /\ offset' = 0
  /\ sha256' = d
  /\ UNCHANGED <<linked, files, chat, chunk, faults, compared>>

\* A second file_start for the file_id fails on the primary key and changes
\* nothing.
StartInsert(s, d) ==
  /\ Step(s, "idle", "touch")
  /\ status = "none"
  /\ status' = "started"
  /\ offset' = 0
  /\ sha256' = d
  /\ UNCHANGED <<linked, files, chat, chunk, faults, compared>>

StartTouch(s) ==
  /\ Step(s, "touch", "idle")
  /\ part' = <<>>
  /\ UNCHANGED <<row, final, chat, chunk, faults, compared>>

-----------------------------------------------------------------------------
(* file_chunk: test against the row, append to the .part file, then record. *)

\* Mutant: a chunk may go past the declared filesize.
ChunkCheckUnbounded(s, n) ==
  /\ Step(s, "idle", "append")
  /\ Accepting
  /\ n >= 1
  /\ offset <= Size
  /\ chunk' = [chunk EXCEPT ![s] = [at |-> offset, length |-> n]]
  /\ UNCHANGED <<row, files, chat, faults, compared>>

ChunkCheck(s, n) ==
  /\ Step(s, "idle", "append")
  /\ Accepting
  /\ n >= 1
  /\ offset + n <= Size
  /\ chunk' = [chunk EXCEPT ![s] = [at |-> offset, length |-> n]]
  /\ UNCHANGED <<row, files, chat, faults, compared>>

\* The file after n bytes of s's chunk are appended; mode "ab" creates it.
Appended(s, n) ==
  (IF part = Missing THEN <<>> ELSE part)
     \o [i \in 1..n |-> chunk[s].at + i]

ChunkAppend(s) ==
  /\ Step(s, "append", "record")
  /\ part' = Appended(s, chunk[s].length)
  /\ UNCHANGED <<row, final, chat, chunk, faults, compared>>

\* Mutant: the chunk is recorded although its write failed.
ChunkWriteIgnored(s, n) ==
  /\ Step(s, "append", "record")
  /\ n < chunk[s].length
  /\ part' = Appended(s, n)
  /\ faults < MaxFaults
  /\ faults' = faults + 1
  /\ UNCHANGED <<row, final, chat, chunk, compared>>

\* The write fails after n bytes: dispatch answers with an error.
ChunkWriteFails(s, n) ==
  /\ Step(s, "append", "idle")
  /\ n < chunk[s].length
  /\ part' = Appended(s, n)
  /\ faults < MaxFaults
  /\ faults' = faults + 1
  /\ UNCHANGED <<row, final, chat, chunk, compared>>

ChunkRecord(s) ==
  /\ Step(s, "record", "idle")
  /\ status' = "transferring"
  /\ offset' = chunk[s].at + chunk[s].length
  /\ UNCHANGED <<sha256, linked, files, chat, chunk, faults, compared>>

-----------------------------------------------------------------------------
(* file_end.                                                                *)

EndCheck(s) ==
  /\ Step(s, "idle", "digest")
  /\ Accepting
  /\ offset = Size
  /\ UNCHANGED <<row, files, chat, chunk, faults, compared>>

\* The digest sent with file_end counts before the one of file_start.
Expected(d) == IF d = "none" THEN sha256 ELSE d

\* Mutant: the digest is not compared.
MatchesAlways(d) == TRUE

Matches(d) == Expected(d) = "none" \/ (Expected(d) = "right" /\ part = Whole)

EndDigest(s, d) ==
  /\ Step(s, "digest", IF part # Missing /\ Matches(d) THEN "rename"
                                                       ELSE "refuse")
  /\ compared' = (Expected(d) # "none")
  /\ UNCHANGED <<row, files, chat, chunk, faults>>

EndRename(s) ==
  /\ Step(s, "rename", "finish")
  /\ part # Missing
  /\ final' = part
  /\ part' = Missing
  /\ UNCHANGED <<row, chat, chunk, faults, compared>>

\* The file system refuses, or another handler has taken the .part file away.
EndRenameFails(s) ==
  /\ Step(s, "rename", "refuse")
  /\ part = Missing \/ faults < MaxFaults
  /\ faults' = IF part = Missing THEN faults ELSE faults + 1
  /\ UNCHANGED <<row, files, chat, chunk, compared>>

EndRefuse(s) ==
  /\ Step(s, "refuse", "idle")
  /\ status' = "failed"
  /\ UNCHANGED <<offset, sha256, linked, files, chat, chunk, faults, compared>>

\* The row's sha256 becomes the digest computed; the file_end handlers that
\* could still read it are refused by the status.
EndFinish(s) ==
  /\ Step(s, "finish", "save")
  /\ status' = "finished"
  /\ UNCHANGED <<offset, sha256, linked, files, chat, chunk, faults, compared>>

EndSave(s) ==
  /\ Step(s, "save", "link")
  /\ saved' = TRUE
  /\ UNCHANGED <<row, files, announced, chunk, faults, compared>>

EndLink(s) ==
  /\ Step(s, "link", "announce")
  /\ status' = "finished"
  /\ linked' = TRUE
  /\ UNCHANGED <<offset, sha256, files, chat, chunk, faults, compared>>

\* A forward that cannot be encoded raises, before or after others were sent.
EndAnnounce(s) ==
  /\ Step(s, "announce", "idle")
  /\ announced' \in {announced, TRUE}
  /\ UNCHANGED <<row, files, saved, chunk, faults, compared>>

-----------------------------------------------------------------------------
\* The process stops between two steps of its handlers and starts again.
Restart ==
  /\ \E s \in Session : pc[s] # "idle"
  /\ pc' = [s \in Session |-> "idle"]
  /\ faults < MaxFaults
  /\ faults' = faults + 1
  /\ UNCHANGED <<row, files, chat, chunk, compared>>

Requests(s) ==
  \/ \E d \in Digests : StartInsert(s, d)
  \/ \E n \in 1..MaxChunk : ChunkCheck(s, n)
  \/ EndCheck(s)

Handler(s) ==
  \/ StartTouch(s)
  \/ ChunkAppend(s)
  \/ ChunkRecord(s)
  \/ \E d \in Digests : EndDigest(s, d)
  \/ EndRename(s)
  \/ EndRenameFails(s)
  \/ EndRefuse(s)
  \/ EndFinish(s)
  \/ EndSave(s)
  \/ EndLink(s)
  \/ EndAnnounce(s)

Faults ==
  \/ \E s \in Session, n \in 0..MaxChunk : ChunkWriteFails(s, n)
  \/ Restart

Next == Faults \/ \E s \in Session : Requests(s) \/ Handler(s)

TransferSpec == Init /\ [][Next]_vars

\* A handler that has begun goes on unless the process stops.
LiveTransferSpec == TransferSpec /\ \A s \in Session : WF_vars(Handler(s))

-----------------------------------------------------------------------------
(* Properties.                                                              *)

\* GET /files/<file_id>: the row must say finished and the file be there.
Served == IF status = "finished" THEN final ELSE Missing

\* Bytes of a chunk that was written but never recorded stay in the file; when
\* no digest is sent, as a browser over plain http cannot, nothing detects it.
Unchecked(file) == ~compared /\ Len(file) > Size

\* Whatever fails, and wherever the server is restarted, a download returns
\* the bytes the owner declared or nothing.  The exception is a file that is
\* longer than declared, after a chunk was written twice, in an upload without
\* any digest; even so it is never truncated, and one of the declared length
\* is whole.
ServedIsWhole ==
  \/ Served \in {Whole, Missing}
  \/ Unchecked(Served)

\* Every link that was saved or sent in a chat message leads to the whole
\* file, or to the longer one of an upload without a digest; never nowhere.
LinksWork ==
  saved \/ announced =>
    /\ Served # Missing
    /\ Served = Whole \/ Unchecked(Served)

\* The offset a client is told to go on from never runs ahead of the bytes on
\* disk, also after failed writes and restarts: nothing acknowledged is lost.
AcknowledgedIsStored ==
  Accepting =>
    \/ offset = 0
    \/ final # Missing
    \/ part # Missing /\ Len(part) >= offset

\* The upload keeps the promise of module FileDelivery: available once and with
\* the same content for good, the whole file if a digest vouches for it, or
\* refused for good, and announced only when available.
Delivery == INSTANCE FileDelivery WITH
  Nothing <- Missing,
  outcome <- CASE status = "finished" -> "available"
               [] status = "failed"   -> "refused"
               [] OTHER               -> "open",
  content <- Served,
  vouched <- compared

ImplementsDelivery == Delivery!DeliverySpec

\* docs/protocol.md: when a file is finished, its recipients are notified by an
\* ordinary chat message.
FinishedIsSaved == (status = "finished") ~> saved
=============================================================================
