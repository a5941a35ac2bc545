------------------------- MODULE ChatMessages_proofs -------------------------
(***************************************************************************)
(* Theorems about module ChatMessages, for any number of connections,      *)
(* users, messages, requests, moves and losses, private or group.          *)
(***************************************************************************)
EXTENDS ChatMessages, SequenceTheorems, TLAPS

-----------------------------------------------------------------------------
(* Types.  A handler past its check works on a message, and the message it   *)
(* is sending is not under review yet.                                       *)

Sending == {"save", "forward", "submit"}
Working == Sending \union {"recall", "audience", "notify"}

WorkTypes ==
  /\ \A s \in Session :
       /\ pc[s] \in ReaderPC
       /\ pc[s] \in Working => job[s] \in Message
       /\ pc[s] \in Sending => username[s] \in User
  /\ \A m \in Message :
       /\ pc[m] \in ReviewPC
       /\ pc[m] # "unsent" => author[m] \in User
  /\ \A s \in Session : pc[s] \in {"forward", "submit"} => author[job[s]] \in User

ChatTypes == ChatTypeOK /\ WorkTypes

\* What a client's list can become.
LEMMA ListTypes ==
  ASSUME ChatTypeOK, NEW s \in Session, NEW m \in Message
  PROVE  /\ Pushed(s, m) \in Seq({"shown", "recalled"})
         /\ Struck(s, m) \in Seq({"shown", "recalled"})
         /\ Loaded(s, m) \in Seq({"shown", "recalled"})
<1> DEFINE S == {"shown", "recalled"}
<1>1. items[s][m] \in Seq(S)
  BY DEF ChatTypeOK
<1>2. Pushed(s, m) \in Seq(S)
  <2>1. Append(items[s][m], "shown") \in Seq(S)
    BY <1>1, AppendProperties
  <2>2. QED
    BY <1>1, <2>1 DEF Pushed
<1>3. Struck(s, m) \in Seq(S)
  BY <1>1 DEF Struck
<1>4. Loaded(s, m) \in Seq(S)
  <2>1. page[s][m] \in {"absent", "shown", "recalled"}
    BY DEF ChatTypeOK
  <2>2. << >> \in Seq(S) /\ (page[s][m] # "absent" => <<page[s][m]>> \in Seq(S))
    BY <2>1
  <2>3. QED
    BY <1>1, <2>2 DEF Loaded
<1>5. QED
  BY <1>2, <1>3, <1>4

\* A change of one client's list, or of its notices.
LEMMA OneEntry ==
  ASSUME NEW D, NEW E, NEW L, NEW f \in [D -> [E -> L]], NEW d \in D, NEW e \in E,
         NEW x \in L
  PROVE  [f EXCEPT ![d][e] = x] \in [D -> [E -> L]]
<1>1. [f[d] EXCEPT ![e] = x] \in [E -> L]
  OBVIOUS
<1>2. QED
  BY <1>1

LEMMA OneMember ==
  ASSUME NEW D, NEW L, NEW f \in [D -> SUBSET L], NEW d \in D, NEW x \in L
  PROVE  [f EXCEPT ![d] = @ \union {x}] \in [D -> SUBSET L]
<1>1. f[d] \union {x} \in SUBSET L
  OBVIOUS
<1>2. QED
  BY <1>1

LEMMA OnlyOneMember ==
  ASSUME NEW D, NEW L, NEW f \in [D -> SUBSET L], NEW e, NEW x, NEW d \in D
  PROVE  [f EXCEPT ![e] = @ \union {x}][d] \subseteq f[d] \union {x}
<1>1. CASE d = e
  BY <1>1
<1>2. CASE d # e
  BY <1>2
<1>3. QED
  BY <1>1, <1>2

\* Steps that leave the lists alone.
LEMMA QuietTypes ==
  ASSUME ChatTypes, NEW s \in Session,
         \/ \E u \in User : Login(s, u)
         \/ \E m \in Message : SendCheck(s, m) \/ RecallCheck(s, m)
         \/ HistoryCheck(s) \/ Move(s)
         \/ SaveMessage(s) \/ Submit(s) \/ RecallMessage(s) \/ HistoryRead(s)
  PROVE  ChatTypes'
<1> USE ChatAssumption
    DEF ChatTypes, ChatTypeOK, WorkTypes, Sending, Working, Thread, ReaderPC,
        ReviewPC, Step, Ask, directory, tables, threads, clients, history
<1>1. ASSUME NEW u \in User, Login(s, u) PROVE ChatTypes'
  BY <1>1 DEF Login, Attach
<1>2. ASSUME NEW m \in Message, SendCheck(s, m) PROVE ChatTypes'
  BY <1>2 DEF SendCheck
<1>3. ASSUME NEW m \in Message, RecallCheck(s, m) PROVE ChatTypes'
  BY <1>3 DEF RecallCheck
<1>4. CASE HistoryCheck(s)
  BY <1>4 DEF HistoryCheck
<1>5. CASE Move(s)
  BY <1>5 DEF Move
<1>6. CASE SaveMessage(s)
  BY <1>6 DEF SaveMessage
<1>7. CASE Submit(s)
  <2> DEFINE m == job[s]
  <2>1. m \in Message /\ author[m] \in User /\ m \notin Session
    BY <1>7 DEF Submit
  <2>2. pc' = [pc EXCEPT ![s] = "idle", ![m] = "queued"]
    BY <1>7 DEF Submit
  <2> HIDE DEF m
  <2>3. /\ pc'[s] = "idle" /\ pc'[m] = "queued"
        /\ \A t \in Thread \ {s, m} : pc'[t] = pc[t]
        /\ pc' \in [Thread -> ReaderPC \union ReviewPC]
    <3>1. pc \in [Thread -> ReaderPC \union ReviewPC]
      OBVIOUS
    <3>2. s \in Thread /\ m \in Thread /\ s # m
      BY <2>1
    <3>3. "idle" \in ReaderPC /\ "queued" \in ReviewPC
      OBVIOUS
    <3>4. QED
      BY <2>2, <3>1, <3>2, <3>3
  <2>4. job' = [job EXCEPT ![s] = NoMessage]
    BY <1>7 DEF Submit
  <2>5. UNCHANGED <<directory, username, tables, todo, target, page, clients,
                    history>>
    BY <1>7 DEF Submit
  <2>6. ChatTypeOK'
    BY <2>3, <2>4, <2>5
  <2>7. WorkTypes'
    <3>1. \A t \in Session : t # s => pc'[t] = pc[t] /\ job'[t] = job[t]
      BY <2>1, <2>3, <2>4
    <3>2. \A n \in Message : n # m => pc'[n] = pc[n]
      BY <2>3
    <3>3. UNCHANGED <<author, username>>
      BY <2>5
    <3>4. \A t \in Session :
            /\ pc'[t] \in ReaderPC
            /\ pc'[t] \in Working => job'[t] \in Message
            /\ pc'[t] \in Sending => username'[t] \in User
            /\ pc'[t] \in {"forward", "submit"} => author'[job'[t]] \in User
      BY <2>3, <3>1, <3>3
    <3>5. \A n \in Message :
            /\ pc'[n] \in ReviewPC
            /\ pc'[n] # "unsent" => author'[n] \in User
      BY <2>1, <2>3, <3>2, <3>3
    <3>6. QED
      BY <3>4, <3>5
  <2>8. QED
    BY <2>6, <2>7
<1>8. CASE RecallMessage(s)
  BY <1>8 DEF RecallMessage
<1>9. CASE HistoryRead(s)
  BY <1>9 DEF HistoryRead
<1>10. QED
  BY <1>1, <1>2, <1>3, <1>4, <1>5, <1>6, <1>7, <1>8, <1>9

LEMMA ListTypesStep ==
  ASSUME ChatTypes, NEW s \in Session,
         \/ Forward(s) \/ ForwardEnds(s) \/ HistoryReply(s)
         \/ ForwardRaises(s) \/ HistoryRaises(s)
  PROVE  ChatTypes'
<1> USE ChatAssumption
    DEF ChatTypes, ChatTypeOK, WorkTypes, Sending, Working, Thread, ReaderPC,
        ReviewPC, Step, directory, tables, threads, history
<1> DEFINE Lists == [Message -> Seq({"shown", "recalled"})]
<1>1. ASSUME NEW d \in Session, NEW m \in Message, Show(d, m)
      PROVE  items' \in [Session -> Lists]
  <2>1. Pushed(d, m) \in Seq({"shown", "recalled"})
    BY ListTypes
  <2>2. QED
    BY <1>1, <2>1 DEF Show
<1>2. CASE Forward(s)
  <2>1. items' \in [Session -> Lists]
    BY <1>1, <1>2 DEF Forward
  <2>2. QED
    BY <1>2, <2>1 DEF Forward
<1>3. CASE ForwardEnds(s)
  <2>1. items' \in [Session -> Lists]
    BY <1>1, <1>3 DEF ForwardEnds
  <2>2. QED
    BY <1>3, <2>1 DEF ForwardEnds
<1>4. CASE HistoryReply(s)
  <2>1. [m \in Message |-> Loaded(s, m)] \in Lists
    BY ListTypes
  <2>2. items' \in [Session -> Lists]
    BY <1>4, <2>1 DEF HistoryReply
  <2>3. page' \in [Session -> [Message -> {"absent", "shown", "recalled"}]]
    BY <1>4 DEF HistoryReply, NoRows
  <2>4. QED
    BY <1>4, <2>2, <2>3 DEF HistoryReply
<1>5. CASE ForwardRaises(s)
  <2>1. cut' \subseteq Message \X {"forward", "warning", "notice"}
    BY <1>5 DEF ForwardRaises
  <2>2. QED
    BY <1>5, <2>1 DEF ForwardRaises, clients
<1>6. CASE HistoryRaises(s)
  <2>1. page' \in [Session -> [Message -> {"absent", "shown", "recalled"}]]
    BY <1>6 DEF HistoryRaises, NoRows
  <2>2. QED
    BY <1>6, <2>1 DEF HistoryRaises, clients
<1>7. QED
  BY <1>2, <1>3, <1>4, <1>5, <1>6

LEMMA LoopTypesStep ==
  ASSUME ChatTypes, NEW t \in Thread, Loops(t) PROVE ChatTypes'
<1> USE ChatAssumption
    DEF ChatTypes, ChatTypeOK, WorkTypes, Sending, Working, Thread, ReaderPC,
        ReviewPC, Step, directory, tables, threads, clients, history
<1>1. ASSUME NEW u \in User, Lookup(t, u) PROVE ChatTypes'
  BY <1>1 DEF Lookup
<1>2. CASE Audience(t)
  BY <1>2 DEF Audience
<1>3. CASE Notify(t)
  <2> DEFINE s == target[t]
             m == About(t)
  <2>1. s \in Session /\ m \in Message
    BY <1>3 DEF Notify, About
  <2>2. Struck(s, m) \in Seq({"shown", "recalled"})
    BY <2>1, ListTypes
  <2>3. By(t) \in {"sender", "server"}
    BY DEF By
  <2>4. \/ /\ items' = [items EXCEPT ![s][m] = Struck(s, m)]
           /\ noticed' = [noticed EXCEPT ![s] = @ \union {<<m, By(t)>>}]
        \/ UNCHANGED <<items, noticed>>
    BY <1>3 DEF Notify
  <2> HIDE DEF s, m
  <2>5. items' \in [Session -> [Message -> Seq({"shown", "recalled"})]]
    <3>1. items \in [Session -> [Message -> Seq({"shown", "recalled"})]]
      OBVIOUS
    <3>2. [items EXCEPT ![s][m] = Struck(s, m)]
            \in [Session -> [Message -> Seq({"shown", "recalled"})]]
      BY <2>1, <2>2, <3>1, OneEntry
    <3>3. QED
      BY <2>4, <3>1, <3>2
  <2>6. noticed' \in [Session -> SUBSET (Message \X {"sender", "server"})]
    <3>1. noticed \in [Session -> SUBSET (Message \X {"sender", "server"})]
      OBVIOUS
    <3>2. <<m, By(t)>> \in Message \X {"sender", "server"}
      BY <2>1, <2>3
    <3>3. [noticed EXCEPT ![s] = @ \union {<<m, By(t)>>}]
            \in [Session -> SUBSET (Message \X {"sender", "server"})]
      BY <2>1, <3>1, <3>2, OneMember
    <3>4. QED
      BY <2>4, <3>1, <3>3
  <2>7. target' \in [Thread -> Session \union {NoSession}]
    BY <1>3 DEF Notify
  <2>8. QED
    BY <1>3, <2>5, <2>6, <2>7 DEF Notify
<1>4. CASE NotifyEnds(t)
  BY <1>4 DEF NotifyEnds
<1>5. CASE NotifyRaises(t)
  <2>1. About(t) \in Message
    BY <1>5 DEF NotifyRaises, About
  <2>2. cut' \subseteq Message \X {"forward", "warning", "notice"}
    BY <1>5, <2>1 DEF NotifyRaises
  <2>3. QED
    BY <1>5, <2>2 DEF NotifyRaises
<1>6. QED
  BY <1>1, <1>2, <1>3, <1>4, <1>5 DEF Loops

LEMMA ReviewTypesStep ==
  ASSUME ChatTypes, NEW m \in Message,
         \/ ReviewStarts(m) \/ ReviewAllows(m) \/ ReviewRejects(m)
         \/ Warn(m) \/ WarnRaises(m) \/ Strike(m)
  PROVE  ChatTypes'
<1> USE ChatAssumption
    DEF ChatTypes, ChatTypeOK, WorkTypes, Sending, Working, Thread, ReaderPC,
        ReviewPC, Step, directory, tables, threads, clients, history
<1>1. CASE ReviewStarts(m) \/ ReviewAllows(m)
  <2>1. CASE ReviewStarts(m)
    BY <2>1 DEF ReviewStarts
  <2>2. CASE ReviewAllows(m)
    BY <2>2 DEF ReviewAllows
  <2>3. QED
    BY <1>1, <2>1, <2>2
<1>2. CASE ReviewRejects(m)
  BY <1>2 DEF ReviewRejects
<1>3. CASE Warn(m)
  BY <1>3 DEF Warn
<1>4. CASE Strike(m)
  BY <1>4 DEF Strike
<1>5. CASE WarnRaises(m)
  BY <1>5 DEF WarnRaises
<1>6. QED
  BY <1>1, <1>2, <1>3, <1>4, <1>5

LEMMA DepartureTypes == ASSUME ChatTypes, Departure PROVE ChatTypes'
<1> USE ChatAssumption
    DEF ChatTypes, ChatTypeOK, WorkTypes, tables, threads, clients, history
<1>1. /\ holder' \in [User -> Session \union {NoSession}]
      /\ open' \subseteq Session
      /\ evicted' \subseteq open'
  BY DEF Departure, Detach, Close
<1>2. QED
  BY <1>1 DEF Departure

LEMMA ChatTypesStep == ChatTypes /\ [ChatNext]_chatVars => ChatTypes'
<1> SUFFICES ASSUME ChatTypes, [ChatNext]_chatVars PROVE ChatTypes'
  OBVIOUS
<1>1. CASE UNCHANGED chatVars
  BY <1>1
     DEF chatVars, ChatTypes, ChatTypeOK, WorkTypes, directory, tables, threads,
         clients, history
<1>2. QED
  BY <1>1, DepartureTypes, QuietTypes, ListTypesStep, LoopTypesStep,
     ReviewTypesStep
     DEF ChatNext, Requests, Handler, Review, Thread

LEMMA ChatTypesInit == ChatInit => ChatTypes
<1>1. << >> \in Seq({"shown", "recalled"})
  BY EmptySeq
<1>2. QED
  BY <1>1, ChatAssumption
     DEF ChatInit, Init, ChatTypes, ChatTypeOK, WorkTypes, Sending, Working,
         Thread, ReaderPC, ReviewPC, NoRows

LEMMA ChatTypesKept == ChatSpec => []ChatTypes
  BY ChatTypesInit, ChatTypesStep, PTL DEF ChatSpec

\* Every variable of the conversation keeps its type; no notice is ever about
\* anything but a message, whoever sends it.
THEOREM ChatTypesAlways == ChatSpec => []ChatTypeOK
<1>1. ChatTypes => ChatTypeOK
  BY DEF ChatTypes
<1>2. QED
  BY <1>1, ChatTypesKept, PTL

-----------------------------------------------------------------------------
(* The warning comes first.  While nobody logs in twice, a name is held by   *)
(* the one connection that logged in under it, or by none; so the connection *)
(* that holds the author's name now held it when the review looked it up.    *)

OneLogin ==
  /\ \A u \in User : holder[u] # NoSession => username[holder[u]] = u
  /\ \A s, d \in Session : username[s] = username[d] /\ username[s] # NoUser => s = d

\* A message has one sender, who is or was logged in, and its review begins
\* after it was sent.
OneSender ==
  /\ \A s \in Session : pc[s] \in Sending => pc[job[s]] = "unsent"
  /\ \A s, d \in Session :
       pc[s] \in Sending /\ pc[d] \in Sending /\ job[s] = job[d] => s = d
  /\ \A m \in Message : author[m] # NoUser => \E s \in Session : username[s] = author[m]

HoldsAuthor(s, m) == author[m] \in User /\ holder[author[m]] = s /\ s \in open

Warning ==
  \A m \in Message :
    /\ pc[m] = "unsent" => \A d \in Session : <<m, "server">> \notin noticed[d]
    /\ \A s \in Session : HoldsAuthor(s, m) =>
         /\ pc[m] = "warn" => target[m] = s
         /\ pc[m] \in {"strike", "audience", "notify"} => s \in warned[m]
         /\ \A d \in Session : <<m, "server">> \in noticed[d] => s \in warned[m]

WarnInv == OneLogin /\ OneSender /\ Warning

\* Readers that have no part in it: the review and its target stay.
Bystander ==
  /\ UNCHANGED <<holder, open, username, author, noticed, warned>>
  /\ \A m \in Message : pc'[m] = pc[m] /\ target'[m] = target[m]
  /\ \A s \in Session :
       pc'[s] \in Sending => pc[s] \in Sending /\ job'[s] = job[s]

LEMMA BystanderStep ==
  ASSUME ChatTypes, WarnInv, Bystander PROVE WarnInv'
<1> USE DEF WarnInv, Bystander
<1>1. OneLogin'
  BY DEF OneLogin
<1>2. OneSender'
  BY DEF OneSender, ChatTypes, WorkTypes, Working
<1>3. Warning'
  BY DEF Warning, HoldsAuthor
<1>4. QED
  BY <1>1, <1>2, <1>3

LEMMA WarnReaderStep ==
  ASSUME ~Reconnect, ChatTypes, WarnInv, NEW s \in Session, Requests(s) \/ Handler(s)
  PROVE  WarnInv'
<1> USE ChatAssumption
    DEF Step, directory, tables, threads, clients, history
<1>1. ASSUME NEW u \in User, Login(s, u) PROVE WarnInv'
  <2>1. /\ holder' = [holder EXCEPT ![u] = s]
        /\ username' = [username EXCEPT ![s] = u]
        /\ username[s] = NoUser
        /\ \A d \in Session : username[d] # u
        /\ UNCHANGED <<open, pc, job, author, target, noticed, warned>>
    BY <1>1 DEF Login, Attach
  <2>2. OneLogin'
    BY <2>1 DEF WarnInv, OneLogin, ChatTypes, ChatTypeOK
  <2>3. OneSender'
    BY <2>1 DEF WarnInv, OneSender, ChatTypes, ChatTypeOK
  <2>4. ASSUME NEW d \in Session, NEW m \in Message, HoldsAuthor(d, m)'
        PROVE  HoldsAuthor(d, m)
    BY <2>1, <2>4 DEF WarnInv, OneSender, HoldsAuthor, ChatTypes, ChatTypeOK
  <2>5. Warning'
    BY <2>1, <2>4 DEF WarnInv, Warning
  <2>6. QED
    BY <2>2, <2>3, <2>5 DEF WarnInv
<1>2. ASSUME NEW m \in Message, SendCheck(s, m) PROVE WarnInv'
  <2>1. /\ pc' = [pc EXCEPT ![s] = "save"]
        /\ job' = [job EXCEPT ![s] = m]
        /\ author[m] = NoUser
        /\ \A d \in Session : job[d] # m
        /\ UNCHANGED <<holder, open, username, author, target, noticed, warned>>
    BY <1>2 DEF SendCheck
  <2>2. pc[m] = "unsent"
    BY <2>1 DEF ChatTypes, WorkTypes
  <2>3. \A n \in Message : pc'[n] = pc[n]
    BY <2>1 DEF ChatTypes, ChatTypeOK, Thread
  <2>4. \A d \in Session : d # s => pc'[d] = pc[d] /\ job'[d] = job[d]
    BY <2>1 DEF ChatTypes, ChatTypeOK, Thread
  <2>5. job'[s] = m
    BY <2>1 DEF ChatTypes, ChatTypeOK
  <2>6. OneLogin' /\ Warning'
    BY <2>1, <2>3 DEF WarnInv, OneLogin, Warning, HoldsAuthor
  <2>7. OneSender'
    <3>1. \A d \in Session : pc'[d] \in Sending => pc'[job'[d]] = "unsent"
      BY <2>2, <2>3, <2>4, <2>5
         DEF WarnInv, OneSender, ChatTypes, WorkTypes, Working
    <3>2. \A d, e \in Session :
            pc'[d] \in Sending /\ pc'[e] \in Sending /\ job'[d] = job'[e] => d = e
      BY <2>1, <2>4, <2>5 DEF WarnInv, OneSender
    <3>3. QED
      BY <2>1, <3>1, <3>2 DEF WarnInv, OneSender
  <2>8. QED
    BY <2>6, <2>7 DEF WarnInv
<1>3. CASE \/ \E m \in Message : RecallCheck(s, m)
           \/ HistoryCheck(s) \/ Move(s) \/ Forward(s) \/ ForwardEnds(s)
           \/ RecallMessage(s) \/ HistoryRead(s) \/ HistoryReply(s)
           \/ ForwardRaises(s) \/ HistoryRaises(s) \/ NotifyRaises(s)
           \/ (\E u \in User : Lookup(s, u)) \/ Audience(s) \/ NotifyEnds(s)
  <2>1. Bystander
    BY <1>3
       DEF Bystander, RecallCheck, HistoryCheck, Move, Forward, ForwardEnds,
           RecallMessage, HistoryRead, HistoryReply, Lookup, Audience, NotifyEnds,
           ForwardRaises, HistoryRaises, NotifyRaises, ChatTypes, ChatTypeOK,
           Thread, Sending
  <2>2. QED
    BY <2>1, BystanderStep
<1>4. CASE SaveMessage(s)
  <2> DEFINE m == job[s]
  <2>1. /\ pc[s] = "save"
        /\ pc' = [pc EXCEPT ![s] = "forward"]
        /\ author' = [author EXCEPT ![m] = username[s]]
        /\ UNCHANGED <<holder, open, username, job, target, noticed, warned>>
    BY <1>4 DEF SaveMessage
  <2>2. m \in Message /\ pc[m] = "unsent" /\ username[s] \in User
    BY <2>1 DEF WarnInv, OneSender, Sending, ChatTypes, WorkTypes, Working
  <2>3. \A n \in Message : pc'[n] = pc[n] /\ (n # m => author'[n] = author[n])
    BY <2>1 DEF ChatTypes, ChatTypeOK, Thread
  <2>4. author'[m] = username[s]
    BY <2>1, <2>2 DEF ChatTypes, ChatTypeOK
  <2>5. \A d \in Session : (pc'[d] \in Sending <=> pc[d] \in Sending)
    BY <2>1 DEF ChatTypes, ChatTypeOK, Thread, Sending
  <2> HIDE DEF m
  <2>6. OneLogin'
    BY <2>1 DEF WarnInv, OneLogin
  <2>7. OneSender'
    BY <2>1, <2>3, <2>4, <2>5
       DEF WarnInv, OneSender, ChatTypes, WorkTypes, Working
  <2>8. Warning'
    <3>1. ASSUME NEW n \in Message, n # m, NEW d \in Session
          PROVE  HoldsAuthor(d, n)' => HoldsAuthor(d, n)
      BY <2>1, <2>3, <3>1 DEF HoldsAuthor
    <3>2. QED
      BY <2>1, <2>2, <2>3, <3>1 DEF WarnInv, Warning
  <2>9. QED
    BY <2>6, <2>7, <2>8 DEF WarnInv
<1>5. CASE Submit(s)
  <2> DEFINE m == job[s]
  <2>1. /\ pc[s] = "submit"
        /\ pc' = [pc EXCEPT ![s] = "idle", ![m] = "queued"]
        /\ job' = [job EXCEPT ![s] = NoMessage]
        /\ UNCHANGED <<holder, open, username, author, target, noticed, warned>>
    BY <1>5 DEF Submit
  <2>2. m \in Message /\ pc[m] = "unsent"
    BY <2>1 DEF WarnInv, OneSender, Sending, ChatTypes, WorkTypes, Working
  <2> HIDE DEF m
  <2>3. s \in Thread /\ m \in Thread /\ s # m
    BY <2>2 DEF Thread
  <2>4. /\ pc'[s] = "idle" /\ pc'[m] = "queued"
        /\ \A t \in Thread \ {s, m} : pc'[t] = pc[t]
    BY <2>1, <2>3 DEF ChatTypes, ChatTypeOK
  <2>5. \A d \in Session : d # s => pc'[d] = pc[d] /\ job'[d] = job[d]
    BY <2>1, <2>2, <2>4 DEF ChatTypes, ChatTypeOK, Thread
  <2>6. \A n \in Message : n # m => pc'[n] = pc[n]
    BY <2>4 DEF Thread
  <2>7. OneLogin'
    BY <2>1 DEF WarnInv, OneLogin
  <2>8. OneSender'
    <3>1. \A d \in Session : pc'[d] \in Sending => d # s
      BY <2>4 DEF Sending
    <3>2. \A d \in Session : pc'[d] \in Sending => job[d] \in Message /\ job[d] # m
      BY <2>1, <2>5, <3>1 DEF WarnInv, OneSender, Sending, ChatTypes, WorkTypes,
                              Working, m
    <3>3. \A d \in Session : pc'[d] \in Sending => pc'[job'[d]] = "unsent"
      BY <2>5, <2>6, <3>1, <3>2 DEF WarnInv, OneSender
    <3>4. \A d, e \in Session :
            pc'[d] \in Sending /\ pc'[e] \in Sending /\ job'[d] = job'[e] => d = e
      BY <2>5, <3>1 DEF WarnInv, OneSender
    <3>5. QED
      BY <2>1, <3>3, <3>4 DEF WarnInv, OneSender
  <2>9. Warning'
    <3>1. \A d \in Session : <<m, "server">> \notin noticed[d]
      BY <2>2 DEF WarnInv, Warning
    <3>2. ASSUME NEW n \in Message, n # m, NEW d \in Session
          PROVE  HoldsAuthor(d, n)' <=> HoldsAuthor(d, n)
      BY <2>1 DEF HoldsAuthor
    <3>3. QED
      BY <2>1, <2>4, <2>6, <3>1, <3>2 DEF WarnInv, Warning
  <2>10. QED
    BY <2>7, <2>8, <2>9 DEF WarnInv
<1>6. CASE Notify(s)
  <2>1. \A d \in Session, m \in Message :
          <<m, "server">> \in noticed'[d] => <<m, "server">> \in noticed[d]
    <3>1. By(s) # "server"
      BY DEF By
    <3>2. \/ noticed' = noticed
          \/ noticed' = [noticed EXCEPT ![target[s]] =
                            @ \union {<<About(s), By(s)>>}]
      BY <1>6 DEF Notify
    <3>3. \A d \in Session : noticed'[d] \subseteq noticed[d] \union {<<About(s), By(s)>>}
      <4>1. noticed \in [Session -> SUBSET (Message \X {"sender", "server"})]
        BY DEF ChatTypes, ChatTypeOK
      <4>2. QED
        BY <3>2, <4>1, OnlyOneMember
    <3>4. QED
      BY <3>1, <3>3
  <2>2. /\ \A m \in Message : target'[m] = target[m]
        /\ UNCHANGED <<holder, open, username, author, pc, job, warned>>
    BY <1>6 DEF Notify, ChatTypes, ChatTypeOK, Thread
  <2>3. QED
    BY <2>1, <2>2 DEF WarnInv, OneLogin, OneSender, Warning, HoldsAuthor
<1>7. QED
  BY <1>1, <1>2, <1>3, <1>4, <1>5, <1>6 DEF Requests, Handler, Loops

LEMMA WarnReviewStep ==
  ASSUME ChatTypes, WarnInv, NEW m \in Message, Review(m)
  PROVE  WarnInv'
<1> USE ChatAssumption
    DEF Step, directory, tables, threads, clients, history
\* A review leaves the readers and the names alone.
<1>1. /\ UNCHANGED <<holder, open, username, author>>
      /\ \A s \in Session : pc'[s] = pc[s] /\ job'[s] = job[s]
      /\ \A n \in Message : n # m => pc'[n] = pc[n] /\ target'[n] = target[n]
      /\ pc[m] # "unsent"
  BY DEF Review, Loops, ReviewStarts, ReviewAllows, ReviewRejects, Warn,
         WarnRaises, Strike, Lookup, Audience, Notify, NotifyRaises, NotifyEnds,
         ChatTypes, ChatTypeOK, Thread
<1>2. OneLogin'
  BY <1>1 DEF WarnInv, OneLogin
<1>3. OneSender'
  BY <1>1 DEF WarnInv, OneSender, ChatTypes, WorkTypes, Working
<1>4. \A s \in Session, n \in Message : HoldsAuthor(s, n)' <=> HoldsAuthor(s, n)
  BY <1>1 DEF HoldsAuthor
<1>5. Warning'
  <2>1. CASE ReviewStarts(m) \/ ReviewAllows(m) \/ Strike(m) \/ Audience(m)
             \/ NotifyEnds(m) \/ WarnRaises(m) \/ NotifyRaises(m)
             \/ \E u \in User : Lookup(m, u)
    <3>1. /\ UNCHANGED <<noticed, warned>>
          /\ pc'[m] \in {"check", "done"}
             \/ (pc[m] = "strike" /\ pc'[m] = "audience")
             \/ (pc[m] = "audience" /\ pc'[m] = "notify")
             \/ (pc[m] \in {"forward", "notify"} /\ pc'[m] = pc[m])
      BY <2>1 DEF ReviewStarts, ReviewAllows, Strike, Audience, NotifyEnds, Lookup,
                  WarnRaises, NotifyRaises, ChatTypes, ChatTypeOK, Thread
    <3>2. QED
      BY <1>1, <1>4, <3>1 DEF WarnInv, Warning
  <2>2. CASE ReviewRejects(m)
    <3>1. /\ UNCHANGED <<noticed, warned>>
          /\ pc'[m] = "warn"
          /\ target'[m] = holder[author[m]]
      BY <2>2 DEF ReviewRejects, ChatTypes, ChatTypeOK, Thread
    <3>2. QED
      BY <1>1, <1>4, <3>1 DEF WarnInv, Warning, HoldsAuthor
  <2>3. CASE Warn(m)
    <3>1. /\ pc[m] = "warn" /\ pc'[m] = "strike"
          /\ warned'[m] = warned[m] \union (open \intersect {target[m]})
          /\ \A n \in Message : n # m => warned'[n] = warned[n]
          /\ UNCHANGED noticed
      BY <2>3 DEF Warn, ChatTypes, ChatTypeOK, Thread
    <3>2. QED
      BY <1>1, <1>4, <3>1 DEF WarnInv, Warning, HoldsAuthor
  <2>4. CASE Notify(m)
    <3>1. /\ pc[m] = "notify"
          /\ UNCHANGED <<pc, warned>>
          /\ \A d \in Session, n \in Message : <<n, "server">> \in noticed'[d] =>
               n = m \/ <<n, "server">> \in noticed[d]
      <4>1. \/ noticed' = noticed
            \/ noticed' = [noticed EXCEPT ![target[m]] = @ \union {<<m, By(m)>>}]
        BY <2>4 DEF Notify, About
      <4>2. \A d \in Session : noticed'[d] \subseteq noticed[d] \union {<<m, By(m)>>}
        <5>1. noticed \in [Session -> SUBSET (Message \X {"sender", "server"})]
          BY DEF ChatTypes, ChatTypeOK
        <5>2. QED
          BY <4>1, <5>1, OnlyOneMember
      <4>3. pc[m] = "notify" /\ UNCHANGED <<pc, warned>>
        BY <2>4 DEF Notify
      <4>4. QED
        BY <4>2, <4>3
    <3>2. QED
      BY <1>1, <1>4, <3>1 DEF WarnInv, Warning
  <2>5. QED
    BY <2>1, <2>2, <2>3, <2>4 DEF Review, Loops
<1>6. QED
  BY <1>2, <1>3, <1>5 DEF WarnInv

LEMMA WarnDepartureStep ==
  ASSUME ChatTypes, WarnInv, Departure PROVE WarnInv'
<1>1. /\ UNCHANGED <<username, author, pc, job, target, noticed, warned>>
      /\ open' \subseteq open
      /\ \A u \in User : holder'[u] # NoSession => holder'[u] = holder[u]
  BY DEF Departure, Detach, Close, tables, threads, clients, ChatTypes, ChatTypeOK
<1>2. OneLogin'
  BY <1>1 DEF WarnInv, OneLogin
<1>3. OneSender'
  BY <1>1 DEF WarnInv, OneSender
<1>4. ASSUME NEW s \in Session, NEW m \in Message, HoldsAuthor(s, m)'
      PROVE  HoldsAuthor(s, m)
  BY <1>1, <1>4, ChatAssumption DEF HoldsAuthor
<1>5. Warning'
  BY <1>1, <1>4 DEF WarnInv, Warning
<1>6. QED
  BY <1>2, <1>3, <1>5 DEF WarnInv

LEMMA WarnStep ==
  ASSUME ~Reconnect, ChatTypes, WarnInv, [ChatNext]_chatVars PROVE WarnInv'
<1>1. CASE UNCHANGED chatVars
  BY <1>1
     DEF chatVars, directory, tables, threads, clients, WarnInv, OneLogin,
         OneSender, Warning, HoldsAuthor
<1>2. QED
  BY <1>1, WarnReaderStep, WarnReviewStep, WarnDepartureStep DEF ChatNext

LEMMA WarnInit == ChatInit => WarnInv
<1> SUFFICES ASSUME ChatInit PROVE WarnInv
  OBVIOUS
<1>1. /\ \A u \in User : holder[u] = NoSession
      /\ \A s \in Session : username[s] = NoUser /\ noticed[s] = {}
      /\ \A m \in Message : author[m] = NoUser
      /\ \A s \in Session : pc[s] = "idle"
  BY DEF ChatInit, Init, Thread
<1>2. OneLogin /\ OneSender
  BY <1>1 DEF OneLogin, OneSender, Sending
<1>3. Warning
  BY <1>1, ChatAssumption DEF Warning, HoldsAuthor
<1>4. QED
  BY <1>2, <1>3 DEF WarnInv

\* Whoever wrote a message and is still connected under that name has been
\* warned before anybody hears of its forced recall, while a user logs in on
\* one connection.
THEOREM AuthorIsWarnedFirst ==
  ASSUME ~Reconnect PROVE ChatSpec => []WarnedFirst
<1>1. ChatTypes /\ WarnInv /\ [ChatNext]_chatVars => ChatTypes' /\ WarnInv'
  BY ChatTypesStep, WarnStep
<1>2. ChatTypes /\ WarnInv => WarnedFirst
  <2> SUFFICES ASSUME ChatTypes, WarnInv, NEW s \in Session, NEW m \in Message,
                      <<m, "server">> \in noticed[s], Reachable(s),
                      username[s] = author[m]
               PROVE  s \in warned[m]
    BY DEF WarnedFirst
  <2>1. PICK u \in User : holder[u] = s
    BY DEF Reachable, ChatTypes, ChatTypeOK
  <2>2. username[s] = u
    BY <2>1, ChatAssumption DEF WarnInv, OneLogin
  <2>3. HoldsAuthor(s, m)
    BY <2>1, <2>2 DEF HoldsAuthor, Reachable
  <2>4. QED
    BY <2>3 DEF WarnInv, Warning
<1>3. QED
  BY <1>1, <1>2, ChatTypesInit, WarnInit, PTL DEF ChatSpec

-----------------------------------------------------------------------------
(* Whoever shows a recalled content hears of the recall.  The content goes   *)
(* to users that are or were members, all of it that is not a history page   *)
(* before anybody can recall it.  From the recall on, whoever holds the      *)
(* content and is a member without a break has been told, or the thread that *)
(* broadcasts the recall has not come to its user yet, or one that did has   *)
(* ended with an error.                                                      *)

Once == members \union left

EverMember ==
  /\ \A t \in Thread :
       /\ todo[t] \subseteq Once
       /\ target[t] # NoSession => username[target[t]] \in Once
  /\ \A m \in Message : author[m] # NoUser => author[m] \in Once
  /\ \A s \in Session :
       pc[s] \in Sending \union {"history", "reply"} => username[s] \in Once
  /\ \A s \in Session, m \in Message : items[s][m] # <<>> => username[s] \in Once

\* Nobody shows a message before it is saved, nobody recalls it before it is
\* sent.
SentFirst ==
  /\ \A m \in Message : author[m] = NoUser =>
       /\ recalled[m] = "nobody"
       /\ \A s \in Session : items[s][m] = <<>> /\ page[s][m] = "absent"
  /\ \A d \in Session : pc[d] \in Sending =>
       /\ recalled[job[d]] = "nobody"
       /\ pc[d] = "save" => author[job[d]] = NoUser
       /\ pc[d] # "save" => author[job[d]] = username[d]
       /\ \A s \in Session :
            pc[s] \in {"recall", "audience", "notify"} => job[s] # job[d]
  /\ \A s \in Session :
       pc[s] \in {"recall", "audience", "notify"} => author[job[s]] # NoUser

Hears(s) == s \in open /\ username[s] \in members \ left /\ holder[username[s]] = s

Holds(s, m) == Visible(s, m) \/ (pc[s] = "reply" /\ page[s][m] = "shown")

Notified(s, m) == \E by \in {"sender", "server"} : <<m, by>> \in noticed[s]

Coming(t, s, m) ==
  /\ About(t) = m
  /\ \/ pc[t] = "audience"
     \/ pc[t] = "notify" /\ (username[s] \in todo[t] \/ target[t] = s)

\* An error in a send ended a broadcast of the recall.
Broken(m) == <<m, "notice">> \in cut

Notices ==
  \A s \in Session, m \in Message :
    Hears(s) /\ Holds(s, m) /\ recalled[m] # "nobody"
      => Notified(s, m) \/ Broken(m) \/ \E t \in Thread : Coming(t, s, m)

\* What the lists become.
LEMMA StruckShows ==
  ASSUME ChatTypeOK, NEW s \in Session, NEW m \in Message
  PROVE  /\ Struck(s, m) = <<>> <=> items[s][m] = <<>>
         /\ \A i \in DOMAIN Struck(s, m) : Struck(s, m)[i] = "shown" =>
              i \in DOMAIN items[s][m] /\ items[s][m][i] = "shown"
<1> DEFINE q == items[s][m]
<1>1. q \in Seq({"shown", "recalled"})
  BY DEF ChatTypeOK
<1> HIDE DEF q
<1>2. CASE q = <<>>
  BY <1>2 DEF Struck, q
<1>3. CASE q # <<>>
  <2>1. Struck(s, m) = [q EXCEPT ![1] = "recalled"]
    BY <1>3 DEF Struck, q
  <2>2. 1 \in 1..Len(q) /\ DOMAIN q = 1..Len(q) /\ Len(q) \in Nat
    BY <1>1, <1>3, EmptySeq, LenProperties
  <2> DEFINE r == [q EXCEPT ![1] = "recalled"]
  <2>3. /\ r \in Seq({"shown", "recalled"}) /\ Len(r) = Len(q)
        /\ \A i \in 1..Len(q) : r[i] = IF i = 1 THEN "recalled" ELSE q[i]
    BY <1>1, <2>2, ExceptSeq
  <2>4. DOMAIN r = 1..Len(q) /\ r # <<>>
    BY <2>2, <2>3, EmptySeq, LenProperties
  <2> HIDE DEF r
  <2>5. \A i \in DOMAIN r : r[i] = "shown" => i \in DOMAIN q /\ q[i] = "shown"
    BY <2>2, <2>3, <2>4
  <2>6. QED
    BY <1>3, <2>1, <2>4, <2>5 DEF q, r
<1>4. QED
  BY <1>2, <1>3

LEMMA NotifyStrikes ==
  ASSUME ChatTypes, NEW t \in Thread, Notify(t), NEW s \in Session, NEW m \in Message
  PROVE  items'[s][m] \in {items[s][m], Struck(s, m)}
<1>1. items \in [Session -> [Message -> Seq({"shown", "recalled"})]]
  BY DEF ChatTypes, ChatTypeOK
<1>2. items'[s][m] \in {items[s][m], Struck(s, m)}
  <2>1. CASE UNCHANGED items
    BY <2>1
  <2>2. CASE items' = [items EXCEPT ![target[t]][About(t)] = Struck(target[t], About(t))]
    <3>1. CASE s = target[t] /\ m = About(t)
      BY <1>1, <2>2, <3>1
    <3>2. CASE ~(s = target[t] /\ m = About(t))
      BY <1>1, <2>2, <3>2
    <3>3. QED
      BY <3>1, <3>2
  <2>3. QED
    BY <2>1, <2>2 DEF Notify
<1>3. QED
  BY <1>2

LEMMA NotifyShows ==
  ASSUME ChatTypes, NEW t \in Thread, Notify(t)
  PROVE  \A s \in Session, m \in Message :
           /\ items'[s][m] = <<>> <=> items[s][m] = <<>>
           /\ Visible(s, m)' => Visible(s, m)
<1> SUFFICES ASSUME NEW s \in Session, NEW m \in Message
             PROVE  /\ items'[s][m] = <<>> <=> items[s][m] = <<>>
                    /\ Visible(s, m)' => Visible(s, m)
  OBVIOUS
<1>1. items \in [Session -> [Message -> Seq({"shown", "recalled"})]]
  BY DEF ChatTypes, ChatTypeOK
<1>2. items'[s][m] \in {items[s][m], Struck(s, m)}
  BY NotifyStrikes
<1>3. QED
  BY <1>2, StruckShows DEF ChatTypes, Visible

LEMMA ShowAdds ==
  ASSUME ChatTypes, NEW d \in Session, NEW n \in Message, Show(d, n)
  PROVE  \A s \in Session, m \in Message :
           items'[s][m] # items[s][m] => s = d /\ m = n
<1>1. items \in [Session -> [Message -> Seq({"shown", "recalled"})]]
  BY DEF ChatTypes, ChatTypeOK
<1>2. QED
  BY <1>1 DEF Show

LEMMA PageShows ==
  ASSUME ChatTypes, NEW d \in Session, HistoryReply(d)
  PROVE  \A s \in Session, m \in Message :
           /\ s # d => items'[s] = items[s]
           /\ items'[s][m] # <<>> => items[s][m] # <<>> \/ page[s][m] # "absent"
           /\ Visible(s, m)' => Visible(s, m) \/ (s = d /\ page[s][m] = "shown")
<1>1. items \in [Session -> [Message -> Seq({"shown", "recalled"})]]
  BY DEF ChatTypes, ChatTypeOK
<1>2. \/ UNCHANGED items
      \/ items' = [items EXCEPT ![d] = [m \in Message |-> Loaded(d, m)]]
  BY DEF HistoryReply
<1>3. ASSUME NEW m \in Message
      PROVE  \/ items'[d][m] = items[d][m]
             \/ page[d][m] # "absent" /\ items'[d][m] = <<page[d][m]>>
             \/ items'[d][m] = <<>>
  BY <1>1, <1>2 DEF Loaded
<1>4. \A s \in Session : s # d => items'[s] = items[s]
  BY <1>1, <1>2
<1>5. ASSUME NEW m \in Message, Visible(d, m)'
      PROVE  Visible(d, m) \/ page[d][m] = "shown"
  <2>1. PICK i \in DOMAIN items'[d][m] : items'[d][m][i] = "shown"
    BY <1>5 DEF Visible
  <2>2. CASE items'[d][m] = items[d][m]
    BY <2>1, <2>2 DEF Visible
  <2>3. CASE items'[d][m] = <<page[d][m]>>
    BY <2>1, <2>3
  <2>4. CASE items'[d][m] = <<>>
    BY <2>1, <2>4
  <2>5. QED
    BY <1>3, <2>2, <2>3, <2>4
<1>6. ASSUME NEW m \in Message, items'[d][m] # <<>>
      PROVE  items[d][m] # <<>> \/ page[d][m] # "absent"
  BY <1>3, <1>6
<1>7. QED
  BY <1>4, <1>5, <1>6 DEF Visible

LEMMA EverMemberStep ==
  ASSUME ChatTypes, WarnInv, EverMember, [ChatNext]_chatVars PROVE EverMember'
<1> USE ChatAssumption
    DEF EverMember, Once, Sending, Step, Ask, Thread, directory, tables,
        threads, clients, history
<1> DEFINE Typed ==
      /\ pc \in [Thread -> ReaderPC \union ReviewPC]
      /\ todo \in [Thread -> SUBSET User]
      /\ target \in [Thread -> Session \union {NoSession}]
      /\ username \in [Session -> User \union {NoUser}]
      /\ author \in [Message -> User \union {NoUser}]
      /\ members \subseteq User /\ left \subseteq User
      /\ \A u \in User : holder[u] \in Session \union {NoSession}
      /\ \A u \in User : holder[u] # NoSession => username[holder[u]] = u
<1>t. Typed
  BY DEF ChatTypes, ChatTypeOK, WarnInv, OneLogin
<1>1. ASSUME NEW s \in Session, NEW u \in User, Login(s, u) PROVE EverMember'
  <2>1. /\ username' = [username EXCEPT ![s] = u]
        /\ username[s] = NoUser /\ pc[s] = "idle"
        /\ UNCHANGED <<members, left, author, pc, todo, target, items>>
    BY <1>1 DEF Login
  <2>2. username[s] \notin Once
    BY <1>t, <2>1
  <2>3. QED
    BY <1>t, <2>1, <2>2
<1>2. CASE Departure
  BY <1>2 DEF Departure
<1>3. ASSUME NEW s \in Session, NEW m \in Message, SendCheck(s, m) PROVE EverMember'
  <2>1. /\ username[s] \in members
        /\ todo' = [todo EXCEPT ![s] = IF private THEN members \ {username[s]}
                                                  ELSE members]
        /\ pc' = [pc EXCEPT ![s] = "save"]
        /\ UNCHANGED <<username, members, left, author, target, items>>
    BY <1>3 DEF SendCheck
  <2>2. QED
    BY <1>t, <2>1
<1>4. ASSUME NEW s \in Session, NEW m \in Message, RecallCheck(s, m) PROVE EverMember'
  BY <1>t, <1>4 DEF RecallCheck
<1>5. ASSUME NEW s \in Session, HistoryCheck(s) PROVE EverMember'
  BY <1>t, <1>5 DEF HistoryCheck
<1>6. ASSUME NEW s \in Session, Move(s) PROVE EverMember'
  <2>1. Once \subseteq Once' /\ UNCHANGED <<username, author, pc, todo, target, items>>
    BY <1>6 DEF Move
  <2>2. QED
    BY <2>1
<1>7. ASSUME NEW s \in Session, SaveMessage(s) PROVE EverMember'
  <2>1. /\ pc[s] = "save" /\ pc' = [pc EXCEPT ![s] = "forward"]
        /\ author' = [author EXCEPT ![job[s]] = username[s]]
        /\ UNCHANGED <<username, members, left, todo, target, items>>
    BY <1>7 DEF SaveMessage
  <2>2. username[s] \in Once
    BY <2>1
  <2>3. QED
    BY <1>t, <2>1, <2>2
<1>8. ASSUME NEW t \in Thread, NEW u \in User, Lookup(t, u) PROVE EverMember'
  <2>1. /\ u \in todo[t]
        /\ todo' = [todo EXCEPT ![t] = @ \ {u}]
        /\ target' = [target EXCEPT ![t] = holder[u]]
        /\ UNCHANGED <<username, members, left, author, pc, items>>
    BY <1>8 DEF Lookup
  <2>2. u \in Once
    BY <2>1
  <2>3. holder[u] # NoSession => username[holder[u]] \in Once
    BY <1>t, <2>2
  <2>4. QED
    BY <1>t, <2>1, <2>3
<1>9. ASSUME NEW s \in Session, Forward(s) PROVE EverMember'
  <2>1. /\ target[s] \in Session /\ job[s] \in Message
        /\ Show(target[s], job[s])
        /\ target' = [target EXCEPT ![s] = NoSession]
        /\ UNCHANGED <<username, members, left, author, pc, todo>>
    BY <1>t, <1>9 DEF Forward, ChatTypes, WorkTypes, Working
  <2>2. username[target[s]] \in Once
    BY <2>1
  <2>3. \A d \in Session, m \in Message : items'[d][m] # <<>> => username[d] \in Once
    BY <2>1, <2>2, ShowAdds
  <2>4. QED
    BY <1>t, <2>1, <2>3
<1>10. ASSUME NEW s \in Session, ForwardEnds(s) PROVE EverMember'
  <2>1. /\ pc[s] = "forward" /\ pc' = [pc EXCEPT ![s] = "submit"]
        /\ job[s] \in Message
        /\ Show(s, job[s]) \/ UNCHANGED items
        /\ UNCHANGED <<username, members, left, author, todo, target>>
    BY <1>10 DEF ForwardEnds, ChatTypes, WorkTypes, Working
  <2>2. username[s] \in Once
    BY <2>1
  <2>3. \A d \in Session, m \in Message : items'[d][m] # <<>> => username[d] \in Once
    BY <2>1, <2>2, ShowAdds
  <2>4. QED
    BY <1>t, <2>1, <2>2, <2>3
<1>11. ASSUME NEW s \in Session, Submit(s) PROVE EverMember'
  <2>1. /\ pc' = [pc EXCEPT ![s] = "idle", ![job[s]] = "queued"]
        /\ UNCHANGED <<username, members, left, author, todo, target, items>>
    BY <1>11 DEF Submit
  <2>2. \A d \in Session : pc'[d] \in {pc[d], "idle", "queued"}
    BY <1>t, <2>1
  <2>3. QED
    BY <2>1, <2>2
<1>12. ASSUME NEW s \in Session, RecallMessage(s) PROVE EverMember'
  BY <1>t, <1>12 DEF RecallMessage
<1>13. ASSUME NEW s \in Session, HistoryRead(s) PROVE EverMember'
  BY <1>t, <1>13 DEF HistoryRead
<1>14. ASSUME NEW s \in Session, HistoryReply(s) PROVE EverMember'
  <2>1. /\ pc[s] = "reply" /\ pc' = [pc EXCEPT ![s] = "idle"]
        /\ UNCHANGED <<username, members, left, author, todo, target>>
    BY <1>14 DEF HistoryReply
  <2>2. username[s] \in Once
    BY <2>1
  <2>3. \A d \in Session, m \in Message : items'[d][m] # <<>> => username[d] \in Once
    BY <1>14, <2>2, PageShows
  <2>4. QED
    BY <1>t, <2>1, <2>3
<1>15. ASSUME NEW t \in Thread, Audience(t) PROVE EverMember'
  BY <1>t, <1>15 DEF Audience
<1>16. ASSUME NEW t \in Thread, Notify(t) PROVE EverMember'
  <2>1. /\ target' = [target EXCEPT ![t] = NoSession]
        /\ UNCHANGED <<username, members, left, author, pc, todo>>
    BY <1>16 DEF Notify
  <2>2. \A d \in Session, m \in Message : items'[d][m] # <<>> => items[d][m] # <<>>
    BY <1>16, NotifyShows
  <2>3. QED
    BY <1>t, <2>1, <2>2
<1>17. ASSUME NEW t \in Thread, NotifyEnds(t) PROVE EverMember'
  BY <1>t, <1>17 DEF NotifyEnds
<1>18. ASSUME NEW m \in Message,
              \/ ReviewStarts(m) \/ ReviewAllows(m) \/ ReviewRejects(m)
              \/ Warn(m) \/ WarnRaises(m) \/ Strike(m)
       PROVE  EverMember'
  <2>1. /\ \A s \in Session : pc'[s] = pc[s]
        /\ target' \in {target, [target EXCEPT ![m] = NoSession],
                        [target EXCEPT ![m] = holder[author[m]]]}
        /\ pc[m] # "unsent"
        /\ UNCHANGED <<username, members, left, author, todo, items>>
    BY <1>t, <1>18
       DEF ReviewStarts, ReviewAllows, ReviewRejects, Warn, WarnRaises, Strike
  <2>2. author[m] \in Once \intersect User
    BY <1>t, <2>1 DEF ChatTypes, WorkTypes
  <2>3. holder[author[m]] # NoSession => username[holder[author[m]]] \in Once
    BY <1>t, <2>2
  <2>4. QED
    BY <1>t, <2>1, <2>3
<1>19. ASSUME NEW s \in Session, ForwardRaises(s) \/ HistoryRaises(s)
       PROVE  EverMember'
  <2>1. /\ pc' = [pc EXCEPT ![s] = "idle"]
        /\ todo' \in {todo, [todo EXCEPT ![s] = {}]}
        /\ target' \in {target, [target EXCEPT ![s] = NoSession]}
        /\ UNCHANGED <<username, members, left, author, items>>
    BY <1>19 DEF ForwardRaises, HistoryRaises
  <2>2. QED
    BY <1>t, <2>1
<1>20. ASSUME NEW t \in Thread, NotifyRaises(t) PROVE EverMember'
  <2>1. /\ pc' = [pc EXCEPT ![t] = IF t \in Message THEN "done" ELSE "idle"]
        /\ todo' = [todo EXCEPT ![t] = {}]
        /\ target' = [target EXCEPT ![t] = NoSession]
        /\ UNCHANGED <<username, members, left, author, items>>
    BY <1>20 DEF NotifyRaises
  <2>2. QED
    BY <1>t, <2>1
<1>21. CASE UNCHANGED chatVars
  BY <1>21 DEF chatVars
<1>22. QED
  BY <1>1, <1>2, <1>3, <1>4, <1>5, <1>6, <1>7, <1>8, <1>9, <1>10, <1>11, <1>12,
     <1>13, <1>14, <1>15, <1>16, <1>17, <1>18, <1>19, <1>20, <1>21
     DEF ChatNext, Requests, Handler, Review, Loops

\* Steps that change neither rows nor lists, nor bring a reader to work on a
\* message.
SentKept ==
  /\ UNCHANGED <<username, author, recalled>>
  /\ \A m \in Message : author[m] = NoUser =>
       \A s \in Session : items'[s][m] = <<>> /\ page'[s][m] = "absent"
  /\ \A s \in Session :
       /\ pc'[s] \in Sending => pc[s] \in Sending /\ job'[s] = job[s]
                                /\ (pc'[s] = "save" <=> pc[s] = "save")
       /\ pc'[s] \in {"recall", "audience", "notify"} =>
            pc[s] \in {"recall", "audience", "notify"} /\ job'[s] = job[s]

LEMMA SentKeptStep ==
  ASSUME SentFirst, SentKept PROVE SentFirst'
  BY DEF SentFirst, SentKept

LEMMA SentReaderStep ==
  ASSUME ChatTypes, WarnInv, SentFirst, NEW s \in Session,
         Requests(s) \/ Handler(s)
  PROVE  SentFirst'
<1> USE ChatAssumption
    DEF Sending, Step, Ask, Thread, directory, tables, threads, clients, history
<1>t. /\ pc \in [Thread -> ReaderPC \union ReviewPC]
      /\ job \in [Session -> Message \union {NoMessage}]
      /\ username \in [Session -> User \union {NoUser}]
      /\ author \in [Message -> User \union {NoUser}]
      /\ recalled \in [Message -> {"nobody", "sender", "server"}]
      /\ page \in [Session -> [Message -> {"absent", "shown", "recalled"}]]
      /\ \A d \in Session : pc[d] \in Working => job[d] \in Message
      /\ \A d \in Session : pc[d] \in Sending => username[d] \in User
  BY DEF ChatTypes, ChatTypeOK, WorkTypes
<1>1. ASSUME NEW u \in User, Login(s, u) PROVE SentFirst'
  <2>1. /\ username' = [username EXCEPT ![s] = u]
        /\ pc[s] = "idle"
        /\ UNCHANGED <<author, recalled, pc, job, items, page>>
    BY <1>1 DEF Login
  <2>2. QED
    BY <1>t, <2>1 DEF SentFirst
<1>2. ASSUME NEW m \in Message, SendCheck(s, m) PROVE SentFirst'
  <2>1. /\ pc' = [pc EXCEPT ![s] = "save"] /\ pc[s] = "idle"
        /\ job' = [job EXCEPT ![s] = m]
        /\ author[m] = NoUser
        /\ \A d \in Session : job[d] # m
        /\ UNCHANGED <<username, author, recalled, items, page>>
    BY <1>2 DEF SendCheck
  <2>2. /\ \A d \in Session : d # s => pc'[d] = pc[d] /\ job'[d] = job[d]
        /\ pc'[s] = "save" /\ job'[s] = m
    BY <1>t, <2>1
  <2>3. recalled[m] = "nobody"
    BY <2>1 DEF SentFirst
  <2>4. ASSUME NEW d \in Session, pc'[d] \in Sending
        PROVE  /\ recalled[job'[d]] = "nobody"
               /\ pc'[d] = "save" => author[job'[d]] = NoUser
               /\ pc'[d] # "save" => author[job'[d]] = username[d]
               /\ \A e \in Session :
                    pc'[e] \in {"recall", "audience", "notify"} => job'[e] # job'[d]
    <3>1. CASE d = s
      BY <2>1, <2>2, <2>3, <3>1
    <3>2. CASE d # s
      BY <2>2, <2>4, <3>2 DEF SentFirst
    <3>3. QED
      BY <3>1, <3>2
  <2>5. QED
    BY <2>1, <2>4 DEF SentFirst
<1>3. ASSUME NEW m \in Message, RecallCheck(s, m) PROVE SentFirst'
  <2>1. /\ pc' = [pc EXCEPT ![s] = "recall"] /\ pc[s] = "idle"
        /\ job' = [job EXCEPT ![s] = m]
        /\ items[s][m] # <<>>
        /\ author[m] = username[s]
        /\ UNCHANGED <<username, author, recalled, items, page>>
    BY <1>3 DEF RecallCheck
  <2>2. /\ \A d \in Session : d # s => pc'[d] = pc[d] /\ job'[d] = job[d]
        /\ pc'[s] = "recall" /\ job'[s] = m
    BY <1>t, <2>1
  <2>3. author[m] # NoUser
    BY <2>1 DEF SentFirst
  \* Nobody but the author's one connection sends m, and it has sent it.
  <2>4. ASSUME NEW d \in Session, pc[d] \in Sending PROVE job[d] # m
    <3> SUFFICES ASSUME job[d] = m PROVE FALSE
      OBVIOUS
    <3>1. username[d] = username[s]
      BY <2>1, <2>3, <2>4 DEF SentFirst
    <3>2. d = s
      BY <2>1, <2>3, <3>1 DEF WarnInv, OneLogin
    <3>3. QED
      BY <2>1, <2>4, <3>2
  <2>5. ASSUME NEW d \in Session, pc'[d] \in Sending
        PROVE  /\ recalled[job'[d]] = "nobody"
               /\ pc'[d] = "save" => author[job'[d]] = NoUser
               /\ pc'[d] # "save" => author[job'[d]] = username[d]
               /\ \A e \in Session :
                    pc'[e] \in {"recall", "audience", "notify"} => job'[e] # job'[d]
    <3>1. d # s
      BY <2>2, <2>5
    <3>2. QED
      BY <2>2, <2>4, <2>5, <3>1 DEF SentFirst
  <2>6. \A e \in Session : pc'[e] \in {"recall", "audience", "notify"} =>
          author[job'[e]] # NoUser
    BY <2>2, <2>3 DEF SentFirst
  <2>7. QED
    BY <2>1, <2>5, <2>6 DEF SentFirst
<1>4. CASE SaveMessage(s)
  <2> DEFINE m == job[s]
  <2>1. /\ pc' = [pc EXCEPT ![s] = "forward"] /\ pc[s] = "save"
        /\ author' = [author EXCEPT ![m] = username[s]]
        /\ UNCHANGED <<username, recalled, job, items, page>>
    BY <1>4 DEF SaveMessage
  <2>2. m \in Message /\ username[s] \in User
    BY <1>t, <2>1 DEF Working
  <2>3. \A d \in Session : pc[d] \in Sending /\ job[d] = m => d = s
    BY <2>1 DEF WarnInv, OneSender
  <2> HIDE DEF m
  <2>4. /\ \A d \in Session : d # s => pc'[d] = pc[d]
        /\ pc'[s] = "forward"
        /\ author'[m] = username[s]
        /\ \A n \in Message : n # m => author'[n] = author[n]
    BY <1>t, <2>1, <2>2
  <2>5. ASSUME NEW d \in Session, pc'[d] \in Sending
        PROVE  /\ recalled[job[d]] = "nobody"
               /\ pc'[d] = "save" => author'[job[d]] = NoUser
               /\ pc'[d] # "save" => author'[job[d]] = username[d]
               /\ \A e \in Session :
                    pc'[e] \in {"recall", "audience", "notify"} => job[e] # job[d]
    <3>1. pc[d] \in Sending /\ job[d] \in Message
      BY <1>t, <2>1, <2>4, <2>5 DEF Working
    <3>2. /\ recalled[job[d]] = "nobody"
          /\ \A e \in Session :
               pc'[e] \in {"recall", "audience", "notify"} => job[e] # job[d]
      BY <2>4, <3>1 DEF SentFirst
    <3>3. CASE d = s
      BY <2>4, <3>2, <3>3 DEF m
    <3>4. CASE d # s
      <4>1. author'[job[d]] = author[job[d]] /\ pc'[d] = pc[d]
        BY <2>3, <2>4, <3>1, <3>4
      <4>2. QED
        BY <3>1, <3>2, <4>1 DEF SentFirst
    <3>5. QED
      BY <3>3, <3>4
  <2>6. \A n \in Message : author'[n] = NoUser =>
          /\ recalled[n] = "nobody"
          /\ \A d \in Session : items[d][n] = <<>> /\ page[d][n] = "absent"
    BY <2>2, <2>4 DEF SentFirst
  <2>7. \A e \in Session : pc'[e] \in {"recall", "audience", "notify"} =>
          author'[job[e]] # NoUser
    <3> SUFFICES ASSUME NEW e \in Session, pc'[e] \in {"recall", "audience", "notify"}
                 PROVE  author'[job[e]] # NoUser
      OBVIOUS
    <3>1. pc[e] \in {"recall", "audience", "notify"} /\ job[e] \in Message
      BY <1>t, <2>4 DEF Working
    <3>2. author[job[e]] # NoUser
      BY <3>1 DEF SentFirst
    <3>3. QED
      BY <2>2, <2>4, <3>1, <3>2
  <2>8. QED
    BY <2>1, <2>5, <2>6, <2>7 DEF SentFirst
<1>5. CASE Forward(s) \/ ForwardEnds(s)
  <2> DEFINE m == job[s]
  <2>1. /\ pc[s] = "forward" /\ m \in Message
        /\ pc' \in {pc, [pc EXCEPT ![s] = "submit"]}
        /\ \/ UNCHANGED items
           \/ \E d \in Session : Show(d, m)
        /\ UNCHANGED <<username, author, recalled, job, page>>
    BY <1>5, <1>t DEF Forward, ForwardEnds, ChatTypes, ChatTypeOK, Working
  <2>2. author[m] # NoUser
    BY <1>t, <2>1 DEF SentFirst
  <2> HIDE DEF m
  <2>3. \A n \in Message, d \in Session : author[n] = NoUser => items'[d][n] = <<>>
    BY <2>1, <2>2, ShowAdds DEF SentFirst
  <2>4. SentKept
    BY <1>t, <2>1, <2>3 DEF SentFirst, SentKept
  <2>5. QED
    BY <2>4, SentKeptStep
<1>6. CASE Submit(s)
  <2>1. /\ pc' = [pc EXCEPT ![s] = "idle", ![job[s]] = "queued"]
        /\ job' = [job EXCEPT ![s] = NoMessage]
        /\ UNCHANGED <<username, author, recalled, items, page>>
        /\ pc[s] = "submit"
    BY <1>6 DEF Submit
  <2>2. job[s] \in Message
    BY <1>t, <2>1 DEF Working
  <2>3. \A d \in Session : d # s => pc'[d] = pc[d] /\ job'[d] = job[d]
    BY <1>t, <2>1, <2>2
  <2>4. pc'[s] = "idle"
    BY <1>t, <2>1, <2>2
  <2>5. \A d \in Session : pc'[d] \in Sending \union {"recall", "audience", "notify"}
                             => pc'[d] = pc[d] /\ job'[d] = job[d]
    BY <2>3, <2>4
  <2>6. \A m \in Message : author[m] = NoUser =>
          \A d \in Session : items'[d][m] = <<>> /\ page'[d][m] = "absent"
    BY <2>1 DEF SentFirst
  <2>7. SentKept
    BY <2>1, <2>5, <2>6 DEF SentKept
  <2>8. QED
    BY <2>7, SentKeptStep
<1>7. CASE RecallMessage(s)
  <2>1. /\ pc' = [pc EXCEPT ![s] = "audience"] /\ pc[s] = "recall"
        /\ recalled' = [recalled EXCEPT ![job[s]] = "sender"]
        /\ UNCHANGED <<username, author, job, items, page>>
    BY <1>7 DEF RecallMessage
  <2>2. \A d \in Session : pc[d] \in Sending => job[d] # job[s]
    BY <2>1 DEF SentFirst
  <2>3. author[job[s]] # NoUser
    BY <2>1 DEF SentFirst
  <2>4. QED
    BY <1>t, <2>1, <2>2, <2>3 DEF SentFirst, Working
<1>8. CASE HistoryRead(s)
  <2>1. /\ pc' = [pc EXCEPT ![s] = "reply"]
        /\ \A d \in Session : d # s => page'[d] = page[d]
        /\ \A m \in Message : author[m] = NoUser => page'[s][m] = "absent"
        /\ UNCHANGED <<username, author, recalled, job, items>>
    BY <1>8, <1>t DEF HistoryRead
  <2>2. SentKept
    BY <1>t, <2>1 DEF SentFirst, SentKept
  <2>3. QED
    BY <2>2, SentKeptStep
<1>9. CASE HistoryReply(s) \/ HistoryRaises(s)
  <2>1. /\ pc' = [pc EXCEPT ![s] = "idle"]
        /\ \A d \in Session, m \in Message : page'[d][m] \in {page[d][m], "absent"}
        /\ UNCHANGED <<username, author, recalled, job>>
    BY <1>9, <1>t DEF HistoryReply, HistoryRaises, NoRows
  <2>2. \A m \in Message : author[m] = NoUser =>
          \A d \in Session : items'[d][m] = <<>> /\ page'[d][m] = "absent"
    BY <1>9, <2>1, PageShows DEF SentFirst, HistoryRaises
  <2>3. SentKept
    BY <1>t, <2>1, <2>2 DEF SentKept
  <2>4. QED
    BY <2>3, SentKeptStep
<1>10. CASE Notify(s)
  <2>1. \A d \in Session, m \in Message : items'[d][m] = <<>> <=> items[d][m] = <<>>
    BY <1>10, NotifyShows
  <2>2. UNCHANGED <<username, author, recalled, pc, job, page>>
    BY <1>10 DEF Notify
  <2>3. QED
    BY <2>1, <2>2, SentKeptStep DEF SentFirst, SentKept
<1>11. CASE \/ HistoryCheck(s) \/ Move(s) \/ NotifyEnds(s) \/ Audience(s)
            \/ ForwardRaises(s) \/ NotifyRaises(s)
            \/ \E u \in User : Lookup(s, u)
  <2>1. /\ UNCHANGED <<username, author, recalled, items, page>>
        /\ \A d \in Session : d # s => pc'[d] = pc[d] /\ job'[d] = job[d]
        /\ \/ pc'[s] \in {"idle", "history"}
           \/ pc'[s] = "notify" /\ pc[s] = "audience" /\ job'[s] = job[s]
           \/ pc'[s] = pc[s] /\ job'[s] = job[s]
    BY <1>t, <1>11
       DEF HistoryCheck, Move, NotifyEnds, Audience, ForwardRaises, NotifyRaises,
           Lookup
  <2>2. SentKept
    BY <2>1 DEF SentFirst, SentKept
  <2>3. QED
    BY <2>2, SentKeptStep
<1>12. QED
  BY <1>1, <1>2, <1>3, <1>4, <1>5, <1>6, <1>7, <1>8, <1>9, <1>10, <1>11
     DEF Requests, Handler, Loops

LEMMA SentFirstStep ==
  ASSUME ChatTypes, WarnInv, SentFirst, [ChatNext]_chatVars PROVE SentFirst'
<1> USE ChatAssumption
    DEF Sending, Step, Thread, directory, tables, threads, clients, history
<1>1. CASE Departure
  BY <1>1, SentKeptStep DEF Departure, SentFirst, SentKept
<1>2. ASSUME NEW m \in Message, Review(m) PROVE SentFirst'
  <2>1. /\ UNCHANGED <<username, author, job, page>>
        /\ \A s \in Session : pc'[s] = pc[s]
    BY <1>2 DEF Review, Loops, ReviewStarts, ReviewAllows, ReviewRejects, Warn,
                WarnRaises, Strike, Lookup, Audience, Notify, NotifyRaises,
                NotifyEnds, ChatTypes, ChatTypeOK
  <2>2. CASE Strike(m)
    <3>1. /\ pc[m] = "strike"
          /\ recalled' = [recalled EXCEPT ![m] = "server"]
          /\ UNCHANGED items
      BY <2>2 DEF Strike
    <3>2. \A d \in Session : pc[d] \in Sending => job[d] # m
      BY <3>1 DEF WarnInv, OneSender
    <3>3. author[m] # NoUser
      BY <3>1 DEF ChatTypes, WorkTypes
    <3>4. \A n \in Message : n # m => recalled'[n] = recalled[n]
      BY <3>1 DEF ChatTypes, ChatTypeOK
    <3>5. \A d \in Session : pc[d] \in Sending => job[d] \in Message
      BY DEF ChatTypes, WorkTypes, Working
    <3>6. QED
      BY <2>1, <3>1, <3>2, <3>3, <3>4, <3>5 DEF SentFirst
  <2>3. CASE ~Strike(m)
    <3>1. UNCHANGED recalled
      BY <1>2, <2>3 DEF Review, Loops, ReviewStarts, ReviewAllows, ReviewRejects,
                        Warn, WarnRaises, Lookup, Audience, Notify, NotifyRaises,
                        NotifyEnds
    <3>2. \A d \in Session, n \in Message : items[d][n] = <<>> => items'[d][n] = <<>>
      <4>1. CASE Notify(m)
        BY <4>1, NotifyShows
      <4>2. CASE ~Notify(m)
        BY <1>2, <4>2 DEF Review, Loops, ReviewStarts, ReviewAllows, ReviewRejects,
                          Warn, WarnRaises, Strike, Lookup, Audience, NotifyRaises,
                          NotifyEnds
      <4>3. QED
        BY <4>1, <4>2
    <3>3. SentKept
      BY <2>1, <3>1, <3>2 DEF SentFirst, SentKept
    <3>4. QED
      BY <3>3, SentKeptStep
  <2>4. QED
    BY <2>2, <2>3
<1>3. CASE UNCHANGED chatVars
  BY <1>3, SentKeptStep DEF chatVars, SentFirst, SentKept
<1>4. QED
  BY <1>1, <1>2, <1>3, SentReaderStep DEF ChatNext

\* What a step must keep: no new content reaches a listener of a recalled
\* message unless a broadcast is on its way, and every broadcast arrives.
HeldBefore ==
  \A s \in Session, m \in Message :
    Hears(s)' /\ Holds(s, m)' /\ recalled'[m] # "nobody"
      => \/ Hears(s) /\ Holds(s, m) /\ recalled[m] # "nobody"
         \/ \E t \in Thread : Coming(t, s, m)'

Arrives ==
  \A t \in Thread, s \in Session, m \in Message :
    Hears(s) /\ Coming(t, s, m) => Coming(t, s, m)' \/ Notified(s, m)' \/ Broken(m)'

LEMMA NoticesKept ==
  ASSUME Notices, HeldBefore, Arrives, cut \subseteq cut',
         \A s \in Session : noticed[s] \subseteq noticed'[s]
  PROVE  Notices'
<1> SUFFICES ASSUME NEW s \in Session, NEW m \in Message,
                    Hears(s)', Holds(s, m)', recalled'[m] # "nobody",
                    ~Broken(m)', ~ \E t \in Thread : Coming(t, s, m)'
             PROVE  Notified(s, m)'
  BY DEF Notices
<1>1. Hears(s) /\ Holds(s, m) /\ recalled[m] # "nobody"
  BY DEF HeldBefore
<1>2. CASE Notified(s, m)
  BY <1>2 DEF Notified
<1>3. CASE \E t \in Thread : Coming(t, s, m)
  BY <1>1, <1>3 DEF Arrives
<1>4. ~Broken(m)
  BY DEF Broken
<1>5. QED
  BY <1>1, <1>2, <1>3, <1>4 DEF Notices

\* Steps of threads that broadcast nothing.
Undisturbed ==
  /\ UNCHANGED noticed
  /\ cut \subseteq cut'
  /\ \A s \in Session : Hears(s) => username'[s] = username[s]
  /\ \A t \in Thread : pc[t] \in {"audience", "notify"} =>
       /\ pc'[t] = pc[t]
       /\ todo'[t] = todo[t]
       /\ target'[t] = target[t]
       /\ t \in Session => job'[t] = job[t]

LEMMA QuietNotices ==
  ASSUME Notices, HeldBefore, Undisturbed PROVE Notices'
<1>1. Arrives
  <2> SUFFICES ASSUME NEW t \in Thread, NEW s \in Session, NEW m \in Message,
                      Hears(s), Coming(t, s, m)
               PROVE  Coming(t, s, m)'
    BY DEF Arrives
  <2>1. pc[t] \in {"audience", "notify"}
    BY DEF Coming
  <2>2. About(t)' = About(t)
    BY <2>1 DEF Undisturbed, About, Thread
  <2>3. QED
    BY <2>1, <2>2 DEF Coming, Undisturbed
<1>2. QED
  BY <1>1, NoticesKept DEF Undisturbed

LEMMA NoticesDirectoryStep ==
  ASSUME ChatTypes, WarnInv, EverMember, Notices,
         \/ Departure
         \/ \E s \in Session : Move(s) \/ \E u \in User : Login(s, u)
  PROVE  Notices'
<1> USE ChatAssumption DEF Thread, directory, tables, threads, clients, history
<1>t. /\ \A u \in User : holder[u] \in Session \union {NoSession}
      /\ username \in [Session -> User \union {NoUser}]
      /\ members \subseteq User /\ left \subseteq User
      /\ \A s \in Session, m \in Message : Holds(s, m) => username[s] \in Once
  <2>1. \A s \in Session, m \in Message : Visible(s, m) => items[s][m] # <<>>
    BY DEF Visible
  <2>2. QED
    BY <2>1 DEF ChatTypes, ChatTypeOK, Holds, EverMember
<1>1. CASE Departure
  <2>1. /\ UNCHANGED <<username, members, left, recalled, pc, todo, target, job,
                       page, items, noticed, cut>>
        /\ open' \subseteq open
        /\ \A u \in User : holder'[u] \in {holder[u], NoSession}
    BY <1>1 DEF Departure, Detach, Close, ChatTypes, ChatTypeOK
  <2>2. \A s \in Session : Hears(s)' => Hears(s)
    BY <1>t, <2>1 DEF Hears
  <2>3. HeldBefore /\ Undisturbed
    BY <2>1, <2>2 DEF HeldBefore, Undisturbed, Holds, Visible
  <2>4. QED
    BY <2>3, QuietNotices
<1>2. ASSUME NEW d \in Session, Move(d) PROVE Notices'
  <2>1. /\ UNCHANGED <<username, holder, open, recalled, pc, todo, target, job,
                       page, items, noticed, cut>>
        /\ \/ members' \subseteq members
           \/ members' = members \union {username[d]} /\ username[d] \notin members
        /\ left' = left \union (members \ members')
    BY <1>2 DEF Move
  <2>2. ASSUME NEW s \in Session, NEW m \in Message, Hears(s)', Holds(s, m)'
        PROVE  Hears(s) /\ Holds(s, m)
    <3>1. Holds(s, m)
      BY <2>1, <2>2 DEF Holds, Visible
    <3>2. username[s] \in members
      BY <1>t, <2>1, <2>2, <3>1 DEF Hears, Once
    <3>3. QED
      BY <2>1, <2>2, <3>1, <3>2 DEF Hears
  <2>3. HeldBefore /\ Undisturbed
    BY <2>1, <2>2 DEF HeldBefore, Undisturbed
  <2>4. QED
    BY <2>3, QuietNotices
<1>3. ASSUME NEW d \in Session, NEW u \in User, Login(d, u) PROVE Notices'
  <2>1. /\ username[d] = NoUser
        /\ username' = [username EXCEPT ![d] = u]
        /\ holder' = [holder EXCEPT ![u] = d]
        /\ UNCHANGED <<open, members, left, recalled, pc, todo, target, job,
                       page, items, noticed, cut>>
    BY <1>3 DEF Login, Attach
  <2>2. \A m \in Message : ~Holds(d, m)
    BY <1>t, <2>1 DEF Once
  <2>3. ~Hears(d) /\ \A s \in Session : s # d => username'[s] = username[s]
    BY <1>t, <2>1 DEF Hears
  <2>4. \A s \in Session, m \in Message : Holds(s, m)' = Holds(s, m)
    BY <2>1 DEF Holds, Visible
  <2>5. ASSUME NEW s \in Session, Hears(s)', s # d PROVE Hears(s)
    <3>1. username[s] \in User /\ holder'[username[s]] = s
      BY <1>t, <2>1, <2>3, <2>5 DEF Hears
    <3>2. username[s] # u
      BY <2>1, <2>5, <3>1 DEF ChatTypes, ChatTypeOK
    <3>3. holder[username[s]] = s
      BY <2>1, <3>1, <3>2 DEF ChatTypes, ChatTypeOK
    <3>4. QED
      BY <2>1, <2>3, <2>5, <3>3 DEF Hears
  <2>6. HeldBefore /\ Undisturbed
    BY <2>1, <2>2, <2>3, <2>4, <2>5 DEF HeldBefore, Undisturbed
  <2>7. QED
    BY <2>6, QuietNotices
<1>4. QED
  BY <1>1, <1>2, <1>3

\* Handlers up to the point where a recall is saved, and after.
LEMMA NoticesReaderStep ==
  ASSUME ChatTypes, WarnInv, SentFirst, Notices, NEW s \in Session,
         \/ \E m \in Message : SendCheck(s, m) \/ RecallCheck(s, m)
         \/ HistoryCheck(s) \/ SaveMessage(s) \/ Forward(s) \/ ForwardEnds(s)
         \/ Submit(s) \/ RecallMessage(s) \/ HistoryRead(s) \/ HistoryReply(s)
         \/ ForwardRaises(s) \/ HistoryRaises(s)
  PROVE  Notices'
<1> USE ChatAssumption
    DEF Thread, Step, Ask, directory, tables, threads, clients, history
<1>t. /\ pc \in [Thread -> ReaderPC \union ReviewPC]
      /\ job \in [Session -> Message \union {NoMessage}]
      /\ target \in [Thread -> Session \union {NoSession}]
      /\ todo \in [Thread -> SUBSET User]
      /\ recalled \in [Message -> {"nobody", "sender", "server"}]
      /\ page \in [Session -> [Message -> {"absent", "shown", "recalled"}]]
      /\ pc[s] \in Working => job[s] \in Message
  BY DEF ChatTypes, ChatTypeOK, WorkTypes
<1> DEFINE Same == /\ UNCHANGED <<username, holder, open, members, left, noticed>>
                   /\ cut \subseteq cut'
<1>1. CASE \/ \E m \in Message : SendCheck(s, m) \/ RecallCheck(s, m)
           \/ HistoryCheck(s) \/ SaveMessage(s)
  <2>1. /\ Same /\ UNCHANGED <<items, page, recalled, target>>
        /\ pc[s] \in {"idle", "save"} /\ pc'[s] # "reply"
        /\ \A t \in Thread : t # s => pc'[t] = pc[t] /\ todo'[t] = todo[t]
        /\ \A d \in Session : d # s => job'[d] = job[d]
    BY <1>1, <1>t DEF SendCheck, RecallCheck, HistoryCheck, SaveMessage
  <2>2. \A d \in Session, m \in Message :
          (Hears(d)' => Hears(d)) /\ (Holds(d, m)' => Holds(d, m))
    BY <2>1 DEF Hears, Holds, Visible
  <2>3. HeldBefore /\ Undisturbed
    BY <2>1, <2>2 DEF HeldBefore, Undisturbed
  <2>4. QED
    BY <2>3, QuietNotices
<1>2. CASE Forward(s) \/ ForwardEnds(s)
  <2>1. /\ Same /\ UNCHANGED <<page, recalled, job>>
        /\ pc[s] = "forward" /\ pc'[s] # "reply"
        /\ \A t \in Thread : t # s =>
             pc'[t] = pc[t] /\ todo'[t] = todo[t] /\ target'[t] = target[t]
        /\ UNCHANGED items \/ \E d \in Session : Show(d, job[s])
    BY <1>2, <1>t DEF Forward, ForwardEnds
  <2>2. job[s] \in Message /\ recalled[job[s]] = "nobody"
    BY <1>t, <2>1 DEF SentFirst, Working, Sending
  <2>3. \A d \in Session, m \in Message :
          recalled[m] # "nobody" => items'[d][m] = items[d][m]
    BY <2>1, <2>2, ShowAdds
  <2>4. \A d \in Session, m \in Message :
          recalled[m] # "nobody" /\ Holds(d, m)' => Holds(d, m)
    BY <2>1, <2>3 DEF Holds, Visible
  <2>5. HeldBefore /\ Undisturbed
    BY <2>1, <2>4 DEF HeldBefore, Undisturbed, Hears
  <2>6. QED
    BY <2>5, QuietNotices
<1>3. CASE Submit(s)
  <2>1. /\ Same /\ UNCHANGED <<items, page, recalled, todo, target>>
        /\ pc[s] = "submit" /\ job[s] \in Message
        /\ pc' = [pc EXCEPT ![s] = "idle", ![job[s]] = "queued"]
        /\ job' = [job EXCEPT ![s] = NoMessage]
    BY <1>3, <1>t DEF Submit, Working, Sending
  <2>2. /\ pc[job[s]] = "unsent"
        /\ \A t \in Thread : t # s /\ t # job[s] => pc'[t] = pc[t]
        /\ \A d \in Session : pc'[d] = "reply" => pc[d] = "reply"
        /\ \A d \in Session : d # s => job'[d] = job[d]
    BY <1>t, <2>1 DEF WarnInv, OneSender, Sending
  <2>3. \A d \in Session, m \in Message :
          (Hears(d)' => Hears(d)) /\ (Holds(d, m)' => Holds(d, m))
    BY <2>1, <2>2 DEF Hears, Holds, Visible
  <2>4. HeldBefore
    BY <2>1, <2>3 DEF HeldBefore
  <2>5. Undisturbed
    BY <2>1, <2>2 DEF Undisturbed
  <2>6. QED
    BY <2>4, <2>5, QuietNotices
<1>4. CASE RecallMessage(s)
  <2>1. /\ Same /\ UNCHANGED <<items, page, todo, target, job>>
        /\ pc[s] = "recall" /\ pc' = [pc EXCEPT ![s] = "audience"]
        /\ recalled' = [recalled EXCEPT ![job[s]] = "sender"]
    BY <1>4 DEF RecallMessage
  <2>2. \A d \in Session, m \in Message : m = job[s] => Coming(s, d, m)'
    BY <1>t, <2>1 DEF Coming, About
  <2>3. \A m \in Message : m # job[s] => recalled'[m] = recalled[m]
    BY <1>t, <2>1
  <2>4. \A d \in Session, m \in Message :
          (Hears(d)' => Hears(d)) /\ (Holds(d, m)' => Holds(d, m))
    BY <1>t, <2>1 DEF Hears, Holds, Visible
  <2>5. HeldBefore
    BY <2>2, <2>3, <2>4 DEF HeldBefore
  <2>6. Undisturbed
    BY <1>t, <2>1 DEF Undisturbed
  <2>7. QED
    BY <2>5, <2>6, QuietNotices
<1>5. CASE HistoryRead(s)
  <2>1. /\ Same /\ UNCHANGED <<items, recalled, todo, target, job>>
        /\ pc[s] = "history" /\ pc' = [pc EXCEPT ![s] = "reply"]
        /\ \A d \in Session : d # s => page'[d] = page[d]
        /\ \A m \in Message : page'[s][m] = "shown" => recalled[m] = "nobody"
    BY <1>5, <1>t DEF HistoryRead
  <2>2. \A d \in Session, m \in Message :
          recalled[m] # "nobody" /\ Holds(d, m)' => Holds(d, m)
    BY <1>t, <2>1 DEF Holds, Visible
  <2>3. HeldBefore
    BY <2>1, <2>2 DEF HeldBefore, Hears
  <2>4. Undisturbed
    BY <1>t, <2>1 DEF Undisturbed
  <2>5. QED
    BY <2>3, <2>4, QuietNotices
<1>6. CASE HistoryReply(s)
  <2>1. /\ Same /\ UNCHANGED <<recalled, todo, target, job>>
        /\ pc[s] = "reply" /\ pc' = [pc EXCEPT ![s] = "idle"]
        /\ page' = [page EXCEPT ![s] = NoRows]
    BY <1>6 DEF HistoryReply
  <2>2. \A d \in Session, m \in Message : Holds(d, m)' => Holds(d, m)
    <3>1. \A d \in Session, m \in Message :
            Visible(d, m)' => Visible(d, m) \/ (d = s /\ page[d][m] = "shown")
      BY <1>6, PageShows
    <3>2. \A d \in Session : pc'[d] = "reply" => d # s /\ pc[d] = "reply"
      BY <1>t, <2>1
    <3>3. \A d \in Session : d # s => page'[d] = page[d]
      BY <1>t, <2>1
    <3>4. QED
      BY <2>1, <3>1, <3>2, <3>3 DEF Holds
  <2>3. HeldBefore
    BY <2>1, <2>2 DEF HeldBefore, Hears
  <2>4. Undisturbed
    BY <1>t, <2>1 DEF Undisturbed
  <2>5. QED
    BY <2>3, <2>4, QuietNotices
<1>7. CASE ForwardRaises(s) \/ HistoryRaises(s)
  <2>1. /\ Same /\ UNCHANGED <<items, recalled>>
        /\ pc[s] \in {"forward", "reply"} /\ pc'[s] = "idle"
        /\ \A t \in Thread : t # s =>
             pc'[t] = pc[t] /\ todo'[t] = todo[t] /\ target'[t] = target[t]
        /\ \A d \in Session : d # s => job'[d] = job[d] /\ page'[d] = page[d]
    BY <1>7, <1>t DEF ForwardRaises, HistoryRaises
  <2>2. \A d \in Session, m \in Message :
          (Hears(d)' => Hears(d)) /\ (Holds(d, m)' => Holds(d, m))
    BY <2>1 DEF Hears, Holds, Visible
  <2>3. HeldBefore /\ Undisturbed
    BY <2>1, <2>2 DEF HeldBefore, Undisturbed
  <2>4. QED
    BY <2>3, QuietNotices
<1>8. QED
  BY <1>1, <1>2, <1>3, <1>4, <1>5, <1>6, <1>7

\* A review up to the recall.
LEMMA NoticesReviewStep ==
  ASSUME ChatTypes, Notices, NEW m \in Message,
         \/ ReviewStarts(m) \/ ReviewAllows(m) \/ ReviewRejects(m)
         \/ Warn(m) \/ WarnRaises(m) \/ Strike(m)
  PROVE  Notices'
<1> USE ChatAssumption
    DEF Thread, Step, directory, tables, threads, clients, history
<1>t. /\ pc \in [Thread -> ReaderPC \union ReviewPC]
      /\ target \in [Thread -> Session \union {NoSession}]
      /\ recalled \in [Message -> {"nobody", "sender", "server"}]
  BY DEF ChatTypes, ChatTypeOK
<1>1. /\ UNCHANGED <<username, holder, open, members, left, noticed, items, page,
                     todo, job>>
      /\ cut \subseteq cut'
      /\ \A t \in Thread : t # m => pc'[t] = pc[t] /\ target'[t] = target[t]
      /\ pc[m] \notin {"audience", "notify"}
      /\ \A n \in Message : n # m => recalled'[n] = recalled[n]
  BY <1>t DEF ReviewStarts, ReviewAllows, ReviewRejects, Warn, WarnRaises, Strike
<1>2. \A s \in Session, n \in Message :
        (Hears(s)' => Hears(s)) /\ (Holds(s, n)' => Holds(s, n))
  BY <1>1 DEF Hears, Holds, Visible
<1>3. recalled'[m] = recalled[m] \/ \A s \in Session : Coming(m, s, m)'
  BY <1>t DEF ReviewStarts, ReviewAllows, ReviewRejects, Warn, WarnRaises, Strike,
              Coming, About
<1>4. HeldBefore
  BY <1>1, <1>2, <1>3 DEF HeldBefore
<1>5. Undisturbed
  BY <1>1 DEF Undisturbed
<1>6. QED
  BY <1>4, <1>5, QuietNotices

\* A broadcast passes from the members read to those still to look up, to the
\* connection found, to its notice.
LEMMA NoticesLoopStep ==
  ASSUME ChatTypes, Notices, NEW t \in Thread, Loops(t)
  PROVE  Notices'
<1> USE ChatAssumption
    DEF Thread, Step, directory, tables, threads, clients, history
<1>t. /\ pc \in [Thread -> ReaderPC \union ReviewPC]
      /\ job \in [Session -> Message \union {NoMessage}]
      /\ target \in [Thread -> Session \union {NoSession}]
      /\ todo \in [Thread -> SUBSET User]
      /\ noticed \in [Session -> SUBSET (Message \X {"sender", "server"})]
  BY DEF ChatTypes, ChatTypeOK
<1>1. /\ UNCHANGED <<username, holder, open, members, left, recalled, page>>
      /\ cut \subseteq cut'
      /\ \A d \in Thread : d # t =>
           /\ pc'[d] = pc[d] /\ todo'[d] = todo[d] /\ target'[d] = target[d]
           /\ d \in Session => job'[d] = job[d]
  BY <1>t DEF Loops, Lookup, Audience, Notify, NotifyRaises, NotifyEnds
<1>2. \A s \in Session, m \in Message : Visible(s, m)' => Visible(s, m)
  <2>1. CASE Notify(t)
    BY <2>1, NotifyShows
  <2>2. CASE ~Notify(t)
    BY <2>2 DEF Loops, Lookup, Audience, NotifyRaises, NotifyEnds, Visible
  <2>3. QED
    BY <2>1, <2>2
<1>3. \A s \in Session : pc'[s] = "reply" => pc[s] = "reply"
  BY <1>t DEF Loops, Lookup, Audience, Notify, NotifyRaises, NotifyEnds
<1>4. HeldBefore
  BY <1>1, <1>2, <1>3 DEF HeldBefore, Hears, Holds
<1>5. \A s \in Session : noticed[s] \subseteq noticed'[s]
  BY <1>t DEF Loops, Lookup, Audience, Notify, NotifyRaises, NotifyEnds
<1>6. ASSUME NEW d \in Thread, NEW s \in Session, NEW m \in Message,
             Hears(s), Coming(d, s, m)
      PROVE  Coming(d, s, m)' \/ Notified(s, m)' \/ Broken(m)'
  <2>1. /\ s \in open /\ holder[username[s]] = s /\ username[s] \in members
        /\ s # NoSession
    BY <1>6 DEF Hears
  <2>2. CASE d # t
    BY <1>1, <1>6, <2>2 DEF Coming, About
  <2>3. CASE d = t /\ Audience(t)
    <3>1. /\ pc'[t] = "notify" /\ todo'[t] = members
          /\ UNCHANGED job
      BY <1>t, <2>3 DEF Audience
    <3>2. QED
      BY <1>1, <1>6, <2>1, <2>3, <3>1 DEF Coming, About
  <2>4. CASE d = t /\ \E u \in User : Lookup(t, u)
    <3>1. PICK u \in User : Lookup(t, u)
      BY <2>4
    <3>2. /\ target[t] = NoSession
          /\ todo'[t] = todo[t] \ {u} /\ target'[t] = holder[u]
          /\ pc[t] \in {"forward", "notify"}
          /\ UNCHANGED <<pc, job>>
      BY <1>t, <3>1 DEF Lookup
    <3>3. username[s] \in todo[t] /\ pc[t] = "notify" /\ About(t) = m
      BY <1>6, <2>1, <2>4, <3>2 DEF Coming
    <3>4. CASE username[s] = u
      BY <1>1, <2>1, <2>4, <3>2, <3>3, <3>4 DEF Coming, About
    <3>5. CASE username[s] # u
      BY <1>1, <2>1, <2>4, <3>2, <3>3, <3>5 DEF Coming, About
    <3>6. QED
      BY <3>4, <3>5
  <2>5. CASE d = t /\ Notify(t)
    <3>1. /\ pc[t] = "notify" /\ UNCHANGED <<pc, todo, job>>
      BY <2>5 DEF Notify
    <3>2. CASE username[s] \in todo[t]
      BY <1>1, <1>6, <2>5, <3>1, <3>2 DEF Coming, About
    <3>3. CASE target[t] = s
      <4>1. noticed' = [noticed EXCEPT ![s] = @ \union {<<m, By(t)>>}]
        BY <1>6, <2>1, <2>5, <3>3 DEF Notify, Coming
      <4>2. <<m, By(t)>> \in noticed'[s] /\ By(t) \in {"sender", "server"}
        BY <1>t, <4>1 DEF By
      <4>3. QED
        BY <4>2 DEF Notified
    <3>4. QED
      BY <1>6, <2>5, <3>1, <3>2, <3>3 DEF Coming
  <2>6. CASE d = t /\ NotifyEnds(t)
    BY <1>6, <2>1, <2>6 DEF NotifyEnds, LoopDone, Coming
  <2>7. CASE d = t /\ NotifyRaises(t)
    <3>1. About(t) = m /\ <<About(t), "notice">> \in cut'
      BY <1>6, <2>7 DEF NotifyRaises, Coming
    <3>2. QED
      BY <3>1 DEF Broken
  <2>8. QED
    BY <2>2, <2>3, <2>4, <2>5, <2>6, <2>7 DEF Loops
<1>7. QED
  BY <1>1, <1>4, <1>5, <1>6, NoticesKept DEF Arrives

LEMMA NoticesStep ==
  ASSUME ChatTypes, WarnInv, EverMember, SentFirst, Notices, [ChatNext]_chatVars
  PROVE  Notices'
<1>1. CASE UNCHANGED chatVars
  BY <1>1, QuietNotices
     DEF chatVars, directory, tables, threads, clients, history, HeldBefore,
         Undisturbed, Hears, Holds, Visible
<1>2. QED
  BY <1>1, NoticesDirectoryStep, NoticesReaderStep, NoticesReviewStep,
     NoticesLoopStep
     DEF ChatNext, Requests, Handler, Review, Thread

NoticeInv == EverMember /\ SentFirst /\ Notices

LEMMA NoticeInit == ChatInit => NoticeInv
<1> SUFFICES ASSUME ChatInit PROVE NoticeInv
  OBVIOUS
<1>1. /\ \A s \in Session : pc[s] = "idle" /\ username[s] = NoUser
      /\ \A m \in Message : author[m] = NoUser /\ recalled[m] = "nobody"
      /\ \A t \in Thread : todo[t] = {} /\ target[t] = NoSession
      /\ \A s \in Session, m \in Message : items[s][m] = <<>> /\ page[s][m] = "absent"
  BY DEF ChatInit, Thread, NoRows
<1>2. QED
  BY <1>1 DEF NoticeInv, EverMember, SentFirst, Notices, Sending

\* Once all is at rest, a member who never left and whose connection still
\* holds the name has been sent the notice of the recall of every message it
\* shows, however sends, reviews, recalls, history requests, joins, leaves,
\* logouts and failed writes overlapped, while a user logs in on one connection
\* and no send of a notice of that recall raised.
THEOREM NoticesAlwaysFollow ==
  ASSUME ~Reconnect PROVE ChatSpec => []NoticeFollowsContent
<1>1. ChatTypes /\ WarnInv /\ NoticeInv /\ [ChatNext]_chatVars
        => ChatTypes' /\ WarnInv' /\ NoticeInv'
  BY ChatTypesStep, WarnStep, EverMemberStep, SentFirstStep, NoticesStep DEF NoticeInv
<1>2. ChatTypes /\ WarnInv /\ NoticeInv => NoticeFollowsContent
  <2> SUFFICES ASSUME ChatTypes, WarnInv, Notices, AtRest,
                      NEW s \in Session, NEW m \in Message,
                      Reachable(s), username[s] \notin left,
                      recalled[m] # "nobody", ~Broken(m), Visible(s, m)
               PROVE  Notified(s, m)
    BY DEF NoticeFollowsContent, NoticeInv, Notified, Broken
  <2>1. PICK u \in members : holder[u] = s
    BY DEF Reachable
  <2>2. username[s] = u
    BY <2>1, ChatAssumption DEF WarnInv, OneLogin, ChatTypes, ChatTypeOK
  <2>3. Hears(s) /\ Holds(s, m)
    BY <2>1, <2>2 DEF Hears, Holds, Reachable
  <2>4. \A t \in Thread : ~Coming(t, s, m)
    BY DEF Coming, AtRest, Thread
  <2>5. QED
    BY <2>3, <2>4 DEF Notices
<1>3. QED
  BY <1>1, <1>2, ChatTypesInit, WarnInit, NoticeInit, PTL DEF ChatSpec

-----------------------------------------------------------------------------
(* The command-line client keeps one entry of a message, whatever is written *)
(* to it, and never turns a struck one back.                                 *)

ListedOnce == \A s \in Session \ WebSession, m \in Message : Len(items[s][m]) <= 1

\* What any step makes of an entry of the command-line client.
LEMMA ListedStep ==
  ASSUME ChatTypes, [ChatNext]_chatVars, NEW s \in Session \ WebSession,
         NEW m \in Message
  PROVE  \/ items'[s][m] = items[s][m]
         \/ items'[s][m] = Struck(s, m)
         \/ items[s][m] = <<>> /\ Len(items'[s][m]) <= 1
<1> USE DEF directory, tables, threads, clients, history
<1> DEFINE Listed == \/ items'[s][m] = items[s][m]
                     \/ items'[s][m] = Struck(s, m)
                     \/ items[s][m] = <<>> /\ Len(items'[s][m]) <= 1
<1>t. items \in [Session -> [Message -> Seq({"shown", "recalled"})]]
  BY DEF ChatTypes, ChatTypeOK
<1>1. ASSUME NEW d \in Session, NEW n \in Message, Show(d, n) PROVE Listed
  <2>1. Len(Append(<<>>, "shown")) = 1
    OBVIOUS
  <2>2. items'[s][m] \in {items[s][m], Pushed(s, m)}
    BY <1>1, <1>t DEF Show
  <2>3. QED
    BY <2>1, <2>2 DEF Pushed
<1>2. ASSUME NEW t \in Thread, Notify(t) PROVE Listed
  BY <1>2, NotifyStrikes
<1>3. ASSUME NEW d \in Session, HistoryReply(d) PROVE Listed
  <2>1. \/ UNCHANGED items
        \/ items' = [items EXCEPT ![d] = [n \in Message |-> Loaded(d, n)]]
    BY <1>3 DEF HistoryReply
  <2>2. items'[s][m] \in {items[s][m], Loaded(s, m)}
    <3>1. CASE UNCHANGED items
      BY <3>1
    <3>2. CASE items' = [items EXCEPT ![d] = [n \in Message |-> Loaded(d, n)]]
      <4>1. CASE s = d
        BY <1>t, <3>2, <4>1
      <4>2. CASE s # d
        BY <1>t, <3>2, <4>2
      <4>3. QED
        BY <4>1, <4>2
    <3>3. QED
      BY <2>1, <3>1, <3>2
  <2>3. \/ Loaded(s, m) = items[s][m]
        \/ items[s][m] = <<>> /\ Loaded(s, m) \in {<<>>, <<page[s][m]>>}
    BY DEF Loaded
  <2>4. ASSUME items'[s][m] \in {<<>>, <<page[s][m]>>} PROVE Len(items'[s][m]) <= 1
    <3>1. CASE items'[s][m] = <<>>
      BY <3>1
    <3>2. CASE items'[s][m] = <<page[s][m]>>
      BY <3>2
    <3>3. QED
      BY <2>4, <3>1, <3>2
  <2>5. QED
    BY <2>2, <2>3, <2>4
<1>4. CASE UNCHANGED items
  BY <1>4
<1>5. ASSUME NEW d \in Session, Forward(d) \/ ForwardEnds(d) PROVE Listed
  <2>1. /\ UNCHANGED items \/ \E e \in Session : Show(e, job[d])
        /\ job[d] \in Message
    <3>1. pc[d] = "forward" /\ target[d] \in Session \union {NoSession}
      BY <1>5 DEF Forward, ForwardEnds, Step, ChatTypes, ChatTypeOK, Thread
    <3>2. job[d] \in Message
      BY <3>1 DEF ChatTypes, WorkTypes, Working, Sending
    <3>3. QED
      BY <1>5, <3>1, <3>2 DEF Forward, ForwardEnds
  <2>2. QED
    BY <1>1, <2>1
<1>6. QED
  BY <1>2, <1>3, <1>4, <1>5
     DEF ChatNext, chatVars, Requests, Handler, Review, Loops, Thread, Departure,
         Login, SendCheck, RecallCheck, HistoryCheck, Move, SaveMessage, Submit,
         RecallMessage, HistoryRead, ReviewStarts, ReviewAllows, ReviewRejects,
         Warn, WarnRaises, Strike, Lookup, Audience, NotifyRaises, NotifyEnds,
         ForwardRaises, HistoryRaises

LEMMA ListedOnceStep ==
  ASSUME ChatTypes, ListedOnce, [ChatNext]_chatVars PROVE ListedOnce'
<1> SUFFICES ASSUME NEW s \in Session \ WebSession, NEW m \in Message
             PROVE  Len(items'[s][m]) <= 1
  BY DEF ListedOnce
<1>1. Len(items[s][m]) <= 1
  BY DEF ListedOnce
<1>2. items[s][m] \in Seq({"shown", "recalled"})
  BY DEF ChatTypes, ChatTypeOK
<1>3. Len(Struck(s, m)) <= 1
  BY <1>1, <1>2 DEF Struck
<1>4. QED
  BY <1>1, <1>3, ListedStep

\* LocalHistory._append and recall_message: the command-line client lists a
\* message at most once, and once its entry is struck neither a late forward
\* nor a history page read before the recall brings the content back.
THEOREM StruckStaysStruck ==
  ChatSpec => /\ []ListedOnce
              /\ [][\A s \in Session \ WebSession, m \in Message :
                      items[s][m] # <<>> /\ ~Visible(s, m)
                        => items'[s][m] # <<>> /\ ~Visible(s, m)']_chatVars
<1> DEFINE Stays == \A s \in Session \ WebSession, m \in Message :
                      items[s][m] # <<>> /\ ~Visible(s, m)
                        => items'[s][m] # <<>> /\ ~Visible(s, m)'
<1>1. ChatInit => ListedOnce
  BY DEF ChatInit, ListedOnce
<1>2. ChatTypes /\ ListedOnce /\ [ChatNext]_chatVars => ListedOnce'
  BY ListedOnceStep
<1>3. ChatTypes /\ [ChatNext]_chatVars => [Stays]_chatVars
  <2> SUFFICES ASSUME ChatTypes, [ChatNext]_chatVars,
                      NEW s \in Session \ WebSession, NEW m \in Message,
                      items[s][m] # <<>>, ~Visible(s, m)
               PROVE  items'[s][m] # <<>> /\ ~Visible(s, m)'
    OBVIOUS
  <2>1. items'[s][m] \in {items[s][m], Struck(s, m)}
    BY ListedStep
  <2>2. QED
    BY <2>1, StruckShows DEF ChatTypes, Visible
<1>4. QED
  BY <1>1, <1>2, <1>3, ChatTypesKept, PTL DEF ChatSpec

-----------------------------------------------------------------------------
(* The chat and the directory.                                               *)

\* Whatever the handlers and reviews of module ChatMessages do, its connections
\* come and go as SessionDirectory promises, and as UserManager was shown to
\* keep them; the histories of the two modules fit together.
THEOREM ChatKeepsTheDirectory == ChatSpec => Init /\ [][Next]_vars
<1>1. ChatInit => Init
  BY DEF ChatInit
<1>2. [ChatNext]_chatVars => [Next]_vars
  <2> SUFFICES ASSUME [ChatNext]_chatVars PROVE [Next]_vars
    OBVIOUS
  <2>1. CASE Departure
    BY <2>1 DEF Departure, Next
  <2>2. ASSUME NEW s \in Session, NEW u \in User, Login(s, u) PROVE [Next]_vars
    BY <2>2 DEF Login, Next
  <2>3. CASE UNCHANGED directory
    BY <2>3 DEF directory, vars
  <2>4. QED
    BY <2>1, <2>2, <2>3
       DEF ChatNext, chatVars, Requests, Handler, Review, Loops, SendCheck,
           RecallCheck, HistoryCheck, Move, SaveMessage, Forward, ForwardEnds,
           Submit, RecallMessage, HistoryRead, HistoryReply, ReviewStarts,
           ReviewAllows, ReviewRejects, Warn, WarnRaises, Strike, Lookup,
           Audience, Notify, NotifyRaises, NotifyEnds, ForwardRaises, HistoryRaises
<1>3. QED
  BY <1>1, <1>2, PTL DEF ChatSpec
=============================================================================
