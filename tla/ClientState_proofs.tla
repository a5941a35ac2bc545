-------------------------- MODULE ClientState_proofs -------------------------
(***************************************************************************)
(* Theorems about module ClientState, for any number of connections, users *)
(* and requests.                                                           *)
(***************************************************************************)
EXTENDS ClientState, SequenceTheorems, TLAPS

-----------------------------------------------------------------------------
(* Types.  Each is kept by itself; that the frames of a read are all handled *)
(* before the next recv is what the last conjunct of ClientTypeOK says.      *)

\* What a thread does to the messages on their way.
LEMMA QueueTypes ==
  ASSUME ClientTypeOK, NEW c \in Connection
  PROVE  /\ outbox[c] # <<>> => Head(outbox[c]) \in Frame
         /\ outbox[c] # <<>> => Tail(outbox[c]) \in Seq(Frame)
         /\ frames[c] # <<>> => Head(frames[c]) \in Frame
         /\ frames[c] # <<>> => Tail(frames[c]) \in Seq(Frame)
         /\ frames[c] # <<>> => Len(Tail(frames[c])) = Len(frames[c]) - 1
         /\ frames[c] \in Seq(Frame) /\ Len(frames[c]) \in Nat
  BY HeadTailProperties, LenProperties DEF ClientTypeOK

LEMMA CommandTypes ==
  ASSUME ClientTypeOK, Commands PROVE ClientTypeOK'
<1> USE ClientAssumption
    DEF ClientTypeOK, AtWork, Command, Id, Name, fields, logins, threads, server
<1>1. CASE ReconnectBegins \/ StopReceiver
  BY <1>1 DEF ReconnectBegins, StopReceiver
<1>2. CASE CloseSocket
  BY <1>2 DEF CloseSocket
<1>3. CASE ConnectBegins \/ ConnectFails \/ LogoutSent
  BY <1>3 DEF ConnectBegins, ConnectFails, LogoutSent
<1>4. ASSUME NEW c \in Connection, SetSocket(c) PROVE ClientTypeOK'
  BY <1>4 DEF SetSocket
<1>5. ASSUME NEW c \in Connection, StartReceiver(c) PROVE ClientTypeOK'
  BY <1>5 DEF StartReceiver
<1>6. ASSUME NEW k \in {"login", "logout"}, NEW u \in Name, Request(k, u)
      PROVE  sent' \in Id /\ outbox' \in [Connection -> Seq(Frame)]
  <2>1. sent' \in Id
    BY <1>6 DEF Request
  <2>2. [type |-> k, id |-> sent', name |-> u] \in Frame
    BY <2>1 DEF Frame
  <2>3. CASE CanSend /\ sock \in up
    <3>1. outbox' = [outbox EXCEPT ![sock] =
                       Append(@, [type |-> k, id |-> sent', name |-> u])]
      BY <1>6, <2>3 DEF Request
    <3>2. Append(outbox[sock], [type |-> k, id |-> sent', name |-> u])
            \in Seq(Frame)
      BY <2>2, <2>3, AppendProperties
    <3>3. QED
      BY <2>1, <3>1, <3>2
  <2>4. CASE ~(CanSend /\ sock \in up)
    BY <1>6, <2>1, <2>4 DEF Request
  <2>5. QED
    BY <2>3, <2>4
<1>7. ASSUME NEW u \in User, Login(u) PROVE ClientTypeOK'
  BY <1>7 DEF Login
<1>8. CASE LoginSends
  <2>1. sent' \in Id /\ outbox' \in [Connection -> Seq(Frame)]
    BY <1>6, <1>8 DEF LoginSends
  <2>2. <<sent', asked>> \in Id \X User
    BY <1>8, <2>1 DEF LoginSends
  <2>3. pending' \subseteq Id \X User
    BY <1>8, <2>2 DEF LoginSends
  <2>4. /\ confirmed' \in BOOLEAN /\ asked' = NoUser /\ command' = "idle"
        /\ excuses' \subseteq {"outlived", "late", "refused", "undone"}
        /\ UNCHANGED <<connected, username, sock, receiver, loop, about, stopped,
                       frames, shut, up, bound, inbox>>
    BY <1>8 DEF LoginSends
  <2>5. QED
    BY <2>1, <2>3, <2>4
<1>9. CASE Logout
  <2>1. sent' \in Id /\ outbox' \in [Connection -> Seq(Frame)]
    BY <1>6, <1>9 DEF Logout
  <2>2. command' \in {"idle", "logout"}
    BY <1>9 DEF Logout
  <2>3. QED
    BY <1>9, <2>1, <2>2 DEF Logout
<1>10. QED
  BY <1>1, <1>2, <1>3, <1>4, <1>5, <1>7, <1>8, <1>9 DEF Commands

LEMMA ServerTypes ==
  ASSUME ClientTypeOK, NEW c \in Connection, Answer(c) \/ ServerCloses(c)
  PROVE  ClientTypeOK'
<1> USE ClientAssumption
    DEF ClientTypeOK, Name, fields, logins, threads, server
<1>1. CASE Answer(c)
  <2> DEFINE request == Head(outbox[c])
  <2>1. request \in Frame /\ Tail(outbox[c]) \in Seq(Frame)
    BY <1>1, QueueTypes DEF Answer
  <2>2. /\ [request EXCEPT !.type = "error"] \in Frame
        /\ [request EXCEPT !.name = bound[c]] \in Frame
        /\ request.name \in Name
    BY <2>1 DEF Frame
  <2> HIDE DEF request
  <2>3. /\ Append(inbox[c], request) \in Seq(Frame)
        /\ Append(inbox[c], [request EXCEPT !.type = "error"]) \in Seq(Frame)
        /\ Append(inbox[c], [request EXCEPT !.name = bound[c]]) \in Seq(Frame)
    BY <2>1, <2>2, AppendProperties
  <2>4. inbox' \in [Connection -> Seq(Frame)]
    <3>1. \E q \in Seq(Frame) : inbox' = [inbox EXCEPT ![c] = q]
      BY <1>1, <2>3 DEF Answer, request
    <3>2. QED
      BY <3>1
  <2>5. bound' \in [Connection -> Name]
    BY <1>1, <2>2 DEF Answer, request
  <2>6. outbox' \in [Connection -> Seq(Frame)]
    BY <1>1, <2>1 DEF Answer
  <2>7. QED
    BY <1>1, <2>4, <2>5, <2>6 DEF Answer
<1>2. CASE ServerCloses(c)
  <2>1. << >> \in Seq(Frame)
    BY EmptySeq
  <2>2. inbox' \in [Connection -> Seq(Frame)]
    BY <1>2, <2>1 DEF ServerCloses
  <2>3. QED
    BY <1>2, <2>2 DEF ServerCloses
<1>3. QED
  BY <1>1, <1>2

LEMMA ReceiverTypes ==
  ASSUME ClientTypeOK, NEW c \in Connection, Receiver(c)
  PROVE  ClientTypeOK'
<1> USE ClientAssumption
    DEF ClientTypeOK, Name, fields, logins, threads, server
\* A receiver at work goes on, or ends once its read is handled.
<1> DEFINE Places == AtWork \union {"new", "made", "clear", "ended"}
           LoopTypes ==
             /\ loop' \in [Connection -> Places]
             /\ receiver' # NoConnection => loop'[receiver'] \notin {"new", "made"}
             /\ \A d \in Connection :
                  frames'[d] # <<>> => loop'[d] \in AtWork \ {"recv"}
<1>1. ASSUME NEW from \in AtWork \union {"clear"},
             NEW to \in AtWork \union {"clear", "ended"},
             Go(c, from, to), UNCHANGED receiver,
             \A d \in Connection : d # c => frames'[d] = frames[d],
             frames'[c] # <<>> => to \in AtWork \ {"recv"}
      PROVE  LoopTypes
  <2>1. loop' = [loop EXCEPT ![c] = to] /\ to \in Places /\ to \notin {"new", "made"}
    BY <1>1 DEF Go, AtWork
  <2>2. loop' \in [Connection -> Places]
    BY <2>1
  <2>3. receiver' # NoConnection => loop'[receiver'] \notin {"new", "made"}
    BY <1>1, <2>1
  <2>4. ASSUME NEW d \in Connection, frames'[d] # <<>>
        PROVE  loop'[d] \in AtWork \ {"recv"}
    BY <1>1, <2>1, <2>4
  <2>5. QED
    BY <2>2, <2>3, <2>4
<1>2. ASSUME NEW from \in AtWork, Go(c, from, After(c, frames'[c])), UNCHANGED receiver,
             \A d \in Connection : d # c => frames'[d] = frames[d]
      PROVE  LoopTypes
  <2>1. /\ After(c, frames'[c]) \in AtWork \union {"ended"}
        /\ frames'[c] # <<>> => After(c, frames'[c]) \in AtWork \ {"recv"}
    BY DEF After, AtWork
  <2>2. QED
    BY <1>1, <1>2, <2>1
<1>3. ASSUME NEW n \in 1..MaxRequests, Receive(c, n) PROVE ClientTypeOK'
  <2>1. n \in 1..Len(inbox[c]) /\ inbox[c] \in Seq(Frame)
    BY <1>3 DEF Receive
  <2>2. SubSeq(inbox[c], 1, n) \in Seq(Frame)
    BY <2>1, SubSeqProperties
  <2>3. SubSeq(inbox[c], n + 1, Len(inbox[c])) \in Seq(Frame)
    BY <2>1, SubSeqProperties
  <2>4. LoopTypes
    <3>1. {"recv", "handle"} \subseteq AtWork
      BY DEF AtWork
    <3>2. Go(c, "recv", "handle") /\ UNCHANGED receiver
          /\ \A d \in Connection : d # c => frames'[d] = frames[d]
      BY <1>3 DEF Receive
    <3>3. QED
      BY <1>1, <3>1, <3>2
  <2>5. QED
    BY <1>3, <2>2, <2>3, <2>4 DEF Receive
<1>4. ASSUME NEW k, NEW to, Take(c, k, to)
      PROVE  /\ frames' = [frames EXCEPT ![c] = Tail(@)]
             /\ frames' \in [Connection -> Seq(Frame)]
             /\ Tail(frames[c]) = frames'[c]
             /\ Head(frames[c]) \in Frame
             /\ to \in AtWork \ {"recv"} \/ to = After(c, Tail(frames[c])) => LoopTypes
  <2>1. frames[c] # <<>>
    BY <1>4 DEF Take
  <2>2. Tail(frames[c]) \in Seq(Frame) /\ Head(frames[c]) \in Frame
    BY <2>1, QueueTypes
  <2>3. /\ frames' = [frames EXCEPT ![c] = Tail(@)]
        /\ Go(c, "handle", to) /\ UNCHANGED receiver
    BY <1>4 DEF Take
  <2>4. frames'[c] = Tail(frames[c]) /\ \A d \in Connection : d # c => frames'[d] = frames[d]
    BY <2>3
  <2>5. "handle" \in AtWork
    BY DEF AtWork
  <2>6. CASE to \in AtWork \ {"recv"}
    BY <1>1, <2>2, <2>3, <2>4, <2>5, <2>6
  <2>7. CASE to = After(c, Tail(frames[c]))
    BY <1>2, <2>2, <2>3, <2>4, <2>5, <2>7
  <2>8. QED
    BY <2>2, <2>3, <2>4, <2>6, <2>7
<1> HIDE DEF LoopTypes
<1>5. CASE HandleLogin(c)
  <2>1. Take(c, "login", "confirm") /\ "confirm" \in AtWork \ {"recv"}
    BY <1>5 DEF HandleLogin, AtWork
  <2>2. LoopTypes /\ frames' \in [Connection -> Seq(Frame)] /\ Head(frames[c]) \in Frame
    BY <1>4, <2>1
  <2>3. QED
    BY <1>5, <2>2 DEF HandleLogin, Take, Answered, Frame, LoopTypes
<1>6. CASE HandleLogout(c)
  <2>1. Take(c, "logout", "leave") /\ "leave" \in AtWork \ {"recv"}
    BY <1>6 DEF HandleLogout, AtWork
  <2>2. LoopTypes /\ frames' \in [Connection -> Seq(Frame)] /\ Head(frames[c]) \in Frame
    BY <1>4, <2>1
  <2>3. QED
    BY <1>6, <2>2 DEF HandleLogout, Take, Frame, LoopTypes
<1>7. CASE HandleError(c)
  <2>1. \/ Take(c, "error", "refuse") /\ "refuse" \in AtWork \ {"recv"}
        \/ Take(c, "error", After(c, Tail(frames[c])))
    BY <1>7 DEF HandleError, AtWork
  <2>2. LoopTypes /\ frames' \in [Connection -> Seq(Frame)] /\ Head(frames[c]) \in Frame
    BY <1>4, <2>1
  <2>3. /\ about' \in [Connection -> Name]
        /\ pending' \subseteq Id \X User
        /\ UNCHANGED <<connected, username, confirmed, sock, receiver, asked, sent,
                       command, stopped, shut, up, bound, outbox, inbox, excuses>>
    BY <1>7 DEF HandleError, Take, Answered
  <2>4. QED
    BY <2>2, <2>3 DEF LoopTypes
<1>8. CASE Confirm(c) \/ CompareLeft(c) \/ CompareRefused(c) \/ Forget(c) \/ Unconfirm(c)
  <2>1. \E from \in AtWork, to \in {After(c, frames[c]), "forget", "unconfirm"} :
          Go(c, from, to)
    BY <1>8 DEF Confirm, CompareLeft, CompareRefused, Forget, Unconfirm, AtWork
  <2>2. UNCHANGED <<receiver, frames>>
    BY <1>8 DEF Confirm, CompareLeft, CompareRefused, Forget, Unconfirm, Handling
  <2>3. LoopTypes
    <3>1. {"forget", "unconfirm"} \subseteq AtWork \ {"recv"}
      BY DEF AtWork
    <3>2. QED
      BY <1>1, <1>2, <2>1, <2>2, <3>1
  <2>4. /\ username' \in Name /\ confirmed' \in BOOLEAN
        /\ about' \in [Connection -> Name]
        /\ excuses' \subseteq {"outlived", "late", "refused", "undone"}
    BY <1>8 DEF Confirm, CompareLeft, CompareRefused, Refuse, Forget, Unconfirm, Compared
  <2>5. UNCHANGED <<connected, sock, receiver, pending, asked, sent, command, stopped,
                    frames, shut, up, bound, outbox, inbox>>
    BY <1>8 DEF Confirm, CompareLeft, CompareRefused, Forget, Unconfirm, Handling
  <2>6. QED
    BY <2>3, <2>4, <2>5 DEF LoopTypes
<1>9. CASE ClearFlags(c) \/ ClearSocket(c) \/ SeesStop(c)
  <2>1. \E from \in {"recv", "clear"}, to \in {"clear", "ended"} : Go(c, from, to)
    BY <1>9 DEF ClearFlags, ClearSocket, SeesStop
  <2>2. /\ connected' \in BOOLEAN /\ confirmed' \in BOOLEAN
        /\ sock' \in Connection \union {NoConnection}
        /\ UNCHANGED <<username, receiver, pending, asked, sent, command, about,
                       stopped, frames, shut, up, bound, outbox, inbox, excuses>>
    BY <1>9 DEF ClearFlags, ClearSocket, SeesStop
  <2>3. LoopTypes
    <3>1. "recv" \in AtWork /\ "clear" \notin AtWork
      BY DEF AtWork
    <3>2. frames[c] = <<>>
      BY <2>1, <3>1 DEF Go
    <3>3. QED
      BY <1>1, <2>1, <2>2, <3>1, <3>2
  <2>4. QED
    BY <2>2, <2>3 DEF LoopTypes
<1>10. QED
  BY <1>3, <1>5, <1>6, <1>7, <1>8, <1>9 DEF Receiver

LEMMA ClientTypesStep == ClientTypeOK /\ [ClientNext]_clientVars => ClientTypeOK'
<1> SUFFICES ASSUME ClientTypeOK, [ClientNext]_clientVars PROVE ClientTypeOK'
  OBVIOUS
<1>1. CASE UNCHANGED clientVars
  BY <1>1 DEF clientVars, fields, logins, threads, server, ClientTypeOK
<1>2. QED
  BY <1>1, CommandTypes, ServerTypes, ReceiverTypes DEF ClientNext

LEMMA ClientTypesInit == ClientInit => ClientTypeOK
<1>1. << >> \in Seq(Frame)
  BY EmptySeq
<1>2. 0 \in Id
  BY ClientAssumption DEF Id
<1>3. QED
  BY <1>1, <1>2 DEF ClientInit, ClientTypeOK, Name

\* Every field of the client keeps its type, and no receiver goes back to recv
\* with messages of a read unhandled.
THEOREM ClientTypesAlways == ClientSpec => []ClientTypeOK
  BY ClientTypesInit, ClientTypesStep, PTL DEF ClientSpec

-----------------------------------------------------------------------------
(* The connection shown.  While no connect has overtaken an earlier receiver *)
(* there is one receiver at most; one that nobody has told to stop and that  *)
(* has not lost its connection reads the socket of a client shown connected. *)

OneReceiver == \A c, d \in Alive : c = d

\* Between its two halves connect has a socket and no receiver yet.
MadeSocket ==
  /\ command = "start" => Alive = {} /\ sock # NoConnection
  /\ \A c \in Connection : loop[c] = "made" => command = "start" /\ sock = c

Reading(c) == loop[c] \in AtWork /\ c \notin stopped

ConnectedReads ==
  connected => /\ command \in {"idle", "login", "logout"}
               /\ sock # NoConnection
               /\ Reading(sock)
               /\ receiver = sock

\* disconnect shows the loss before it stops the receiver, which it still has.
ReaderIsShown ==
  \A c \in Connection :
    Reading(c) => receiver = c /\ (command = "stop" \/ (connected /\ sock = c))

\* reconnect may leave a socket whose receiver has ended, until it closes it.
SocketIsRead ==
  sock # NoConnection /\ command \in {"idle", "login", "logout", "connect"} =>
    sock \in Alive \ stopped

WholeInv ==
  /\ OneReceiver
  /\ MadeSocket
  /\ ConnectedReads
  /\ ReaderIsShown
  /\ SocketIsRead

\* Where a receiver goes, and what it leaves alone.
LEMMA ReceiverGoes ==
  ASSUME NEW c \in Connection, Receiver(c)
  PROVE  /\ \E to \in AtWork \union {"clear", "ended"} : loop' = [loop EXCEPT ![c] = to]
         /\ loop[c] \in AtWork \union {"clear"}
         /\ UNCHANGED <<receiver, command, asked, sent, stopped, shut, up, bound, outbox>>
<1> USE DEF AtWork, Go, fields, logins, threads, server
<1>1. CASE \E n \in 1..MaxRequests : Receive(c, n)
  BY <1>1 DEF Receive
<1>2. CASE HandleLogin(c) \/ HandleLogout(c) \/ HandleError(c)
  BY <1>2 DEF HandleLogin, HandleLogout, HandleError, Take, After
<1>3. CASE Confirm(c) \/ CompareLeft(c) \/ CompareRefused(c) \/ Forget(c) \/ Unconfirm(c)
  BY <1>3 DEF Confirm, CompareLeft, CompareRefused, Forget, Unconfirm, After, Handling
<1>4. CASE ClearFlags(c) \/ ClearSocket(c) \/ SeesStop(c)
  BY <1>4 DEF ClearFlags, ClearSocket, SeesStop
<1>5. QED
  BY <1>1, <1>2, <1>3, <1>4 DEF Receiver

\* No receiver is told to stop before it has started.
StopsStarted == \A c \in stopped : loop[c] \notin {"new", "made"}

LEMMA StopsStartedStep ==
  ClientTypeOK /\ StopsStarted /\ [ClientNext]_clientVars => StopsStarted'
<1> SUFFICES ASSUME ClientTypeOK, StopsStarted, [ClientNext]_clientVars
             PROVE  StopsStarted'
  OBVIOUS
<1> USE DEF ClientTypeOK, StopsStarted, fields, logins, threads, server
<1>1. CASE StopReceiver
  BY <1>1 DEF StopReceiver
<1>2. CASE ReconnectBegins \/ CloseSocket \/ ConnectBegins \/ ConnectFails
  BY <1>2 DEF ReconnectBegins, CloseSocket, ConnectBegins, ConnectFails
<1>3. CASE LoginSends \/ Logout \/ LogoutSent \/ \E u \in User : Login(u)
  BY <1>3 DEF Login, LoginSends, Logout, LogoutSent
<1>4. ASSUME NEW c \in Connection,
             SetSocket(c) \/ StartReceiver(c) \/ Answer(c) \/ ServerCloses(c)
      PROVE  StopsStarted'
  BY <1>4 DEF SetSocket, StartReceiver, Answer, ServerCloses
<1>5. ASSUME NEW c \in Connection, Receiver(c) PROVE StopsStarted'
  <2>1. PICK to \in AtWork \union {"clear", "ended"} : loop' = [loop EXCEPT ![c] = to]
    BY <1>5, ReceiverGoes
  <2>2. UNCHANGED stopped /\ to \notin {"new", "made"}
    BY <1>5, ReceiverGoes DEF AtWork
  <2>3. QED
    BY <2>1, <2>2
<1>6. CASE UNCHANGED clientVars
  BY <1>6 DEF clientVars
<1>7. QED
  BY <1>1, <1>2, <1>3, <1>4, <1>5, <1>6 DEF ClientNext, Commands

\* An excuse, once there, stays.
LEMMA ExcusesStay ==
  ASSUME [ClientNext]_clientVars PROVE excuses \subseteq excuses'
<1> USE DEF fields, logins, threads, server
<1>1. CASE Commands
  BY <1>1 DEF Commands, ReconnectBegins, StopReceiver, CloseSocket, ConnectBegins,
              ConnectFails, SetSocket, StartReceiver, Login, LoginSends, Logout,
              LogoutSent
<1>2. ASSUME NEW c \in Connection, Answer(c) \/ ServerCloses(c) \/ Receiver(c)
      PROVE  excuses \subseteq excuses'
  BY <1>2 DEF Answer, ServerCloses, Receiver, Receive, HandleLogin, HandleLogout,
              HandleError, Take, Confirm, CompareLeft, CompareRefused, Refuse, Forget,
              Unconfirm, ClearFlags, ClearSocket, SeesStop
<1>3. CASE UNCHANGED clientVars
  BY <1>3 DEF clientVars
<1>4. QED
  BY <1>1, <1>2, <1>3 DEF ClientNext

LEMMA NotAtWork == AtWork \intersect {"new", "made", "clear", "ended"} = {}
  BY DEF AtWork

LEMMA WholeCommandStep ==
  ASSUME ClientTypeOK, StopsStarted, WholeInv, Commands, "outlived" \notin excuses'
  PROVE  WholeInv'
<1> USE ClientAssumption
    DEF ClientTypeOK, StopsStarted, WholeInv, OneReceiver, MadeSocket,
        ConnectedReads, Reading, ReaderIsShown, SocketIsRead, Alive, Command,
        fields, logins, threads, server
<1>1. CASE ReconnectBegins
  BY <1>1 DEF ReconnectBegins
<1>2. CASE StopReceiver
  BY <1>2 DEF StopReceiver
<1>3. CASE CloseSocket
  BY <1>3 DEF CloseSocket
<1>4. CASE ConnectBegins \/ ConnectFails
  BY <1>4 DEF ConnectBegins, ConnectFails
<1>5. ASSUME NEW c \in Connection, SetSocket(c) PROVE WholeInv'
  BY <1>5, NotAtWork DEF SetSocket
<1>6. ASSUME NEW c \in Connection, StartReceiver(c) PROVE WholeInv'
  BY <1>6 DEF StartReceiver, AtWork
<1>7. CASE LoginSends \/ Logout \/ LogoutSent \/ \E u \in User : Login(u)
  <2>1. /\ UNCHANGED <<connected, sock, receiver, loop, stopped>>
        /\ command \in {"idle", "login", "logout"}
        /\ command' \in {"idle", "login", "logout"}
    BY <1>7 DEF Login, LoginSends, Logout, LogoutSent
  <2>2. QED
    BY <2>1
<1>8. QED
  BY <1>1, <1>2, <1>3, <1>4, <1>5, <1>6, <1>7 DEF Commands

LEMMA WholeReceiverStep ==
  ASSUME ClientTypeOK, StopsStarted, WholeInv, NEW c \in Connection, Receiver(c)
  PROVE  WholeInv'
<1> USE ClientAssumption
    DEF ClientTypeOK, StopsStarted, WholeInv, OneReceiver, MadeSocket,
        ConnectedReads, Reading, ReaderIsShown, SocketIsRead, Alive, Go,
        fields, logins, threads, server
<1>1. ASSUME NEW to \in AtWork, UNCHANGED <<connected, sock>>, loop[c] \in AtWork,
             loop' = [loop EXCEPT ![c] = to]
      PROVE  WholeInv'
  <2>1. UNCHANGED <<receiver, command, stopped>>
    BY ReceiverGoes
  <2>2. \A d \in Connection :
          /\ loop'[d] \in AtWork <=> loop[d] \in AtWork
          /\ \A at \in {"made", "clear"} : loop'[d] = at <=> loop[d] = at
    BY <1>1, NotAtWork
  <2>3. Alive' = Alive /\ \A d \in Connection : Reading(d)' <=> Reading(d)
    BY <2>1, <2>2
  <2>4. QED
    BY <1>1, <2>1, <2>2, <2>3
<1>2. CASE /\ UNCHANGED <<connected, sock>> /\ loop' = [loop EXCEPT ![c] = "ended"]
           /\ loop[c] \in AtWork /\ c \in stopped
  <2>1. UNCHANGED <<receiver, command, stopped>>
    BY ReceiverGoes
  <2>2. \A d \in Connection :
          /\ d # c => loop'[d] = loop[d]
          /\ Reading(d)' <=> Reading(d)
          /\ loop'[d] = "made" <=> loop[d] = "made"
    BY <1>2, <2>1, NotAtWork
  <2>3. Alive' = Alive \ {c}
    BY <1>2, <2>2, NotAtWork
  <2>4. QED
    BY <1>2, <2>1, <2>2, <2>3
<1>3. CASE \E n \in 1..MaxRequests : Receive(c, n)
  <2>1. UNCHANGED <<connected, sock>> /\ Go(c, "recv", "handle")
    BY <1>3 DEF Receive
  <2>2. QED
    BY <1>1, <2>1 DEF AtWork
<1>4. CASE HandleLogin(c) \/ HandleLogout(c) \/ HandleError(c)
  <2>1. /\ UNCHANGED <<connected, sock>>
        /\ loop[c] = "handle"
        /\ \E to \in {"confirm", "leave", "refuse", After(c, Tail(frames[c]))} :
             loop' = [loop EXCEPT ![c] = to]
    BY <1>4 DEF HandleLogin, HandleLogout, HandleError, Take
  <2>2. QED
    BY <1>1, <1>2, <2>1 DEF AtWork, After
<1>5. CASE Confirm(c) \/ CompareLeft(c) \/ CompareRefused(c) \/ Forget(c) \/ Unconfirm(c)
  <2>1. /\ UNCHANGED <<connected, sock>>
        /\ loop[c] \in {"confirm", "leave", "refuse", "forget", "unconfirm"}
        /\ \E to \in {"forget", "unconfirm", After(c, frames[c])} :
             loop' = [loop EXCEPT ![c] = to]
    BY <1>5 DEF Confirm, CompareLeft, CompareRefused, Forget, Unconfirm, Handling
  <2>2. QED
    BY <1>1, <1>2, <2>1 DEF AtWork, After
<1>6. CASE ClearFlags(c)
  BY <1>6 DEF ClearFlags, AtWork
<1>7. CASE ClearSocket(c)
  BY <1>7 DEF ClearSocket, AtWork
<1>8. CASE SeesStop(c)
  BY <1>2, <1>8 DEF SeesStop, AtWork
<1>9. QED
  BY <1>3, <1>4, <1>5, <1>6, <1>7, <1>8 DEF Receiver

LEMMA WholeStep ==
  ASSUME ClientTypeOK, StopsStarted, "outlived" \notin excuses => WholeInv,
         [ClientNext]_clientVars
  PROVE  "outlived" \notin excuses' => WholeInv'
<1> SUFFICES ASSUME "outlived" \notin excuses' PROVE WholeInv'
  OBVIOUS
<1>1. WholeInv
  BY ExcusesStay
<1>2. CASE UNCHANGED clientVars \/ \E c \in Connection : Answer(c) \/ ServerCloses(c)
  <2>1. UNCHANGED <<connected, sock, receiver, command, loop, stopped>>
    BY <1>2 DEF clientVars, Answer, ServerCloses, fields, logins, threads
  <2>2. QED
    BY <1>1, <2>1
       DEF WholeInv, OneReceiver, MadeSocket, ConnectedReads, Reading,
           ReaderIsShown, SocketIsRead, Alive
<1>3. QED
  BY <1>1, <1>2, WholeCommandStep, WholeReceiverStep DEF ClientNext

LEMMA WholeInit == ClientInit => StopsStarted /\ WholeInv
  BY DEF ClientInit, StopsStarted, WholeInv, OneReceiver, MadeSocket, ConnectedReads,
         Reading, ReaderIsShown, SocketIsRead, Alive, AtWork

\* A client shown connected has a socket and exactly the receiver that reads it,
\* one shown disconnected has neither, unless a connect has made its socket
\* while the receiver of an earlier connection was still there.
THEOREM ConnectedIsWholeAlways == ClientSpec => []ConnectedIsWhole
<1> DEFINE Shown == "outlived" \notin excuses => WholeInv
<1>1. ClientInit => ClientTypeOK /\ StopsStarted /\ Shown
  BY ClientTypesInit, WholeInit
<1>2. ClientTypeOK /\ StopsStarted /\ Shown /\ [ClientNext]_clientVars
        => ClientTypeOK' /\ StopsStarted' /\ Shown'
  BY ClientTypesStep, StopsStartedStep, WholeStep
<1>3. ClientTypeOK /\ Shown => ConnectedIsWhole
  BY DEF ClientTypeOK, WholeInv, OneReceiver, ConnectedReads, Reading, ReaderIsShown,
         SocketIsRead, Alive, Quiet, ConnectedIsWhole
<1> HIDE DEF Shown
<1>4. QED
  BY <1>1, <1>2, <1>3, PTL DEF ClientSpec

-----------------------------------------------------------------------------
\* Who is logged in after an answer.
NameAfter(x) == IF x.type = "login" THEN x.name ELSE NoUser

\* Place j of a queue of answers says who was logged in before it: a logout does,
\* and so does the server itself, behind the last of them.
Tells(q, j) == j = Len(q) + 1 \/ q[j].type = "logout"
Told(q, b, j) == IF j = Len(q) + 1 THEN b ELSE q[j].name

Errors(q, i, j) == \A k \in i..j : q[k].type = "error"

Linked(q, b) ==
  \A i \in 1..Len(q), j \in 1..(Len(q) + 1) :
    i < j /\ q[i].type # "error" /\ Errors(q, i + 1, j - 1) /\ Tells(q, j)
      => Told(q, b, j) = NameAfter(q[i])

StartsWith(q, b, n) ==
  \A j \in 1..(Len(q) + 1) :
    Errors(q, 1, j - 1) /\ Tells(q, j) => Told(q, b, j) = n

\* The server answers one more request.
LEMMA OneMoreAnswer ==
  ASSUME NEW q \in Seq(Frame), NEW x \in Frame, NEW b, NEW d,
         \/ x.type = "login" /\ d = x.name
         \/ x.type = "error" /\ d = b
         \/ x.type = "logout" /\ x.name = b /\ d = NoUser
  PROVE  /\ Linked(q, b) => Linked(Append(q, x), d)
         /\ \A n : StartsWith(q, b, n) => StartsWith(Append(q, x), d, n)
<1> DEFINE r == Append(q, x)
<1>1. /\ r \in Seq(Frame)
      /\ Len(q) \in Nat /\ Len(r) = Len(q) + 1
      /\ \A i \in 1..Len(q) : r[i] = q[i]
      /\ r[Len(q) + 1] = x
  BY AppendProperties, LenProperties
<1> HIDE DEF r
<1>2. \A j \in 1..(Len(q) + 1) : Tells(r, j) => Tells(q, j) /\ Told(q, b, j) = Told(r, d, j)
  BY <1>1 DEF Tells, Told
<1>3. Tells(r, Len(r) + 1) /\ Told(r, d, Len(r) + 1) = d
  BY DEF Tells, Told
<1>4. \A i, j \in Nat : j <= Len(q) /\ i > 0 => (Errors(r, i, j) <=> Errors(q, i, j))
  BY <1>1 DEF Errors
<1>5. ASSUME Linked(q, b) PROVE Linked(r, d)
  <2> SUFFICES ASSUME NEW i \in 1..Len(r), NEW j \in 1..(Len(r) + 1),
                      i < j, r[i].type # "error", Errors(r, i + 1, j - 1), Tells(r, j)
               PROVE  Told(r, d, j) = NameAfter(r[i])
    BY DEF Linked
  <2>1. CASE j <= Len(q) + 1
    <3>1. i \in 1..Len(q) /\ j \in 1..(Len(q) + 1) /\ q[i] = r[i]
      BY <1>1, <2>1
    <3>2. Errors(q, i + 1, j - 1)
      BY <1>1, <1>4, <2>1, <3>1
    <3>3. QED
      BY <1>2, <1>5, <3>1, <3>2 DEF Linked
  <2>2. CASE j = Len(r) + 1 /\ i = Len(r)
    BY <1>1, <1>3, <2>2 DEF NameAfter, Frame
  <2>3. CASE j = Len(r) + 1 /\ i < Len(r)
    <3>1. i \in 1..Len(q) /\ q[i] = r[i]
      BY <1>1, <2>3
    <3>2. x.type = "error" /\ d = b
      BY <1>1, <2>3 DEF Errors
    <3>3. Errors(q, i + 1, Len(q))
      BY <1>1, <2>3, <3>1 DEF Errors
    <3>4. Told(q, b, Len(q) + 1) = b /\ Tells(q, Len(q) + 1)
      BY DEF Told, Tells
    <3>5. (Len(q) + 1) - 1 = Len(q) /\ i < Len(q) + 1
      BY <1>1, <3>1
    <3>6. b = NameAfter(q[i])
      BY <1>1, <1>5, <3>1, <3>3, <3>4, <3>5 DEF Linked
    <3>7. QED
      BY <1>3, <2>3, <3>1, <3>2, <3>6
  <2>4. QED
    BY <1>1, <2>1, <2>2, <2>3
<1>6. ASSUME NEW n, StartsWith(q, b, n) PROVE StartsWith(r, d, n)
  <2> SUFFICES ASSUME NEW j \in 1..(Len(r) + 1), Errors(r, 1, j - 1), Tells(r, j)
               PROVE  Told(r, d, j) = n
    BY DEF StartsWith
  <2>1. CASE j <= Len(q) + 1
    <3>1. Errors(q, 1, j - 1)
      BY <1>1, <1>4, <2>1
    <3>2. QED
      BY <1>1, <1>2, <1>6, <2>1, <3>1 DEF StartsWith
  <2>2. CASE j = Len(r) + 1
    <3>1. x.type = "error" /\ d = b
      BY <1>1, <2>2 DEF Errors
    <3>2. Errors(q, 1, Len(q))
      BY <1>1, <2>2 DEF Errors
    <3>3. Told(q, b, Len(q) + 1) = b /\ Tells(q, Len(q) + 1)
      BY DEF Told, Tells
    <3>4. (Len(q) + 1) - 1 = Len(q) /\ Len(q) + 1 \in 1..(Len(q) + 1)
      BY <1>1
    <3>5. b = n
      BY <1>6, <3>2, <3>3, <3>4 DEF StartsWith
    <3>6. QED
      BY <1>3, <2>2, <3>1, <3>5
  <2>3. QED
    BY <1>1, <2>1, <2>2
<1>7. QED
  BY <1>5, <1>6 DEF r

\* The client handles the first answer.
LEMMA OneAnswerLess ==
  ASSUME NEW q \in Seq(Frame), q # <<>>, NEW b
  PROVE  /\ Linked(q, b) => Linked(Tail(q), b)
         /\ Linked(q, b) /\ Head(q).type # "error"
              => StartsWith(Tail(q), b, NameAfter(Head(q)))
         /\ \A n : StartsWith(q, b, n) =>
              /\ Head(q).type = "error" => StartsWith(Tail(q), b, n)
              /\ Head(q).type = "logout" => Head(q).name = n
<1> DEFINE r == Tail(q)
<1>1. /\ Len(q) \in Nat \ {0} /\ Len(r) = Len(q) - 1
      /\ Head(q) = q[1]
      /\ \A j \in 1..Len(r) : r[j] = q[j + 1]
  BY EmptySeq, LenProperties
<1> HIDE DEF r
<1>2. \A j \in 1..(Len(r) + 1) : Tells(r, j) => Tells(q, j + 1) /\ Told(q, b, j + 1) = Told(r, b, j)
  BY <1>1 DEF Tells, Told
<1>3. \A i, j \in Nat : i > 0 /\ j <= Len(r) /\ Errors(r, i, j) => Errors(q, i + 1, j + 1)
  <2> SUFFICES ASSUME NEW i \in Nat, NEW j \in Nat, i > 0, j <= Len(r), Errors(r, i, j),
                      NEW k \in (i + 1)..(j + 1)
               PROVE  q[k].type = "error"
    BY DEF Errors
  <2>1. k - 1 \in i..j /\ k - 1 \in 1..Len(r) /\ (k - 1) + 1 = k
    BY <1>1
  <2>2. QED
    BY <1>1, <2>1 DEF Errors
<1>4. ASSUME Linked(q, b) PROVE Linked(r, b)
  <2> SUFFICES ASSUME NEW i \in 1..Len(r), NEW j \in 1..(Len(r) + 1),
                      i < j, r[i].type # "error", Errors(r, i + 1, j - 1), Tells(r, j)
               PROVE  Told(r, b, j) = NameAfter(r[i])
    BY DEF Linked
  <2>1. /\ i + 1 \in 1..Len(q) /\ j + 1 \in 1..(Len(q) + 1) /\ i + 1 < j + 1
        /\ r[i] = q[i + 1]
        /\ i + 1 \in Nat /\ j - 1 \in Nat /\ j - 1 <= Len(r) /\ (j - 1) + 1 = (j + 1) - 1
    BY <1>1
  <2>2. Errors(q, (i + 1) + 1, (j + 1) - 1)
    BY <1>3, <2>1
  <2>3. QED
    BY <1>2, <1>4, <2>1, <2>2 DEF Linked
<1>5. ASSUME Linked(q, b), Head(q).type # "error"
      PROVE  StartsWith(r, b, NameAfter(Head(q)))
  <2> SUFFICES ASSUME NEW j \in 1..(Len(r) + 1), Errors(r, 1, j - 1), Tells(r, j)
               PROVE  Told(r, b, j) = NameAfter(Head(q))
    BY DEF StartsWith
  <2>1. /\ 1 \in 1..Len(q) /\ j + 1 \in 1..(Len(q) + 1) /\ 1 < j + 1
        /\ j - 1 \in Nat /\ j - 1 <= Len(r) /\ (j - 1) + 1 = (j + 1) - 1
    BY <1>1
  <2>2. Errors(q, 1 + 1, (j + 1) - 1)
    BY <1>3, <2>1
  <2>3. QED
    BY <1>1, <1>2, <1>5, <2>1, <2>2 DEF Linked
<1>6. ASSUME NEW n, StartsWith(q, b, n), Head(q).type = "error"
      PROVE  StartsWith(r, b, n)
  <2> SUFFICES ASSUME NEW j \in 1..(Len(r) + 1), Errors(r, 1, j - 1), Tells(r, j)
               PROVE  Told(r, b, j) = n
    BY DEF StartsWith
  <2>1. /\ j + 1 \in 1..(Len(q) + 1)
        /\ j - 1 \in Nat /\ j - 1 <= Len(r) /\ (j - 1) + 1 = (j + 1) - 1
    BY <1>1
  <2>2. Errors(q, 2, (j + 1) - 1)
    BY <1>3, <2>1
  <2>3. Errors(q, 1, (j + 1) - 1)
    BY <1>1, <1>6, <2>1, <2>2 DEF Errors
  <2>4. QED
    BY <1>2, <1>6, <2>1, <2>3 DEF StartsWith
<1>7. ASSUME NEW n, StartsWith(q, b, n), Head(q).type = "logout"
      PROVE  Head(q).name = n
  <2>1. 1 \in 1..(Len(q) + 1) /\ Errors(q, 1, 1 - 1) /\ Tells(q, 1)
        /\ Told(q, b, 1) = Head(q).name
    BY <1>1, <1>7 DEF Errors, Tells, Told
  <2>2. QED
    BY <1>7, <2>1 DEF StartsWith
<1>8. QED
  BY <1>4, <1>5, <1>6, <1>7 DEF r

\* Behind nothing but errors comes the name the server has.
LEMMA NothingButErrors ==
  ASSUME NEW q \in Seq(Frame), NEW b, NEW n, Errors(q, 1, Len(q)), StartsWith(q, b, n)
  PROVE  b = n
<1>1. Len(q) \in Nat /\ Len(q) + 1 \in 1..(Len(q) + 1) /\ (Len(q) + 1) - 1 = Len(q)
  BY LenProperties
<1>2. QED
  BY <1>1 DEF StartsWith, Tells, Told

Answers(c) == frames[c] \o inbox[c]

\* The server agrees with what it has answered on every connection it serves.
ServerAgrees == \A c \in up : Linked(Answers(c), bound[c])

AllErrors(c) == Errors(Answers(c), 1, Len(Answers(c)))

\* A request_id stands for one name.
PendingUnique ==
  /\ \A p \in pending : p[1] <= sent
  /\ \A p, q \in pending : p[1] = q[1] => p[2] = q[2]

\* A message that is, or will be, answered for the name in use.
InUse(x) == x.type # "logout" /\ <<x.id, username>> \in pending

LoginToCome(c) ==
  \/ \E i \in 1..Len(Answers(c)) : InUse(Answers(c)[i])
  \/ \E i \in 1..Len(outbox[c]) : InUse(outbox[c][i])

\* The command thread is between login's two assignments, and the name it took
\* is still the one in use.
Asking == command = "login" /\ username = asked

\* The name in use is where the answers still to come set out from, or one of
\* them is about it.
Leads(c) ==
  \/ Asking
  \/ StartsWith(Answers(c), bound[c], username)
  \/ LoginToCome(c)

\* A handler is about to take the name in use away.
Leaving(c) ==
  \/ loop[c] \in {"forget", "unconfirm"}
  \/ loop[c] \in {"leave", "refuse"} /\ about[c] = username

ConfirmedLeads ==
  /\ confirmed => connected
  /\ connected /\ sock \in up /\ (confirmed \/ loop[sock] = "confirm")
       => Leaving(sock) \/ Leads(sock)

\* A logout in its handler was the last thing the server had to say.
Settled ==
  \A c \in up :
    loop[c] \in {"leave", "forget", "unconfirm"} /\ AllErrors(c)
      => bound[c] = NoUser

\* Between its two lines logout has sent the request, and nothing after it.
LogoutOnItsWay ==
  command = "logout" /\ connected /\ sock \in up =>
    \/ outbox[sock] = <<>> /\ bound[sock] = NoUser
    \/ outbox[sock] # <<>> /\ outbox[sock][Len(outbox[sock])].type = "logout"

Unused == \A c \in Connection :
            loop[c] \in {"new", "made"} => outbox[c] = <<>> /\ bound[c] = NoUser

LogoutToCome(c) == \E i \in 1..Len(outbox[c]) : outbox[c][i].type = "logout"

OutOfStep ==
  /\ connected
  /\ sock \in up
  /\ bound[sock] # NoUser
  /\ AllErrors(sock)
  /\ ~(confirmed /\ username = bound[sock])

ClearedUp ==
  OutOfStep =>
    \/ LoginToCome(sock)
    \/ LogoutToCome(sock)
    \/ Asking
    \/ loop[sock] = "confirm" /\ username = bound[sock]
    \/ loop[sock] = "refuse" /\ about[sock] = username

-----------------------------------------------------------------------------
(* What a step does to the answers.                                          *)

LEMMA AnswersType ==
  ASSUME ClientTypeOK, NEW c \in Connection
  PROVE  Answers(c) \in Seq(Frame)
  BY ConcatProperties DEF ClientTypeOK, Answers

LEMMA ReceiveKeepsAnswers ==
  ASSUME ClientTypeOK, NEW c \in Connection, NEW n \in 1..MaxRequests,
         Receive(c, n)
  PROVE  \A d \in Connection : Answers(d)' = Answers(d)
<1>1. /\ frames[c] = <<>>
      /\ inbox[c] \in Seq(Frame)
      /\ n \in 1..Len(inbox[c])
      /\ frames' = [frames EXCEPT ![c] = SubSeq(inbox[c], 1, n)]
      /\ inbox' = [inbox EXCEPT ![c] = SubSeq(@, n + 1, Len(@))]
  BY DEF Receive, Go, ClientTypeOK
<1>2. SubSeq(inbox[c], 1, n) \o SubSeq(inbox[c], n + 1, Len(inbox[c])) = inbox[c]
  <2>1. /\ Len(inbox[c]) \in Nat
        /\ 1 \in 1..(Len(inbox[c]) + 1)
        /\ n \in (1 - 1)..Len(inbox[c])
        /\ Len(inbox[c]) \in n..Len(inbox[c])
    BY <1>1, LenProperties
  <2>2. QED
    BY <1>1, <2>1, ConcatAdjacentSubSeq, SubSeqFull
<1>3. <<>> \o inbox[c] = inbox[c]
  BY <1>1, ConcatEmptySeq
<1>4. frames \in [Connection -> Seq(Frame)] /\ inbox \in [Connection -> Seq(Frame)]
  BY DEF ClientTypeOK
<1>5. QED
  BY <1>1, <1>2, <1>3, <1>4 DEF Answers

LEMMA TakesFirst ==
  ASSUME ClientTypeOK, NEW c \in Connection, NEW k, NEW to, Take(c, k, to)
  PROVE  /\ Answers(c) # <<>>
         /\ Head(Answers(c)) = Head(frames[c])
         /\ Answers(c)' = Tail(Answers(c))
         /\ \A d \in Connection : d # c => Answers(d)' = Answers(d)
<1> DEFINE f == frames[c]
           b == inbox[c]
<1>1. /\ f \in Seq(Frame) /\ b \in Seq(Frame)
      /\ f # <<>>
      /\ frames' = [frames EXCEPT ![c] = Tail(f)]
      /\ inbox' = inbox
      /\ frames \in [Connection -> Seq(Frame)]
  BY DEF Take, ClientTypeOK
<1>2. Answers(c)' = Tail(f) \o b /\ Answers(c) = f \o b
  BY <1>1 DEF Answers
<1> HIDE DEF f, b
<1>3. /\ Tail(f) \in Seq(Frame) /\ Len(Tail(f)) = Len(f) - 1
      /\ \A i \in 1..Len(Tail(f)) : Tail(f)[i] = f[i + 1]
      /\ Len(f) \in Nat \ {0} /\ Len(b) \in Nat
  BY <1>1, HeadTailProperties, LenProperties, EmptySeq
<1>4. /\ f \o b \in Seq(Frame) /\ Len(f \o b) = Len(f) + Len(b)
      /\ \A i \in 1..(Len(f) + Len(b)) :
           (f \o b)[i] = IF i <= Len(f) THEN f[i] ELSE b[i - Len(f)]
  BY <1>1, ConcatProperties
<1>5. /\ Tail(f) \o b \in Seq(Frame)
      /\ Len(Tail(f) \o b) = Len(Tail(f)) + Len(b)
      /\ \A i \in 1..(Len(Tail(f)) + Len(b)) :
           (Tail(f) \o b)[i] = IF i <= Len(Tail(f)) THEN Tail(f)[i]
                                                    ELSE b[i - Len(Tail(f))]
  BY <1>1, <1>3, ConcatProperties
<1>6. f \o b # <<>>
  BY <1>3, <1>4, EmptySeq
<1>7. /\ Tail(f \o b) \in Seq(Frame) /\ Len(Tail(f \o b)) = Len(f \o b) - 1
      /\ \A i \in 1..Len(Tail(f \o b)) : Tail(f \o b)[i] = (f \o b)[i + 1]
  BY <1>4, <1>6, HeadTailProperties
<1>8. Tail(f) \o b = Tail(f \o b)
  <2>1. Len(Tail(f) \o b) = Len(Tail(f \o b))
    BY <1>3, <1>4, <1>5, <1>7
  <2>2. ASSUME NEW i \in 1..Len(Tail(f) \o b)
        PROVE  (Tail(f) \o b)[i] = Tail(f \o b)[i]
    <3>1. CASE i <= Len(Tail(f))
      BY <1>3, <1>4, <1>5, <1>7, <3>1
    <3>2. CASE i > Len(Tail(f))
      <4>1. i - Len(Tail(f)) = (i + 1) - Len(f)
        BY <1>3
      <4>2. QED
        BY <1>3, <1>4, <1>5, <1>7, <3>2, <4>1
    <3>3. QED
      BY <1>3, <3>1, <3>2
  <2>3. QED
    BY <1>5, <1>7, <2>1, <2>2, SeqEqual
<1>9. Head(f \o b) = Head(f)
  BY <1>3, <1>4
<1>10. \A d \in Connection : d # c => Answers(d)' = Answers(d)
  BY <1>1 DEF Answers
<1>11. QED
  BY <1>2, <1>6, <1>8, <1>9, <1>10 DEF f

\* What the server does with the request at the head of outbox[c].
Response(c, x) ==
  LET request == Head(outbox[c]) IN
    \/ x = request /\ x.type = "login" /\ bound'[c] = x.name
    \/ /\ request.type = "login"
       /\ x = [request EXCEPT !.type = "error"]
       /\ bound'[c] = bound[c]
    \/ /\ request.type = "logout"
       /\ x = [request EXCEPT !.name = bound[c]]
       /\ bound'[c] = NoUser

LEMMA AnswerAddsOne ==
  ASSUME ClientTypeOK, NEW c \in Connection, Answer(c)
  PROVE  \E x \in Frame :
           /\ Response(c, x)
           /\ Answers(c)' = Append(Answers(c), x)
           /\ \A d \in Connection : d # c =>
                Answers(d)' = Answers(d) /\ bound'[d] = bound[d]
<1> DEFINE request == Head(outbox[c])
<1>1. /\ request \in Frame
      /\ frames \in [Connection -> Seq(Frame)]
      /\ inbox \in [Connection -> Seq(Frame)]
      /\ bound \in [Connection -> Name]
      /\ UNCHANGED frames
  BY QueueTypes DEF Answer, ClientTypeOK, threads
<1>2. /\ request.name \in Name
      /\ [request EXCEPT !.type = "error"] \in Frame
      /\ [request EXCEPT !.name = bound[c]] \in Frame
  BY <1>1 DEF Frame
<1>3. PICK x \in Frame : Response(c, x) /\ inbox' = [inbox EXCEPT ![c] = Append(@, x)]
                         /\ \A d \in Connection : d # c => bound'[d] = bound[d]
  <2>1. CASE /\ request.type = "login"
             /\ inbox' = [inbox EXCEPT ![c] = Append(@, request)]
             /\ bound' = [bound EXCEPT ![c] = request.name]
    BY <1>1, <1>2, <2>1 DEF Response
  <2>2. CASE /\ request.type = "login"
             /\ inbox' = [inbox EXCEPT ![c] =
                            Append(@, [request EXCEPT !.type = "error"])]
             /\ UNCHANGED bound
    BY <1>1, <1>2, <2>2 DEF Response
  <2>3. CASE /\ request.type = "logout"
             /\ inbox' = [inbox EXCEPT ![c] =
                            Append(@, [request EXCEPT !.name = bound[c]])]
             /\ bound' = [bound EXCEPT ![c] = NoUser]
    BY <1>1, <1>2, <2>3 DEF Response
  <2>4. QED
    BY <2>1, <2>2, <2>3 DEF Answer
<1>4. frames[c] \o Append(inbox[c], x) = Append(frames[c] \o inbox[c], x)
  <2> DEFINE f == frames[c]
             b == inbox[c]
             one == <<x>>
  <2>1. f \in Seq(Frame) /\ b \in Seq(Frame) /\ one \in Seq(Frame)
    BY <1>1
  <2>2. Append(b, x) = b \o one
    BY <2>1, AppendIsConcat
  <2>3. f \o b \in Seq(Frame)
    BY <2>1, ConcatProperties
  <2>4. Append(f \o b, x) = (f \o b) \o one
    BY <2>3, AppendIsConcat
  <2> HIDE DEF f, b, one
  <2>5. (f \o b) \o one = f \o (b \o one)
    BY <2>1, ConcatAssociative
  <2>6. QED
    BY <2>2, <2>4, <2>5 DEF f, b
<1>5. /\ Answers(c)' = Append(Answers(c), x)
      /\ \A d \in Connection : d # c => Answers(d)' = Answers(d)
  BY <1>1, <1>3, <1>4 DEF Answers
<1>6. QED
  BY <1>3, <1>5

\* A receiver takes an answer from the front, or leaves them all.
LEMMA ReceiverAnswers ==
  ASSUME ClientTypeOK, NEW c \in Connection, Receiver(c)
  PROVE  \/ \A d \in Connection : Answers(d)' = Answers(d)
         \/ HandleLogin(c) \/ HandleLogout(c) \/ HandleError(c)
<1> USE DEF fields, logins, threads, server
<1>1. CASE Confirm(c) \/ CompareLeft(c) \/ CompareRefused(c) \/ Forget(c) \/ Unconfirm(c)
  BY <1>1 DEF Confirm, CompareLeft, CompareRefused, Forget, Unconfirm, Handling,
              Answers
<1>2. CASE ClearFlags(c) \/ ClearSocket(c) \/ SeesStop(c)
  BY <1>2 DEF ClearFlags, ClearSocket, SeesStop, Answers
<1>3. QED
  BY <1>1, <1>2, ReceiveKeepsAnswers DEF Receiver

LEMMA CommandAnswers ==
  ASSUME Commands
  PROVE  /\ \A d \in Connection : Answers(d)' = Answers(d)
         /\ UNCHANGED <<up, bound, about>>
<1> USE DEF Answers, fields, logins, threads, server
<1>1. CASE ReconnectBegins \/ StopReceiver \/ CloseSocket \/ ConnectBegins \/ ConnectFails
  BY <1>1 DEF ReconnectBegins, StopReceiver, CloseSocket, ConnectBegins, ConnectFails
<1>2. CASE \E c \in Connection : SetSocket(c) \/ StartReceiver(c)
  BY <1>2 DEF SetSocket, StartReceiver
<1>3. CASE (\E u \in User : Login(u)) \/ LoginSends \/ Logout \/ LogoutSent
  BY <1>3 DEF Login, LoginSends, Logout, LogoutSent
<1>4. QED
  BY <1>1, <1>2, <1>3 DEF Commands

\* The last answer says who the server has logged in since.
LEMMA AnswerAgrees ==
  ASSUME ClientTypeOK, NEW c \in Connection, Answer(c),
         NEW x \in Frame, Response(c, x)
  PROVE  \/ x.type = "login" /\ bound'[c] = x.name
         \/ x.type = "error" /\ bound'[c] = bound[c]
         \/ x.type = "logout" /\ x.name = bound[c] /\ bound'[c] = NoUser
<1>1. Head(outbox[c]) \in Frame
  BY QueueTypes DEF Answer
<1>2. QED
  BY <1>1 DEF Response, Frame

\* A message more or less among several.
LEMMA AllErrorsAppend ==
  ASSUME NEW q \in Seq(Frame), NEW x \in Frame,
         Errors(Append(q, x), 1, Len(Append(q, x)))
  PROVE  Errors(q, 1, Len(q)) /\ x.type = "error"
<1>1. /\ Len(q) \in Nat /\ Len(Append(q, x)) = Len(q) + 1
      /\ \A i \in 1..Len(q) : Append(q, x)[i] = q[i]
      /\ Append(q, x)[Len(q) + 1] = x
  BY AppendProperties, LenProperties
<1>2. QED
  BY <1>1 DEF Errors

LEMMA AllErrorsTail ==
  ASSUME NEW q \in Seq(Frame), q # <<>>, Head(q).type = "error",
         Errors(Tail(q), 1, Len(Tail(q)))
  PROVE  Errors(q, 1, Len(q))
<1>1. /\ Len(q) \in Nat \ {0} /\ Len(Tail(q)) = Len(q) - 1
      /\ \A i \in 1..Len(Tail(q)) : Tail(q)[i] = q[i + 1]
      /\ Head(q) = q[1]
  BY HeadTailProperties, LenProperties, EmptySeq
<1>2. ASSUME NEW i \in 1..Len(q) PROVE q[i].type = "error"
  <2>1. CASE i = 1
    BY <1>1, <2>1
  <2>2. CASE i > 1
    <3>1. i - 1 \in 1..Len(Tail(q)) /\ (i - 1) + 1 = i
      BY <1>1, <2>2
    <3>2. QED
      BY <1>1, <3>1 DEF Errors
  <2>3. QED
    BY <2>1, <2>2
<1>3. QED
  BY <1>2 DEF Errors

-----------------------------------------------------------------------------
(* The server agrees with its answers, whatever the client does.            *)

LEMMA ServerAgreesStep ==
  ASSUME ClientTypeOK, ServerAgrees, [ClientNext]_clientVars PROVE ServerAgrees'
<1> USE DEF fields, logins, threads, server
<1>1. ASSUME NEW c \in Connection, Answer(c) PROVE ServerAgrees'
  <2>1. PICK x \in Frame :
          /\ Response(c, x)
          /\ Answers(c)' = Append(Answers(c), x)
          /\ \A d \in Connection : d # c => Answers(d)' = Answers(d) /\ bound'[d] = bound[d]
    BY <1>1, AnswerAddsOne
  <2>2. c \in up /\ up' = up /\ up \subseteq Connection
    BY <1>1 DEF Answer, ClientTypeOK
  <2>3. Answers(c) \in Seq(Frame)
    BY AnswersType
  <2>4. Linked(Answers(c), bound[c])
    BY <2>2 DEF ServerAgrees
  <2>5. Linked(Append(Answers(c), x), bound'[c])
    BY <1>1, <2>1, <2>3, <2>4, AnswerAgrees, OneMoreAnswer
  <2>6. QED
    BY <2>1, <2>2, <2>5 DEF ServerAgrees
<1>2. ASSUME NEW c \in Connection, ServerCloses(c) PROVE ServerAgrees'
  <2>1. /\ up' = up \ {c} /\ up \subseteq Connection
        /\ \A d \in Connection : d # c =>
             frames'[d] = frames[d] /\ inbox'[d] = inbox[d] /\ bound'[d] = bound[d]
    BY <1>2 DEF ServerCloses, ClientTypeOK
  <2>2. QED
    BY <2>1 DEF ServerAgrees, Answers
<1>3. ASSUME NEW c \in Connection, NEW k, NEW to, Take(c, k, to) PROVE ServerAgrees'
  <2>1. /\ Answers(c) # <<>>
        /\ Answers(c)' = Tail(Answers(c))
        /\ \A d \in Connection : d # c => Answers(d)' = Answers(d)
    BY <1>3, TakesFirst
  <2>2. Answers(c) \in Seq(Frame)
    BY AnswersType
  <2>3. c \in up => Linked(Tail(Answers(c)), bound[c])
    BY <2>1, <2>2, OneAnswerLess DEF ServerAgrees
  <2>4. up \subseteq Connection /\ UNCHANGED <<up, bound>>
    BY <1>3 DEF ClientTypeOK, Take
  <2>5. QED
    BY <2>1, <2>3, <2>4 DEF ServerAgrees
<1>4. CASE /\ \A d \in Connection : Answers(d)' = Answers(d)
           /\ UNCHANGED <<up, bound>>
  BY <1>4 DEF ServerAgrees, ClientTypeOK
<1>5. ASSUME NEW c \in Connection, Receiver(c) PROVE ServerAgrees'
  <2>1. CASE HandleLogin(c) \/ HandleLogout(c) \/ HandleError(c)
    BY <1>3, <2>1 DEF HandleLogin, HandleLogout, HandleError
  <2>2. CASE \A d \in Connection : Answers(d)' = Answers(d)
    BY <1>4, <1>5, <2>2, ReceiverGoes
  <2>3. QED
    BY <1>5, <2>1, <2>2, ReceiverAnswers
<1>6. CASE UNCHANGED clientVars
  BY <1>4, <1>6 DEF clientVars, Answers
<1>7. QED
  BY <1>1, <1>2, <1>4, <1>5, <1>6, CommandAnswers DEF ClientNext

-----------------------------------------------------------------------------
(* The requests.                                                             *)

LEMMA PendingUniqueStep ==
  ASSUME ClientTypeOK, PendingUnique, [ClientNext]_clientVars
  PROVE  PendingUnique'
<1> USE DEF PendingUnique, fields, logins, threads, server
<1>1. CASE LoginSends
  <2>1. sent' = sent + 1 /\ sent \in Nat /\ pending' = pending \union {<<sent', asked>>}
    BY <1>1, ClientAssumption DEF LoginSends, Request, ClientTypeOK, Id
  <2>2. \A p \in pending : p[1] \in Nat /\ p[1] < sent'
    BY <2>1, ClientAssumption DEF ClientTypeOK, Id
  <2>3. QED
    BY <2>1, <2>2
<1>2. ASSUME sent' \in Nat, sent <= sent', pending' \subseteq pending
      PROVE  PendingUnique'
  <2>1. sent \in Nat /\ \A p \in pending : p[1] \in Nat
    BY ClientAssumption DEF ClientTypeOK, Id
  <2>2. QED
    BY <1>2, <2>1
<1>3. sent \in Nat
  BY ClientAssumption DEF ClientTypeOK, Id
<1>4. CASE Logout
  <2>1. sent' = sent + 1 /\ UNCHANGED pending
    BY <1>4 DEF Logout, Request
  <2>2. QED
    BY <1>2, <1>3, <2>1
<1>5. CASE Commands /\ ~LoginSends /\ ~Logout
  <2>1. UNCHANGED <<sent, pending>>
    BY <1>5 DEF Commands, ReconnectBegins, StopReceiver, CloseSocket, ConnectBegins,
                ConnectFails, SetSocket, StartReceiver, Login, LogoutSent
  <2>2. QED
    BY <1>2, <1>3, <2>1
<1>6. ASSUME NEW c \in Connection, Answer(c) \/ ServerCloses(c) PROVE PendingUnique'
  <2>1. UNCHANGED <<sent, pending>>
    BY <1>6 DEF Answer, ServerCloses
  <2>2. QED
    BY <1>2, <1>3, <2>1
<1>7. ASSUME NEW c \in Connection, Receiver(c) PROVE PendingUnique'
  <2>1. UNCHANGED sent
    BY <1>7, ReceiverGoes
  <2>2. pending' \subseteq pending
    <3>1. CASE HandleLogin(c) \/ HandleError(c)
      BY <3>1 DEF HandleLogin, HandleError, Answered
    <3>2. CASE ~(HandleLogin(c) \/ HandleError(c))
      BY <1>7, <3>2 DEF Receiver, Receive, HandleLogout, Confirm, CompareLeft,
         CompareRefused, Forget, Unconfirm, Handling, ClearFlags, ClearSocket, SeesStop
    <3>3. QED
      BY <3>1, <3>2
  <2>3. QED
    BY <1>2, <1>3, <2>1, <2>2
<1>8. CASE UNCHANGED clientVars
  BY <1>2, <1>3, <1>8 DEF clientVars
<1>9. QED
  BY <1>1, <1>4, <1>5, <1>6, <1>7, <1>8 DEF ClientNext

LEMMA UnusedStep ==
  ASSUME ClientTypeOK, WholeInv, Unused, [ClientNext]_clientVars PROVE Unused'
<1> USE DEF ClientTypeOK, Unused, Go, fields, logins, threads, server
<1>1. ASSUME NEW k, NEW u, Request(k, u), UNCHANGED <<loop, bound>>
      PROVE  Unused'
  <2>1. CanSend => loop[sock] \notin {"new", "made"}
    BY NotAtWork DEF CanSend, WholeInv, ConnectedReads, Reading
  <2>2. QED
    BY <1>1, <2>1 DEF Request
<1>2. CASE Logout \/ LoginSends
  BY <1>1, <1>2 DEF Logout, LoginSends
<1>3. CASE ReconnectBegins \/ StopReceiver \/ CloseSocket \/ ConnectBegins \/ ConnectFails
           \/ LogoutSent \/ \E u \in User : Login(u)
  BY <1>3 DEF ReconnectBegins, StopReceiver, CloseSocket, ConnectBegins, ConnectFails,
              LogoutSent, Login
<1>4. ASSUME NEW c \in Connection, SetSocket(c) \/ StartReceiver(c)
      PROVE  Unused'
  BY <1>4 DEF SetSocket, StartReceiver
<1>5. ASSUME NEW c \in Connection, Answer(c) PROVE Unused'
  <2>1. loop[c] \notin {"new", "made"}
    BY <1>5 DEF Answer
  <2>2. /\ UNCHANGED loop
        /\ \A d \in Connection : d # c => outbox'[d] = outbox[d] /\ bound'[d] = bound[d]
    BY <1>5 DEF Answer
  <2>3. QED
    BY <2>1, <2>2
<1>6. ASSUME NEW c \in Connection, ServerCloses(c) PROVE Unused'
  BY <1>6 DEF ServerCloses
<1>7. ASSUME NEW c \in Connection, Receiver(c) PROVE Unused'
  <2>1. PICK to \in AtWork \union {"clear", "ended"} : loop' = [loop EXCEPT ![c] = to]
    BY <1>7, ReceiverGoes
  <2>2. UNCHANGED <<bound, outbox>> /\ to \notin {"new", "made"}
    BY <1>7, ReceiverGoes, NotAtWork
  <2>3. QED
    BY <2>1, <2>2
<1>8. CASE UNCHANGED clientVars
  BY <1>8 DEF clientVars
<1>9. QED
  BY <1>2, <1>3, <1>4, <1>5, <1>6, <1>7, <1>8 DEF ClientNext, Commands

\* A request sent ends up last in the outbox, and what was there stays.
LEMMA RequestIsSent ==
  ASSUME ClientTypeOK, WholeInv, connected, sock \in up,
         NEW k \in {"login", "logout"}, NEW u \in Name, Request(k, u)
  PROVE  /\ outbox'[sock] # <<>>
         /\ Len(outbox'[sock]) \in 1..Len(outbox'[sock])
         /\ outbox'[sock][Len(outbox'[sock])] = [type |-> k, id |-> sent', name |-> u]
         /\ \A i \in 1..Len(outbox[sock]) :
              i \in 1..Len(outbox'[sock]) /\ outbox'[sock][i] = outbox[sock][i]
<1> DEFINE x == [type |-> k, id |-> sent', name |-> u]
<1>1. x \in Frame
  BY ClientAssumption DEF Request, ClientTypeOK, Id, Frame
<1>2. outbox[sock] \in Seq(Frame) /\ sock \in Connection
  BY DEF ClientTypeOK
<1> HIDE DEF x
<1>3. outbox'[sock] = Append(outbox[sock], x)
  BY DEF x, Request, CanSend, WholeInv, ConnectedReads, ClientTypeOK
<1>4. /\ Len(Append(outbox[sock], x)) = Len(outbox[sock]) + 1
      /\ Append(outbox[sock], x)[Len(outbox[sock]) + 1] = x
      /\ \A i \in 1..Len(outbox[sock]) : Append(outbox[sock], x)[i] = outbox[sock][i]
      /\ Len(outbox[sock]) \in Nat
      /\ Append(outbox[sock], x) # <<>>
  BY <1>1, <1>2, AppendProperties, LenProperties, EmptySeq
<1>5. Len(outbox[sock]) + 1 \in 1..Len(outbox'[sock])
  BY <1>3, <1>4
<1>6. QED
  BY <1>3, <1>4, <1>5 DEF x

-----------------------------------------------------------------------------
(* The receiver of the connection shown.                                     *)

\* What a receiver does while the client stays shown connected is done by the
\* one that reads its socket, and that nobody has told to stop.
LEMMA ReceiverShown ==
  ASSUME ClientTypeOK, WholeInv, NEW c \in Connection, Receiver(c), connected'
  PROVE  /\ connected
         /\ UNCHANGED sock
         /\ c = sock
         /\ loop[c] \in AtWork
         /\ c \notin stopped
         /\ command # "stop"
<1> USE DEF fields, logins, threads, server
<1>1. connected
  <2>1. CASE HandleLogin(c) \/ HandleLogout(c) \/ HandleError(c)
    BY <2>1 DEF HandleLogin, HandleLogout, HandleError, Take
  <2>2. CASE ~(HandleLogin(c) \/ HandleLogout(c) \/ HandleError(c))
    BY <2>2 DEF Receiver, Receive, Confirm, CompareLeft, CompareRefused, Forget,
                Unconfirm, Handling, ClearFlags, ClearSocket, SeesStop
  <2>3. QED
    BY <2>1, <2>2
<1>2. c = sock /\ loop[c] \in AtWork /\ c \notin stopped /\ command # "stop"
  BY <1>1, ReceiverGoes, NotAtWork
     DEF ClientTypeOK, WholeInv, OneReceiver, ConnectedReads, Reading, Alive
<1>3. UNCHANGED sock
  <2>1. CASE HandleLogin(c) \/ HandleLogout(c) \/ HandleError(c)
    BY <2>1 DEF HandleLogin, HandleLogout, HandleError, Take
  <2>2. CASE ~(HandleLogin(c) \/ HandleLogout(c) \/ HandleError(c))
    BY <1>2, <2>2, NotAtWork
       DEF Receiver, Receive, Confirm, CompareLeft, CompareRefused, Forget,
           Unconfirm, Handling, ClearFlags, ClearSocket, SeesStop, Go
  <2>3. QED
    BY <2>1, <2>2
<1>4. QED
  BY <1>1, <1>2, <1>3

\* A login under way stays so while the queues and its id do.
LEMMA LoginStaysToCome ==
  ASSUME NEW c, LoginToCome(c), Answers(c)' = Answers(c), outbox'[c] = outbox[c],
         username' = username, pending \subseteq pending'
  PROVE  LoginToCome(c)'
  BY DEF LoginToCome, InUse

LEMMA LoginAnswered ==
  ASSUME ClientTypeOK, NEW c \in Connection, Answer(c),
         NEW d \in Connection, LoginToCome(d)
  PROVE  LoginToCome(d)'
<1> USE DEF fields, logins, threads, server
<1>1. PICK x \in Frame :
        /\ Response(c, x)
        /\ Answers(c)' = Append(Answers(c), x)
        /\ \A e \in Connection : e # c => Answers(e)' = Answers(e) /\ bound'[e] = bound[e]
  BY AnswerAddsOne
<1>2. /\ UNCHANGED <<username, pending>>
      /\ outbox' = [outbox EXCEPT ![c] = Tail(@)]
      /\ outbox[c] # <<>>
      /\ outbox \in [Connection -> Seq(Frame)]
  BY DEF Answer, ClientTypeOK
<1>3. CASE d # c
  BY <1>1, <1>2, <1>3, LoginStaysToCome
<1>4. CASE d = c
  <2> DEFINE q == Answers(c)
             o == outbox[c]
  <2>1. q \in Seq(Frame) /\ o \in Seq(Frame) /\ o # <<>>
    BY <1>2, AnswersType
  <2>2. Answers(c)' = Append(q, x) /\ outbox'[c] = Tail(o) /\ Response(c, x)
        /\ Head(outbox[c]) = Head(o)
    BY <1>1, <1>2
  <2>3. \/ \E i \in 1..Len(q) : InUse(q[i])
        \/ \E i \in 1..Len(o) : InUse(o[i])
    BY <1>4 DEF LoginToCome
  <2> HIDE DEF q, o
  <2>4. /\ Len(q) \in Nat /\ Len(Append(q, x)) = Len(q) + 1
        /\ \A i \in 1..Len(q) : Append(q, x)[i] = q[i]
        /\ Append(q, x)[Len(q) + 1] = x
    BY <2>1, AppendProperties, LenProperties
  <2>5. /\ Len(o) \in Nat \ {0} /\ Len(Tail(o)) = Len(o) - 1
        /\ \A i \in 1..Len(Tail(o)) : Tail(o)[i] = o[i + 1]
        /\ Head(o) = o[1] /\ Head(o) \in Frame
    BY <2>1, HeadTailProperties, LenProperties, EmptySeq
  <2>6. InUse(o[1]) => InUse(x)
    BY <2>2, <2>5 DEF Response, Frame, InUse
  <2>7. \/ \E i \in 1..Len(Append(q, x)) : InUse(Append(q, x)[i])
        \/ \E i \in 1..Len(Tail(o)) : InUse(Tail(o)[i])
    <3>1. ASSUME NEW i \in 1..Len(q), InUse(q[i])
          PROVE  i \in 1..Len(Append(q, x)) /\ InUse(Append(q, x)[i])
      BY <2>4, <3>1
    <3>2. ASSUME NEW i \in 1..Len(o), InUse(o[i]), i # 1
          PROVE  i - 1 \in 1..Len(Tail(o)) /\ InUse(Tail(o)[i - 1])
      BY <2>5, <3>2
    <3>3. ASSUME InUse(o[1])
          PROVE  Len(q) + 1 \in 1..Len(Append(q, x)) /\ InUse(Append(q, x)[Len(q) + 1])
      BY <2>4, <2>6, <3>3
    <3>4. CASE \E i \in 1..Len(q) : InUse(q[i])
      BY <3>1, <3>4
    <3>5. CASE \E i \in 1..Len(o) : InUse(o[i])
      <4>1. PICK i \in 1..Len(o) : InUse(o[i])
        BY <3>5
      <4>2. CASE i = 1
        BY <3>3, <4>1, <4>2
      <4>3. CASE i # 1
        BY <3>2, <4>1, <4>3
      <4>4. QED
        BY <4>2, <4>3
    <3>6. QED
      BY <2>3, <3>4, <3>5
  <2>8. QED
    BY <1>2, <1>4, <2>2, <2>7 DEF LoginToCome, InUse
<1>5. QED
  BY <1>3, <1>4

\* Whatever is not about the name in use is taken without harm to what is.
LEMMA LoginStillToCome ==
  ASSUME ClientTypeOK, NEW c \in Connection, NEW k, NEW to, Take(c, k, to),
         UNCHANGED username, LoginToCome(c), ~InUse(Head(Answers(c))),
         \A y : InUse(y) => <<y.id, username>> \in pending'
  PROVE  LoginToCome(c)'
<1> DEFINE q == Answers(c)
<1>1. /\ q # <<>> /\ q \in Seq(Frame)
      /\ Answers(c)' = Tail(q)
      /\ UNCHANGED outbox
  BY TakesFirst, AnswersType DEF Take
<1>2. \/ \E i \in 1..Len(q) : InUse(q[i])
      \/ \E i \in 1..Len(outbox[c]) : InUse(outbox[c][i])
  BY DEF LoginToCome
<1>3. ~InUse(Head(q))
  OBVIOUS
<1> HIDE DEF q
<1>4. /\ Len(q) \in Nat \ {0} /\ Len(Tail(q)) = Len(q) - 1
      /\ \A i \in 1..Len(Tail(q)) : Tail(q)[i] = q[i + 1]
      /\ Head(q) = q[1]
  BY <1>1, HeadTailProperties, LenProperties, EmptySeq
<1>5. ASSUME NEW i \in 1..Len(q), InUse(q[i])
      PROVE  i - 1 \in 1..Len(Tail(q)) /\ InUse(Tail(q)[i - 1])
  <2>1. i # 1
    BY <1>3, <1>4, <1>5
  <2>2. i - 1 \in 1..Len(Tail(q)) /\ (i - 1) + 1 = i
    BY <1>4, <2>1
  <2>3. QED
    BY <1>4, <1>5, <2>2
<1>6. \/ \E i \in 1..Len(Tail(q)) : InUse(Tail(q)[i])
      \/ \E i \in 1..Len(outbox[c]) : InUse(outbox[c][i])
  BY <1>2, <1>5
<1>7. \A y : InUse(y) => InUse(y)'
  BY DEF InUse
<1>8. QED
  BY <1>1, <1>6, <1>7 DEF LoginToCome

\* A refusal of the name in use is compared with it, one of another name is not
\* the answer still to come.
LEMMA LoginRefused ==
  ASSUME ClientTypeOK, PendingUnique, NEW c \in Connection, HandleError(c),
         LoginToCome(c)
  PROVE  LoginToCome(c)' \/ (loop'[c] = "refuse" /\ about'[c] = username)
<1> DEFINE x == Head(frames[c])
           failed == {u \in User : <<x.id, u>> \in pending}
<1>1. /\ Answered(x.id) /\ UNCHANGED username
      /\ \/ failed = {} /\ Take(c, "error", After(c, Tail(frames[c])))
         \/ /\ failed # {} /\ Take(c, "error", "refuse")
            /\ \E u \in failed : about' = [about EXCEPT ![c] = u]
  BY DEF HandleError
<1>2. \E to : Take(c, "error", to)
  BY <1>1
<1>3. Head(Answers(c)) = x
  BY <1>2, TakesFirst
<1>4. CASE <<x.id, username>> \in pending
  <2>1. username \in failed /\ \A u \in failed : u = username
    BY <1>4 DEF ClientTypeOK, PendingUnique
  <2>2. loop' = [loop EXCEPT ![c] = "refuse"] /\ about' = [about EXCEPT ![c] = username]
    BY <1>1, <2>1 DEF Take, Go
  <2>3. QED
    BY <2>2 DEF ClientTypeOK
<1>5. CASE <<x.id, username>> \notin pending
  <2>1. ~InUse(x)
    BY <1>5 DEF InUse
  <2>2. \A y : InUse(y) => <<y.id, username>> \in pending'
    BY <1>1, <1>5 DEF InUse, Answered
  <2>3. QED
    BY <1>1, <1>2, <1>3, <2>1, <2>2, LoginStillToCome
<1>6. QED
  BY <1>4, <1>5

-----------------------------------------------------------------------------
(* A login shown is one the server knows.                                    *)

LEMMA ConfirmedCommandStep ==
  ASSUME ClientTypeOK, WholeInv, ConfirmedLeads, Commands
  PROVE  ConfirmedLeads'
<1> USE DEF fields, logins, threads, server
<1>1. CASE ReconnectBegins
  BY <1>1 DEF ReconnectBegins, ConfirmedLeads
<1>2. CASE StopReceiver \/ CloseSocket \/ ConnectBegins \/ ConnectFails
           \/ \E c \in Connection : SetSocket(c)
  <2>1. UNCHANGED <<connected, confirmed>> /\ ~connected
    BY <1>2 DEF StopReceiver, CloseSocket, ConnectBegins, ConnectFails, SetSocket,
                Command, WholeInv, ConnectedReads
  <2>2. QED
    BY <2>1 DEF ConfirmedLeads
<1>3. ASSUME NEW c \in Connection, StartReceiver(c) PROVE ConfirmedLeads'
  <2>1. sock' = c /\ loop'[c] = "recv" /\ ~confirmed'
    BY <1>3 DEF StartReceiver, Command, ClientTypeOK, WholeInv, MadeSocket,
                ConnectedReads, ConfirmedLeads
  <2>2. QED
    BY <2>1 DEF ConfirmedLeads
<1>4. ASSUME NEW u \in User, Login(u) PROVE ConfirmedLeads'
  <2>1. UNCHANGED <<connected, confirmed, sock>> /\ Asking'
    BY <1>4 DEF Login, Command, Asking
  <2>2. QED
    BY <2>1 DEF ConfirmedLeads, Leads
\* What the last step of login and of logout leaves.
<1>5. ASSUME NEW k \in {"login", "logout"}, NEW u \in Name, Request(k, u),
             UNCHANGED <<username, bound>>, pending \subseteq pending',
             connected, sock \in up, UNCHANGED sock,
             StartsWith(Answers(sock), bound[sock], username) \/ LoginToCome(sock)
      PROVE  (StartsWith(Answers(sock), bound[sock], username) \/ LoginToCome(sock))'
  <2>1. sock \in Connection /\ Answers(sock)' = Answers(sock)
    BY <1>5, CommandAnswers DEF ClientTypeOK
  <2>2. \A i \in 1..Len(outbox[sock]) :
          i \in 1..Len(outbox'[sock]) /\ outbox'[sock][i] = outbox[sock][i]
    BY <1>5, RequestIsSent
  <2>3. QED
    BY <1>5, <2>1, <2>2 DEF LoginToCome, InUse
<1>6. CASE LoginSends
  <2>1. /\ ~confirmed' /\ UNCHANGED <<connected, sock, up, username, bound, loop>>
        /\ Request("login", asked) /\ asked \in Name
        /\ pending' = pending \union {<<sent', asked>>}
    BY <1>6 DEF LoginSends, ClientTypeOK
  <2>2. ASSUME connected, sock \in up, loop[sock] = "confirm" PROVE Leads(sock)'
    <3>1. Leads(sock)
      BY <2>2 DEF ConfirmedLeads, Leaving
    <3>2. CASE Asking
      <4>1. outbox'[sock][Len(outbox'[sock])] = [type |-> "login", id |-> sent', name |-> asked]
            /\ Len(outbox'[sock]) \in 1..Len(outbox'[sock])
        BY <2>1, <2>2, RequestIsSent
      <4>2. <<sent', username'>> \in pending'
        BY <2>1, <3>2 DEF Asking
      <4>3. LoginToCome(sock)'
        BY <2>1, <4>1, <4>2 DEF LoginToCome, InUse
      <4>4. QED
        BY <2>1, <4>3 DEF Leads
    <3>3. QED
      BY <1>5, <2>1, <2>2, <3>1, <3>2 DEF Leads
  <2>3. QED
    BY <2>1, <2>2 DEF ConfirmedLeads
<1>7. CASE Logout
  <2>1. /\ UNCHANGED <<connected, confirmed, sock, up, username, bound, loop, about, pending>>
        /\ Request("logout", NoUser) /\ NoUser \in Name
        /\ command = "idle"
    BY <1>7 DEF Logout, Command, Name
  <2>2. ASSUME connected, sock \in up, Leads(sock) PROVE Leads(sock)'
    BY <1>5, <2>1, <2>2 DEF Leads, Asking
  <2>3. QED
    BY <2>1, <2>2 DEF ConfirmedLeads, Leaving
<1>8. CASE LogoutSent
  <2>1. /\ ~confirmed' /\ command = "logout"
        /\ UNCHANGED <<connected, sock, up, username, bound, loop, pending, outbox>>
    BY <1>8 DEF LogoutSent, Command
  <2>2. ASSUME connected, sock \in up, loop[sock] = "confirm" PROVE Leads(sock)'
    <3>1. Leads(sock) /\ ~Asking
      BY <2>1, <2>2 DEF ConfirmedLeads, Leaving, Asking
    <3>2. sock \in Connection /\ Answers(sock)' = Answers(sock)
      BY <2>1, <2>2, CommandAnswers DEF ClientTypeOK
    <3>3. QED
      BY <2>1, <3>1, <3>2, LoginStaysToCome DEF Leads
  <2>3. QED
    BY <2>1, <2>2 DEF ConfirmedLeads
<1>9. QED
  BY <1>1, <1>2, <1>3, <1>4, <1>6, <1>7, <1>8 DEF Commands

LEMMA ConfirmedServerStep ==
  ASSUME ClientTypeOK, WholeInv, ConfirmedLeads, NEW c \in Connection,
         Answer(c) \/ ServerCloses(c)
  PROVE  ConfirmedLeads'
<1> USE DEF fields, logins, threads, server
<1>1. UNCHANGED <<connected, confirmed, username, sock, loop, about, pending, command, asked>>
  BY DEF Answer, ServerCloses
<1>2. ASSUME connected, sock \in up', Leads(sock) PROVE Leads(sock)'
  <2>1. sock \in Connection /\ sock \in up
    BY <1>2 DEF ClientTypeOK, Answer, ServerCloses
  <2>2. CASE Asking
    BY <1>1, <2>2 DEF Asking, Leads
  <2>3. CASE Answer(c) /\ LoginToCome(sock)
    BY <1>1, <2>1, <2>3, LoginAnswered DEF Leads
  <2>4. CASE Answer(c) /\ StartsWith(Answers(sock), bound[sock], username)
    <3>1. PICK x \in Frame :
            /\ Response(c, x)
            /\ Answers(c)' = Append(Answers(c), x)
            /\ \A d \in Connection : d # c => Answers(d)' = Answers(d) /\ bound'[d] = bound[d]
      BY <2>4, AnswerAddsOne
    <3>2. CASE c = sock
      <4>1. Answers(c) \in Seq(Frame)
        BY AnswersType
      <4>2. StartsWith(Append(Answers(c), x), bound'[c], username)
        BY <2>4, <3>1, <3>2, <4>1, AnswerAgrees, OneMoreAnswer
      <4>3. QED
        BY <1>1, <3>1, <3>2, <4>2 DEF Leads
    <3>3. CASE c # sock
      BY <1>1, <2>1, <2>4, <3>1, <3>3 DEF Leads
    <3>4. QED
      BY <3>2, <3>3
  <2>5. CASE ServerCloses(c)
    <3>1. sock # c
      BY <1>2, <2>5 DEF ServerCloses
    <3>2. Answers(sock)' = Answers(sock) /\ bound'[sock] = bound[sock] /\ UNCHANGED outbox
      BY <2>1, <2>5, <3>1 DEF ServerCloses, Answers, ClientTypeOK
    <3>3. QED
      BY <1>1, <1>2, <3>2, LoginStaysToCome DEF Leads, Asking
  <2>6. QED
    BY <1>2, <2>2, <2>3, <2>4, <2>5 DEF Leads
<1>3. sock \in up' => sock \in up
  BY DEF Answer, ServerCloses
<1>4. QED
  BY <1>1, <1>2, <1>3 DEF ConfirmedLeads, Leaving

LEMMA ConfirmedReceiverStep ==
  ASSUME ClientTypeOK, WholeInv, PendingUnique, ServerAgrees, ConfirmedLeads,
         NEW c \in Connection, Receiver(c), "late" \notin excuses'
  PROVE  ConfirmedLeads'
<1> USE DEF fields, logins, threads, server
<1>1. UNCHANGED <<up, bound, outbox, command, asked>>
  BY ReceiverGoes
<1>2. confirmed' => connected'
  <2>1. CASE Confirm(c)
    <3>1. c \notin stopped /\ command # "stop" /\ Reading(c) /\ UNCHANGED connected
      BY <2>1 DEF Confirm, Handling, Go, Reading, AtWork
    <3>2. QED
      BY <3>1 DEF WholeInv, ReaderIsShown
  <2>2. CASE ClearFlags(c)
    BY <2>2 DEF ClearFlags
  <2>3. CASE HandleLogin(c) \/ HandleLogout(c) \/ HandleError(c)
    BY <2>3 DEF HandleLogin, HandleLogout, HandleError, Take, ConfirmedLeads
  <2>4. CASE \/ \E n \in 1..MaxRequests : Receive(c, n)
             \/ CompareLeft(c) \/ CompareRefused(c) \/ Forget(c) \/ Unconfirm(c)
             \/ ClearSocket(c) \/ SeesStop(c)
    BY <2>4 DEF Receive, CompareLeft, CompareRefused, Forget, Unconfirm, Handling,
                ClearSocket, SeesStop, ConfirmedLeads
  <2>5. QED
    BY <2>1, <2>2, <2>3, <2>4 DEF Receiver
<1> SUFFICES ASSUME connected', sock' \in up', confirmed' \/ loop'[sock'] = "confirm"
             PROVE  (Leaving(sock) \/ Leads(sock))'
  BY <1>2 DEF ConfirmedLeads
<1>3. /\ connected /\ UNCHANGED sock /\ c = sock /\ c \in up
      /\ loop[c] \in AtWork /\ c \notin stopped
  BY <1>1, ReceiverShown
<1>4. /\ loop \in [Connection -> AtWork \union {"new", "made", "clear", "ended"}]
      /\ about \in [Connection -> Name]
  BY DEF ClientTypeOK
<1>5. confirmed \/ loop[c] = "confirm" => Leaving(c) \/ Leads(c)
  BY <1>3 DEF ConfirmedLeads
<1>6. ASSUME Leads(c), Answers(c)' = Answers(c), UNCHANGED <<username, pending>>
      PROVE  Leads(c)'
  BY <1>1, <1>6, LoginStaysToCome DEF Leads, Asking
<1>7. CASE \E n \in 1..MaxRequests : Receive(c, n)
  <2>1. /\ UNCHANGED <<confirmed, username, pending>>
        /\ loop[c] = "recv" /\ loop'[c] = "handle"
    BY <1>4, <1>7 DEF Receive, Go
  <2>2. Answers(c)' = Answers(c)
    BY <1>7, ReceiveKeepsAnswers
  <2>3. QED
    BY <1>3, <1>5, <1>6, <2>1, <2>2 DEF Leaving
<1>8. CASE Confirm(c)
  <2>1. UNCHANGED <<username, pending, frames, inbox>> /\ loop[c] = "confirm"
    BY <1>8 DEF Confirm, Handling, Go
  <2>2. QED
    BY <1>3, <1>5, <1>6, <2>1 DEF Leaving, Answers
<1>9. CASE CompareLeft(c) \/ CompareRefused(c)
  <2>1. /\ UNCHANGED <<confirmed, username, pending, frames, inbox>>
        /\ loop[c] \in {"leave", "refuse"}
        /\ loop'[c] = IF about[c] = username THEN "forget" ELSE After(c, frames[c])
    BY <1>4, <1>9 DEF CompareLeft, CompareRefused, Handling, Go
  <2>2. CASE about[c] = username
    BY <1>3, <2>1, <2>2 DEF Leaving
  <2>3. CASE about[c] # username
    <3>1. confirmed /\ ~Leaving(c)
      BY <1>3, <2>1, <2>3 DEF After, Leaving
    <3>2. QED
      BY <1>3, <1>5, <1>6, <2>1, <3>1 DEF Answers
  <2>4. QED
    BY <2>2, <2>3
<1>10. CASE Forget(c)
  BY <1>3, <1>4, <1>10 DEF Forget, Go, Leaving
<1>11. CASE Unconfirm(c)
  BY <1>3, <1>4, <1>11 DEF Unconfirm, Go, After
<1>12. CASE ClearFlags(c)
  BY <1>12 DEF ClearFlags
<1>13. CASE ClearSocket(c) \/ SeesStop(c)
  BY <1>3, <1>13, NotAtWork DEF ClearSocket, SeesStop, Go
<1>14. ASSUME NEW k, NEW to, Take(c, k, to)
       PROVE  /\ Answers(c) # <<>> /\ Answers(c) \in Seq(Frame)
              /\ Head(Answers(c)) = Head(frames[c])
              /\ Head(frames[c]).type = k
              /\ Answers(c)' = Tail(Answers(c))
              /\ Linked(Answers(c), bound[c])
              /\ loop[c] = "handle" /\ loop'[c] = to
              /\ UNCHANGED confirmed
  BY <1>3, <1>4, <1>14, TakesFirst, AnswersType DEF Take, Go, ServerAgrees
<1>15. CASE HandleLogin(c)
  <2>1. Take(c, "login", "confirm") /\ username' = Head(frames[c]).name
    BY <1>15 DEF HandleLogin
  <2>2. StartsWith(Tail(Answers(c)), bound[c], NameAfter(Head(Answers(c))))
    BY <1>14, <2>1, OneAnswerLess
  <2>3. NameAfter(Head(Answers(c))) = username'
    BY <1>14, <2>1 DEF NameAfter
  <2>4. QED
    BY <1>1, <1>3, <1>14, <2>1, <2>2, <2>3 DEF Leads
<1>16. CASE HandleLogout(c)
  <2> DEFINE x == Head(frames[c])
  <2>1. /\ Take(c, "logout", "leave") /\ UNCHANGED <<username, pending>>
        /\ about' = [about EXCEPT ![c] = IF x.name = NoUser THEN username ELSE x.name]
    BY <1>16 DEF HandleLogout
  <2>2. Leads(c)
    BY <1>3, <1>5, <1>14, <2>1 DEF Leaving
  <2>3. CASE Asking
    BY <1>1, <1>3, <2>1, <2>3 DEF Leads, Asking
  <2>4. CASE StartsWith(Answers(c), bound[c], username)
    <3>1. x.name = username
      BY <1>14, <2>1, <2>4, OneAnswerLess
    <3>2. loop'[c] = "leave" /\ about'[c] = username'
      BY <1>4, <1>14, <2>1, <3>1
    <3>3. QED
      BY <1>3, <3>2 DEF Leaving
  <2>5. CASE LoginToCome(c)
    <3>1. ~InUse(Head(Answers(c)))
      BY <1>14, <2>1 DEF InUse
    <3>2. LoginToCome(c)'
      BY <2>1, <2>5, <3>1, LoginStillToCome DEF InUse
    <3>3. QED
      BY <1>3, <3>2 DEF Leads
  <2>6. QED
    BY <2>2, <2>3, <2>4, <2>5 DEF Leads
<1>17. CASE HandleError(c)
  <2>1. UNCHANGED username /\ \E to : Take(c, "error", to)
    BY <1>17 DEF HandleError
  <2>2. Leads(c)
    <3>1. loop'[c] # "confirm" /\ loop[c] = "handle"
      BY <1>14, <1>17 DEF HandleError, After
    <3>2. QED
      BY <1>3, <1>5, <1>14, <2>1, <3>1 DEF Leaving
  <2>3. CASE Asking
    BY <1>1, <1>3, <2>1, <2>3 DEF Leads, Asking
  <2>4. CASE StartsWith(Answers(c), bound[c], username)
    <3>1. StartsWith(Tail(Answers(c)), bound[c], username)
      BY <1>14, <2>1, <2>4, OneAnswerLess
    <3>2. QED
      BY <1>1, <1>3, <1>14, <2>1, <3>1 DEF Leads
  <2>5. CASE LoginToCome(c)
    BY <1>3, <1>17, <2>1, <2>5, LoginRefused DEF Leads, Leaving
  <2>6. QED
    BY <2>2, <2>3, <2>4, <2>5 DEF Leads
<1>18. QED
  BY <1>7, <1>8, <1>9, <1>10, <1>11, <1>12, <1>13, <1>15, <1>16, <1>17 DEF Receiver

LEMMA ConfirmedStep ==
  ASSUME ClientTypeOK, WholeInv, PendingUnique, ServerAgrees, ConfirmedLeads,
         [ClientNext]_clientVars, "late" \notin excuses'
  PROVE  ConfirmedLeads'
<1>1. CASE UNCHANGED clientVars
  BY <1>1 DEF clientVars, fields, logins, threads, server, ConfirmedLeads, Leaving,
              Leads, Asking, LoginToCome, InUse, Answers
<1>2. QED
  BY <1>1, ConfirmedCommandStep, ConfirmedServerStep, ConfirmedReceiverStep
     DEF ClientNext

-----------------------------------------------------------------------------
(* Who is logged in is shown, or something still to come will show it.       *)

LEMMA SettledStep ==
  ASSUME ClientTypeOK, ServerAgrees, Settled, [ClientNext]_clientVars,
         "refused" \notin excuses'
  PROVE  Settled'
<1> USE DEF fields, logins, threads, server
<1> DEFINE Gone == {"leave", "forget", "unconfirm"}
<1>1. /\ up \subseteq Connection /\ bound \in [Connection -> Name]
      /\ loop \in [Connection -> AtWork \union {"new", "made", "clear", "ended"}]
  BY DEF ClientTypeOK
<1> SUFFICES ASSUME NEW d \in up', loop'[d] \in Gone, AllErrors(d)'
             PROVE  bound'[d] = NoUser
  BY DEF Settled
<1>2. d \in Connection
  <2>1. up' \subseteq Connection
    BY ClientTypesStep DEF ClientTypeOK
  <2>2. QED
    BY <2>1
<1>3. ASSUME d \in up, loop[d] \in Gone, Answers(d)' = Answers(d), bound'[d] = bound[d]
      PROVE  bound'[d] = NoUser
  BY <1>3 DEF Settled, AllErrors
<1>4. CASE Commands
  <2>1. Answers(d)' = Answers(d) /\ UNCHANGED <<up, bound>>
    BY <1>2, <1>4, CommandAnswers
  <2>2. loop[d] \in Gone
    <3>1. CASE \E c \in Connection : SetSocket(c) \/ StartReceiver(c)
      BY <1>1, <1>2, <3>1 DEF SetSocket, StartReceiver
    <3>2. CASE ~ \E c \in Connection : SetSocket(c) \/ StartReceiver(c)
      BY <1>4, <3>2 DEF Commands, ReconnectBegins, StopReceiver, CloseSocket,
         ConnectBegins, ConnectFails, Login, LoginSends, Logout, LogoutSent
    <3>3. QED
      BY <3>1, <3>2
  <2>3. QED
    BY <1>3, <2>1, <2>2
<1>5. ASSUME NEW c \in Connection, Answer(c) PROVE bound'[d] = NoUser
  <2>1. PICK x \in Frame :
          /\ Response(c, x)
          /\ Answers(c)' = Append(Answers(c), x)
          /\ \A e \in Connection : e # c => Answers(e)' = Answers(e) /\ bound'[e] = bound[e]
    BY <1>5, AnswerAddsOne
  <2>2. UNCHANGED <<up, loop>>
    BY <1>5 DEF Answer
  <2>3. CASE d = c
    <3>1. Errors(Answers(c), 1, Len(Answers(c))) /\ x.type = "error"
      BY <2>1, <2>3, AnswersType, AllErrorsAppend DEF AllErrors
    <3>2. bound'[c] = bound[c]
      BY <1>5, <2>1, <3>1, AnswerAgrees
    <3>3. QED
      BY <2>2, <2>3, <3>1, <3>2 DEF Settled, AllErrors
  <2>4. CASE d # c
    BY <1>2, <1>3, <2>1, <2>2, <2>4
  <2>5. QED
    BY <2>3, <2>4
<1>6. ASSUME NEW c \in Connection, ServerCloses(c) PROVE bound'[d] = NoUser
  <2>1. /\ d \in up /\ d # c /\ UNCHANGED <<loop, frames>>
        /\ inbox'[d] = inbox[d] /\ bound'[d] = bound[d]
    BY <1>1, <1>2, <1>6 DEF ServerCloses, ClientTypeOK
  <2>2. QED
    BY <1>3, <2>1 DEF Answers
<1>7. ASSUME NEW c \in Connection, Receiver(c) PROVE bound'[d] = NoUser
  <2>1. UNCHANGED <<up, bound>>
    BY <1>7, ReceiverGoes
  <2>2. CASE d # c
    <3>1. loop'[d] = loop[d]
      BY <1>1, <1>2, <1>7, <2>2, ReceiverGoes
    <3>2. Answers(d)' = Answers(d)
      BY <1>2, <1>7, <2>2, ReceiverAnswers, TakesFirst
         DEF HandleLogin, HandleLogout, HandleError
    <3>3. QED
      BY <1>3, <2>1, <3>1, <3>2
  <2>3. CASE d = c /\ HandleLogout(c)
    <3>1. Take(c, "logout", "leave")
      BY <2>3 DEF HandleLogout
    <3>2. /\ Answers(c) # <<>> /\ Answers(c) \in Seq(Frame)
          /\ Head(Answers(c)).type = "logout"
          /\ Answers(c)' = Tail(Answers(c))
      BY <3>1, TakesFirst, AnswersType DEF Take
    <3>3. StartsWith(Tail(Answers(c)), bound[c], NoUser)
      BY <2>1, <2>3, <3>2, OneAnswerLess DEF ServerAgrees, NameAfter
    <3>4. Tail(Answers(c)) \in Seq(Frame)
      BY <3>2, HeadTailProperties
    <3>5. QED
      BY <2>1, <2>3, <3>2, <3>3, <3>4, NothingButErrors DEF AllErrors
  <2>4. CASE d = c /\ (CompareLeft(c) \/ Forget(c))
    BY <1>3, <2>1, <2>4 DEF CompareLeft, Forget, Go, Handling, Answers
  <2>5. CASE d = c /\ CompareRefused(c)
    <3>1. loop'[c] = "forget" => about[c] = username
      BY <1>1, <2>5 DEF CompareRefused, Go, After
    <3>2. loop'[c] = "forget"
      BY <1>1, <2>5 DEF CompareRefused, Go, After
    <3>3. bound[c] = NoUser
      BY <2>5, <3>1, <3>2 DEF CompareRefused, Refuse
    <3>4. QED
      BY <2>1, <2>5, <3>3
  <2>6. CASE d = c /\ ~(HandleLogout(c) \/ CompareLeft(c) \/ Forget(c) \/ CompareRefused(c))
    <3>1. loop'[c] \in {"handle", "confirm", "refuse", "recv", "ended", "clear"}
      BY <1>1, <1>7, <2>6
         DEF Receiver, Receive, HandleLogin, HandleError, Take, Confirm, Unconfirm,
             ClearFlags, ClearSocket, SeesStop, Go, After
    <3>2. QED
      BY <2>6, <3>1
  <2>7. QED
    BY <2>2, <2>3, <2>4, <2>5, <2>6
<1>8. CASE UNCHANGED clientVars
  BY <1>3, <1>8 DEF clientVars, Answers
<1>9. QED
  BY <1>4, <1>5, <1>6, <1>7, <1>8 DEF ClientNext

LEMMA LogoutOnItsWayStep ==
  ASSUME ClientTypeOK, WholeInv, LogoutOnItsWay, [ClientNext]_clientVars
  PROVE  LogoutOnItsWay'
<1> USE DEF fields, logins, threads, server
<1> SUFFICES ASSUME command' = "logout", connected', sock' \in up'
             PROVE  \/ outbox'[sock'] = <<>> /\ bound'[sock'] = NoUser
                    \/ /\ outbox'[sock'] # <<>>
                       /\ outbox'[sock'][Len(outbox'[sock'])].type = "logout"
  BY DEF LogoutOnItsWay
<1>1. CASE Commands
  <2>1. Logout /\ command = "idle"
    BY <1>1 DEF Commands, Command, ReconnectBegins, StopReceiver, CloseSocket,
       ConnectBegins, ConnectFails, SetSocket, StartReceiver, Login, LoginSends,
       Logout, LogoutSent
  <2>2. /\ Request("logout", NoUser) /\ NoUser \in Name
        /\ UNCHANGED <<connected, sock, up>>
    BY <2>1 DEF Logout, Name
  <2>3. connected /\ sock \in up
    BY <2>2
  <2>4. /\ outbox'[sock] # <<>>
        /\ outbox'[sock][Len(outbox'[sock])]
             = [type |-> "logout", id |-> sent', name |-> NoUser]
    BY <2>2, <2>3, RequestIsSent
  <2>5. QED
    BY <2>2, <2>4
<1>2. ASSUME UNCHANGED <<command, connected, sock>>, sock \in up,
             outbox'[sock] = outbox[sock], bound'[sock] = bound[sock]
      PROVE  \/ outbox'[sock'] = <<>> /\ bound'[sock'] = NoUser
             \/ /\ outbox'[sock'] # <<>>
                /\ outbox'[sock'][Len(outbox'[sock'])].type = "logout"
  BY <1>2 DEF LogoutOnItsWay
<1>3. ASSUME NEW c \in Connection, Answer(c)
      PROVE  \/ outbox'[sock'] = <<>> /\ bound'[sock'] = NoUser
             \/ /\ outbox'[sock'] # <<>>
                /\ outbox'[sock'][Len(outbox'[sock'])].type = "logout"
  <2>1. PICK x \in Frame :
          /\ Response(c, x)
          /\ \A d \in Connection : d # c => bound'[d] = bound[d]
    BY <1>3, AnswerAddsOne
  <2>2. /\ UNCHANGED <<command, connected, sock, up>>
        /\ outbox' = [outbox EXCEPT ![c] = Tail(@)]
        /\ outbox[c] # <<>>
        /\ outbox \in [Connection -> Seq(Frame)]
        /\ sock \in Connection
    BY <1>3 DEF Answer, ClientTypeOK
  <2>3. CASE sock # c
    BY <1>2, <2>1, <2>2, <2>3
  <2>4. CASE sock = c
    <3> DEFINE o == outbox[c]
    <3>1. o \in Seq(Frame) /\ o # <<>> /\ outbox'[c] = Tail(o) /\ Head(outbox[c]) = Head(o)
      BY <2>2
    <3>2. o[Len(o)].type = "logout"
      BY <2>2, <2>4 DEF LogoutOnItsWay
    <3> HIDE DEF o
    <3>3. /\ Len(o) \in Nat \ {0} /\ Len(Tail(o)) = Len(o) - 1
          /\ \A i \in 1..Len(Tail(o)) : Tail(o)[i] = o[i + 1]
          /\ Head(o) = o[1] /\ Tail(o) \in Seq(Frame)
      BY <3>1, HeadTailProperties, LenProperties, EmptySeq
    <3>4. CASE Len(o) = 1
      <4>1. Tail(o) = <<>>
        <5>1. Len(Tail(o)) = 0 /\ Tail(o) \in Seq(Frame)
          BY <3>3, <3>4
        <5>2. QED
          BY <5>1, EmptySeq
      <4>2. bound'[c] = NoUser
        BY <2>1, <3>1, <3>2, <3>3, <3>4 DEF Response
      <4>3. QED
        BY <2>2, <2>4, <3>1, <4>1, <4>2
    <3>5. CASE Len(o) > 1
      <4>1. Len(Tail(o)) \in 1..Len(Tail(o)) /\ Len(Tail(o)) + 1 = Len(o)
        BY <3>3, <3>5
      <4>2. Tail(o) # <<>>
        <5>1. Len(Tail(o)) # 0 /\ Tail(o) \in Seq(Frame)
          BY <3>3, <3>5
        <5>2. QED
          BY <5>1, EmptySeq
      <4>4. Tail(o)[Len(Tail(o))].type = "logout"
        BY <3>2, <3>3, <4>1
      <4>3. QED
        BY <2>2, <2>4, <3>1, <4>2, <4>4
    <3>6. QED
      BY <3>3, <3>4, <3>5
  <2>5. QED
    BY <2>3, <2>4
<1>4. ASSUME NEW c \in Connection, ServerCloses(c)
      PROVE  \/ outbox'[sock'] = <<>> /\ bound'[sock'] = NoUser
             \/ /\ outbox'[sock'] # <<>>
                /\ outbox'[sock'][Len(outbox'[sock'])].type = "logout"
  <2>1. UNCHANGED <<command, connected, sock, outbox>> /\ sock \in up /\ bound'[sock] = bound[sock]
    BY <1>4 DEF ServerCloses, ClientTypeOK
  <2>2. QED
    BY <1>2, <2>1
<1>5. ASSUME NEW c \in Connection, Receiver(c)
      PROVE  \/ outbox'[sock'] = <<>> /\ bound'[sock'] = NoUser
             \/ /\ outbox'[sock'] # <<>>
                /\ outbox'[sock'][Len(outbox'[sock'])].type = "logout"
  <2>1. UNCHANGED <<command, up, outbox, bound>>
    BY <1>5, ReceiverGoes
  <2>2. connected /\ UNCHANGED sock
    BY <1>5, ReceiverShown
  <2>3. UNCHANGED connected
    BY <2>2
  <2>4. sock \in up
    BY <2>1, <2>2
  <2>5. QED
    BY <1>2, <2>1, <2>2, <2>3, <2>4
<1>6. CASE UNCHANGED clientVars
  BY <1>2, <1>6 DEF clientVars
<1>7. QED
  BY <1>1, <1>3, <1>4, <1>5, <1>6 DEF ClientNext

LEMMA ClearedUpCommandStep ==
  ASSUME ClientTypeOK, WholeInv, Unused, LogoutOnItsWay, ClearedUp, Commands,
         "undone" \notin excuses'
  PROVE  ClearedUp'
<1> USE DEF fields, logins, threads, server
<1>1. CASE \/ ReconnectBegins \/ StopReceiver \/ CloseSocket \/ ConnectBegins
           \/ ConnectFails \/ \E c \in Connection : SetSocket(c)
  <2>1. ~connected'
    BY <1>1 DEF ReconnectBegins, StopReceiver, CloseSocket, ConnectBegins,
       ConnectFails, SetSocket, Command, WholeInv, ConnectedReads
  <2>2. QED
    BY <2>1 DEF ClearedUp, OutOfStep
<1>2. ASSUME NEW c \in Connection, StartReceiver(c) PROVE ClearedUp'
  <2>1. sock' = c /\ bound'[c] = NoUser
    BY <1>2 DEF StartReceiver, WholeInv, MadeSocket, Unused
  <2>2. QED
    BY <2>1 DEF ClearedUp, OutOfStep
<1>3. ASSUME NEW u \in User, Login(u) PROVE ClearedUp'
  BY <1>3 DEF Login, Command, Asking, ClearedUp
<1>4. CASE LoginSends
  <2> SUFFICES ASSUME OutOfStep'
               PROVE  \/ LoginToCome(sock)'
                      \/ LogoutToCome(sock)'
                      \/ (loop[sock] = "confirm" /\ username = bound[sock])'
                      \/ (loop[sock] = "refuse" /\ about[sock] = username)'
    BY DEF ClearedUp
  <2>1. /\ ~confirmed' /\ Request("login", asked) /\ asked \in Name
        /\ confirmed => username = asked
        /\ pending' = pending \union {<<sent', asked>>}
        /\ UNCHANGED <<connected, sock, up, username, bound, loop, about>>
    BY <1>4 DEF LoginSends, ClientTypeOK
  <2>2. connected /\ sock \in up /\ sock \in Connection
    BY <2>1 DEF OutOfStep, ClientTypeOK
  <2>3. Answers(sock)' = Answers(sock)
    BY <2>1, <2>2, CommandAnswers
  <2>4. /\ Len(outbox'[sock]) \in 1..Len(outbox'[sock])
        /\ outbox'[sock][Len(outbox'[sock])]
             = [type |-> "login", id |-> sent', name |-> asked]
        /\ \A i \in 1..Len(outbox[sock]) :
             i \in 1..Len(outbox'[sock]) /\ outbox'[sock][i] = outbox[sock][i]
    BY <2>1, <2>2, RequestIsSent
  <2>5. CASE username = asked
    <3>1. <<sent', username'>> \in pending'
      BY <2>1, <2>5
    <3>2. LoginToCome(sock)'
      BY <2>1, <2>4, <3>1 DEF LoginToCome, InUse
    <3>3. QED
      BY <3>2
  <2>6. CASE username # asked
    <3>1. OutOfStep /\ ~Asking
      BY <2>1, <2>3, <2>6 DEF OutOfStep, AllErrors, Asking
    <3>2. LoginToCome(sock) => LoginToCome(sock)'
      BY <2>1, <2>3, <2>4 DEF LoginToCome, InUse
    <3>3. LogoutToCome(sock) => LogoutToCome(sock)'
      BY <2>1, <2>4 DEF LogoutToCome
    <3>4. QED
      BY <2>1, <3>1, <3>2, <3>3 DEF ClearedUp
  <2>7. QED
    BY <2>5, <2>6
<1>5. CASE Logout
  <2> SUFFICES ASSUME OutOfStep' PROVE LogoutToCome(sock)'
    BY DEF ClearedUp
  <2>1. /\ connected /\ sock \in up /\ UNCHANGED sock
        /\ Request("logout", NoUser) /\ NoUser \in Name
    BY <1>5 DEF Logout, OutOfStep, Name
  <2>2. /\ Len(outbox'[sock]) \in 1..Len(outbox'[sock])
        /\ outbox'[sock][Len(outbox'[sock])]
             = [type |-> "logout", id |-> sent', name |-> NoUser]
    BY <2>1, RequestIsSent
  <2>3. QED
    BY <2>1, <2>2 DEF LogoutToCome
<1>6. CASE LogoutSent
  <2> SUFFICES ASSUME OutOfStep' PROVE LogoutToCome(sock)'
    BY DEF ClearedUp
  <2>1. UNCHANGED <<connected, sock, up, bound, outbox>> /\ command = "logout"
    BY <1>6 DEF LogoutSent, Command
  <2>2. /\ connected /\ sock \in up /\ bound[sock] # NoUser
        /\ outbox[sock] \in Seq(Frame)
    BY <2>1 DEF OutOfStep, ClientTypeOK
  <2>3. outbox[sock] # <<>> /\ outbox[sock][Len(outbox[sock])].type = "logout"
    BY <2>1, <2>2 DEF LogoutOnItsWay
  <2>4. Len(outbox[sock]) \in 1..Len(outbox[sock])
    BY <2>2, <2>3, EmptySeq, LenProperties
  <2>5. QED
    BY <2>1, <2>3, <2>4 DEF LogoutToCome
<1>7. QED
  BY <1>1, <1>2, <1>3, <1>4, <1>5, <1>6 DEF Commands

LEMMA ClearedUpServerStep ==
  ASSUME ClientTypeOK, ClearedUp, NEW c \in Connection, Answer(c) \/ ServerCloses(c)
  PROVE  ClearedUp'
<1> USE DEF fields, logins, threads, server
<1> SUFFICES ASSUME OutOfStep'
             PROVE  (\/ LoginToCome(sock) \/ LogoutToCome(sock) \/ Asking
                     \/ loop[sock] = "confirm" /\ username = bound[sock]
                     \/ loop[sock] = "refuse" /\ about[sock] = username)'
  BY DEF ClearedUp
<1>1. /\ UNCHANGED <<connected, confirmed, username, sock, pending, loop, about,
                     command, asked>>
      /\ sock \in up /\ sock \in up' /\ sock \in Connection
  BY DEF Answer, ServerCloses, OutOfStep, ClientTypeOK
\* The other connections are no concern.
<1>2. ASSUME Answers(sock)' = Answers(sock), bound'[sock] = bound[sock],
             outbox'[sock] = outbox[sock]
      PROVE  (\/ LoginToCome(sock) \/ LogoutToCome(sock) \/ Asking
              \/ loop[sock] = "confirm" /\ username = bound[sock]
              \/ loop[sock] = "refuse" /\ about[sock] = username)'
  <2>1. OutOfStep
    BY <1>1, <1>2 DEF OutOfStep, AllErrors
  <2>2. QED
    BY <1>1, <1>2, <2>1, LoginStaysToCome DEF ClearedUp, LogoutToCome, Asking
<1>3. CASE ServerCloses(c)
  <2>1. Answers(sock)' = Answers(sock) /\ bound'[sock] = bound[sock] /\ UNCHANGED outbox
    BY <1>1, <1>3 DEF ServerCloses, Answers, ClientTypeOK
  <2>2. QED
    BY <1>2, <2>1
<1>4. CASE Answer(c)
  <2>1. PICK x \in Frame :
          /\ Response(c, x)
          /\ Answers(c)' = Append(Answers(c), x)
          /\ \A d \in Connection : d # c => Answers(d)' = Answers(d) /\ bound'[d] = bound[d]
    BY <1>4, AnswerAddsOne
  <2>2. /\ outbox' = [outbox EXCEPT ![c] = Tail(@)]
        /\ outbox[c] # <<>>
        /\ outbox \in [Connection -> Seq(Frame)]
    BY <1>4 DEF Answer, ClientTypeOK
  <2>3. CASE sock # c
    BY <1>1, <1>2, <2>1, <2>2, <2>3
  \* Only a refusal leaves the queue without a login or a logout.
  <2>4. CASE sock = c
    <3>1. Errors(Answers(c), 1, Len(Answers(c))) /\ x.type = "error"
      BY <1>1, <2>1, <2>4, AnswersType, AllErrorsAppend DEF OutOfStep, AllErrors
    <3>2. bound'[c] = bound[c]
      BY <1>4, <2>1, <3>1, AnswerAgrees
    <3>3. OutOfStep
      BY <1>1, <2>4, <3>1, <3>2 DEF OutOfStep, AllErrors
    <3>4. LogoutToCome(c) => LogoutToCome(c)'
      <4> DEFINE o == outbox[c]
      <4>1. o \in Seq(Frame) /\ o # <<>> /\ outbox'[c] = Tail(o) /\ Head(outbox[c]) = Head(o)
        BY <2>2
      <4>2. Head(o).type # "logout"
        <5>1. Head(o) \in Frame
          BY <1>4, QueueTypes DEF Answer
        <5>2. QED
          BY <2>1, <3>1, <5>1 DEF Response, Frame
      <4> SUFFICES ASSUME NEW i \in 1..Len(o), o[i].type = "logout"
                   PROVE  \E j \in 1..Len(outbox'[c]) : outbox'[c][j].type = "logout"
        BY DEF LogoutToCome
      <4> HIDE DEF o
      <4>3. /\ Len(o) \in Nat \ {0} /\ Len(Tail(o)) = Len(o) - 1
            /\ \A j \in 1..Len(Tail(o)) : Tail(o)[j] = o[j + 1]
            /\ Head(o) = o[1]
        BY <4>1, HeadTailProperties, LenProperties, EmptySeq
      <4>4. i # 1
        BY <4>2, <4>3
      <4>5. i - 1 \in 1..Len(Tail(o)) /\ (i - 1) + 1 = i
        BY <4>3, <4>4
      <4>6. Tail(o)[i - 1].type = "logout"
        BY <4>3, <4>5
      <4>7. QED
        BY <4>1, <4>5, <4>6
    <3>5. QED
      BY <1>1, <1>4, <2>4, <3>2, <3>3, <3>4, LoginAnswered DEF ClearedUp, Asking
  <2>5. QED
    BY <2>3, <2>4
<1>5. QED
  BY <1>3, <1>4

LEMMA ClearedUpReceiverStep ==
  ASSUME ClientTypeOK, WholeInv, PendingUnique, ServerAgrees, Settled, ClearedUp,
         NEW c \in Connection, Receiver(c), "refused" \notin excuses'
  PROVE  ClearedUp'
<1> USE DEF fields, logins, threads, server
<1> SUFFICES ASSUME OutOfStep'
             PROVE  (\/ LoginToCome(sock) \/ LogoutToCome(sock) \/ Asking
                     \/ loop[sock] = "confirm" /\ username = bound[sock]
                     \/ loop[sock] = "refuse" /\ about[sock] = username)'
  BY DEF ClearedUp
<1>1. UNCHANGED <<up, bound, outbox, command, asked>>
  BY ReceiverGoes
<1>2. /\ connected /\ connected' /\ UNCHANGED sock /\ c = sock /\ c \in up
      /\ loop[c] \in AtWork /\ c \notin stopped /\ bound[c] # NoUser
  BY <1>1, ReceiverShown DEF OutOfStep
<1>3. /\ loop \in [Connection -> AtWork \union {"new", "made", "clear", "ended"}]
      /\ about \in [Connection -> Name]
  BY DEF ClientTypeOK
<1>4. /\ AllErrors(c)'
      /\ ~(confirmed' /\ username' = bound[c])
  BY <1>1, <1>2 DEF OutOfStep
\* What does not concern a comparison, leaves it all as it was.
<1>5. ASSUME OutOfStep, Answers(c)' = Answers(c), UNCHANGED <<username, pending>>,
             ~(loop[c] = "confirm" /\ username = bound[c]),
             ~(loop[c] = "refuse" /\ about[c] = username)
      PROVE  (LoginToCome(sock) \/ LogoutToCome(sock) \/ Asking)'
  BY <1>1, <1>2, <1>5, LoginStaysToCome DEF ClearedUp, LogoutToCome, Asking
<1>6. ASSUME Answers(c)' = Answers(c), ~(confirmed /\ username = bound[c])
      PROVE  OutOfStep
  BY <1>2, <1>4, <1>6 DEF OutOfStep, AllErrors
<1>7. CASE \E n \in 1..MaxRequests : Receive(c, n)
  <2>1. UNCHANGED <<confirmed, username, pending>> /\ loop[c] = "recv"
    BY <1>7 DEF Receive, Go
  <2>2. Answers(c)' = Answers(c)
    BY <1>7, ReceiveKeepsAnswers
  <2>3. QED
    BY <1>4, <1>5, <1>6, <2>1, <2>2
<1>8. CASE Confirm(c)
  <2>1. /\ UNCHANGED <<username, pending>> /\ Answers(c)' = Answers(c)
        /\ loop[c] = "confirm" /\ confirmed'
    BY <1>8 DEF Confirm, Handling, Go, Answers
  <2>2. username # bound[c]
    BY <1>4, <2>1
  <2>3. QED
    BY <1>5, <1>6, <2>1, <2>2
<1>9. CASE CompareLeft(c)
  <2>1. /\ UNCHANGED <<confirmed, username, pending>> /\ Answers(c)' = Answers(c)
        /\ loop[c] = "leave"
    BY <1>9 DEF CompareLeft, Handling, Go, Answers
  <2>2. QED
    BY <1>4, <1>5, <1>6, <2>1
<1>10. CASE CompareRefused(c)
  <2>1. /\ UNCHANGED <<confirmed, username, pending>> /\ Answers(c)' = Answers(c)
        /\ loop[c] = "refuse"
    BY <1>10 DEF CompareRefused, Handling, Go, Answers
  <2>2. about[c] # username
    BY <1>2, <1>10 DEF CompareRefused, Refuse
  <2>3. QED
    BY <1>4, <1>5, <1>6, <2>1, <2>2
<1>11. CASE Forget(c) \/ Unconfirm(c)
  <2>1. loop[c] \in {"forget", "unconfirm"} /\ Answers(c)' = Answers(c)
    BY <1>11 DEF Forget, Unconfirm, Handling, Go, Answers
  <2>2. bound[c] = NoUser
    BY <1>2, <1>4, <2>1 DEF Settled, AllErrors
  <2>3. QED
    BY <1>2, <2>2
<1>12. CASE ClearFlags(c)
  BY <1>2, <1>12 DEF ClearFlags
<1>13. CASE ClearSocket(c) \/ SeesStop(c)
  BY <1>2, <1>13, NotAtWork DEF ClearSocket, SeesStop, Go
<1>14. ASSUME NEW k, NEW to, Take(c, k, to)
       PROVE  /\ Answers(c) # <<>> /\ Answers(c) \in Seq(Frame)
              /\ Head(Answers(c)) = Head(frames[c])
              /\ Head(Answers(c)).type = k
              /\ Answers(c)' = Tail(Answers(c))
              /\ Errors(Tail(Answers(c)), 1, Len(Tail(Answers(c))))
              /\ Tail(Answers(c)) \in Seq(Frame)
              /\ Linked(Answers(c), bound[c])
              /\ loop[c] = "handle" /\ loop'[c] = to
              /\ UNCHANGED confirmed
  <2>1. /\ Answers(c) # <<>> /\ Answers(c) \in Seq(Frame)
        /\ Head(Answers(c)) = Head(frames[c])
        /\ Answers(c)' = Tail(Answers(c))
    BY <1>14, TakesFirst, AnswersType
  <2>2. Linked(Answers(c), bound[c]) /\ loop[c] = "handle" /\ loop'[c] = to
        /\ UNCHANGED confirmed /\ Head(frames[c]).type = k
    BY <1>2, <1>3, <1>14 DEF Take, Go, ServerAgrees
  <2>3. Tail(Answers(c)) \in Seq(Frame)
    BY <2>1, HeadTailProperties
  <2>4. QED
    BY <1>4, <2>1, <2>2, <2>3 DEF AllErrors
<1>15. CASE HandleLogin(c)
  <2>1. Take(c, "login", "confirm") /\ username' = Head(frames[c]).name
    BY <1>15 DEF HandleLogin
  <2>2. StartsWith(Tail(Answers(c)), bound[c], NameAfter(Head(Answers(c))))
    BY <1>14, <2>1, OneAnswerLess
  <2>3. bound[c] = username'
    BY <1>14, <2>1, <2>2, NothingButErrors DEF NameAfter
  <2>4. QED
    BY <1>1, <1>2, <1>14, <2>1, <2>3
<1>16. CASE HandleLogout(c)
  <2>1. Take(c, "logout", "leave")
    BY <1>16 DEF HandleLogout
  <2>2. StartsWith(Tail(Answers(c)), bound[c], NameAfter(Head(Answers(c))))
    BY <1>14, <2>1, OneAnswerLess
  <2>3. bound[c] = NoUser
    BY <1>14, <2>1, <2>2, NothingButErrors DEF NameAfter
  <2>4. QED
    BY <1>2, <2>3
<1>17. CASE HandleError(c)
  <2>1. PICK to : Take(c, "error", to)
    BY <1>17 DEF HandleError
  <2>2. UNCHANGED <<username, confirmed>>
    BY <1>14, <1>17, <2>1 DEF HandleError
  <2>3. AllErrors(c)
    BY <1>14, <2>1, AllErrorsTail DEF AllErrors
  <2>4. OutOfStep
    BY <1>2, <1>4, <2>2, <2>3 DEF OutOfStep
  <2>5. LoginToCome(c) \/ LogoutToCome(c) \/ Asking
    BY <1>2, <1>14, <2>1, <2>4 DEF ClearedUp
  <2>6. CASE LoginToCome(c)
    BY <1>2, <1>17, <2>2, <2>6, LoginRefused
  <2>7. CASE LogoutToCome(c) \/ Asking
    BY <1>1, <1>2, <2>2, <2>7 DEF LogoutToCome, Asking
  <2>8. QED
    BY <2>5, <2>6, <2>7
<1>18. QED
  BY <1>7, <1>8, <1>9, <1>10, <1>11, <1>12, <1>13, <1>15, <1>16, <1>17 DEF Receiver

LEMMA ClearedUpStep ==
  ASSUME ClientTypeOK, WholeInv, Unused, PendingUnique, ServerAgrees, Settled,
         LogoutOnItsWay, ClearedUp, [ClientNext]_clientVars,
         excuses' \intersect {"refused", "undone"} = {}
  PROVE  ClearedUp'
<1>1. CASE UNCHANGED clientVars
  BY <1>1 DEF clientVars, fields, logins, threads, server, ClearedUp, OutOfStep,
              LoginToCome, InUse, LogoutToCome, Asking, AllErrors, Answers
<1>2. QED
  BY <1>1, ClearedUpCommandStep, ClearedUpServerStep, ClearedUpReceiverStep
     DEF ClientNext

-----------------------------------------------------------------------------
Without(e) == excuses \intersect e = {}

LoginInv ==
  /\ ClientTypeOK
  /\ StopsStarted
  /\ PendingUnique
  /\ ServerAgrees
  /\ Without({"outlived"}) => WholeInv /\ Unused /\ LogoutOnItsWay
  /\ Without({"outlived", "late"}) => ConfirmedLeads
  /\ Without({"refused"}) => Settled
  /\ Without({"outlived", "refused", "undone"}) => ClearedUp

LEMMA LoginInvInit == ClientInit => LoginInv
<1> SUFFICES ASSUME ClientInit PROVE LoginInv
  OBVIOUS
<1>1. ClientTypeOK /\ StopsStarted /\ WholeInv
  BY ClientTypesInit, WholeInit
<1>2. \A c \in Connection : Answers(c) = <<>>
  <2>1. <<>> \in Seq(Frame)
    BY EmptySeq
  <2>2. QED
    BY <2>1, ConcatEmptySeq DEF ClientInit, Answers
<1>3. ServerAgrees
  BY <1>2, EmptySeq DEF ClientInit, ServerAgrees, Linked
<1>4. Unused /\ LogoutOnItsWay /\ ConfirmedLeads /\ Settled /\ ClearedUp
      /\ PendingUnique
  BY DEF ClientInit, Unused, LogoutOnItsWay, ConfirmedLeads, Settled, ClearedUp,
         OutOfStep, PendingUnique
<1>5. QED
  BY <1>1, <1>3, <1>4 DEF LoginInv

LEMMA LoginInvStep == LoginInv /\ [ClientNext]_clientVars => LoginInv'
<1> SUFFICES ASSUME LoginInv, [ClientNext]_clientVars PROVE LoginInv'
  OBVIOUS
<1>1. ClientTypeOK' /\ StopsStarted' /\ PendingUnique' /\ ServerAgrees'
  BY ClientTypesStep, StopsStartedStep, PendingUniqueStep, ServerAgreesStep
     DEF LoginInv
<1>2. \A e : Without(e)' => Without(e)
  BY ExcusesStay DEF Without
<1>3. ASSUME Without({"outlived"})' PROVE WholeInv' /\ Unused' /\ LogoutOnItsWay'
  <2>1. WholeInv /\ Unused /\ LogoutOnItsWay
    BY <1>2, <1>3 DEF LoginInv
  <2>2. "outlived" \notin excuses'
    BY <1>3 DEF Without
  <2>3. QED
    BY <2>1, <2>2, WholeStep, UnusedStep, LogoutOnItsWayStep DEF LoginInv
<1>4. ASSUME Without({"outlived", "late"})' PROVE ConfirmedLeads'
  <2>1. ConfirmedLeads /\ Without({"outlived", "late"})
    BY <1>2, <1>4 DEF LoginInv
  <2>2. WholeInv /\ "late" \notin excuses'
    BY <1>4, <2>1 DEF LoginInv, Without
  <2>3. QED
    BY <2>1, <2>2, ConfirmedStep DEF LoginInv
<1>5. ASSUME Without({"refused"})' PROVE Settled'
  <2>1. Settled /\ "refused" \notin excuses'
    BY <1>2, <1>5 DEF LoginInv, Without
  <2>2. QED
    BY <2>1, SettledStep DEF LoginInv
<1>6. ASSUME Without({"outlived", "refused", "undone"})' PROVE ClearedUp'
  <2>1. ClearedUp /\ Without({"outlived", "refused", "undone"})
    BY <1>2, <1>6 DEF LoginInv
  <2>2. /\ WholeInv /\ Unused /\ LogoutOnItsWay /\ Settled
        /\ excuses' \intersect {"refused", "undone"} = {}
    BY <1>6, <2>1 DEF LoginInv, Without
  <2>3. QED
    BY <2>1, <2>2, ClearedUpStep DEF LoginInv
<1>7. QED
  BY <1>1, <1>3, <1>4, <1>5, <1>6 DEF LoginInv

LEMMA LoginInvKept == ClientSpec => []LoginInv
  BY LoginInvInit, LoginInvStep, PTL DEF ClientSpec

\* When nothing is going on, the connection shown has nothing left to say.
LEMMA NothingToCome ==
  ASSUME ClientTypeOK, WholeInv, Quiet, connected
  PROVE  /\ sock \in up
         /\ loop[sock] = "recv"
         /\ Answers(sock) = <<>>
         /\ outbox[sock] = <<>>
<1>1. sock \in Connection /\ Reading(sock)
  BY DEF ClientTypeOK, WholeInv, ConnectedReads
<1>2. sock \in Alive
  BY <1>1 DEF Alive, Reading
<1>3. sock \in up /\ loop[sock] = "recv" /\ inbox[sock] = <<>> /\ outbox[sock] = <<>>
  BY <1>2 DEF Quiet
<1>4. frames[sock] = <<>>
  BY <1>1, <1>3 DEF ClientTypeOK
<1>5. <<>> \o <<>> = <<>>
  BY EmptySeq, ConcatEmptySeq
<1>6. QED
  BY <1>3, <1>4, <1>5 DEF Answers

\* A login that /status confirms is the server's, under that name and on the
\* connection shown, unless a connect overtook an earlier receiver or a LOGIN
\* response was handled once disconnect had begun.
THEOREM ConfirmedIsBoundAlways == ClientSpec => []ConfirmedIsBound
<1>1. LoginInv => ConfirmedIsBound
  <2> SUFFICES ASSUME LoginInv, Quiet, confirmed, Without({"outlived", "late"})
               PROVE  connected /\ bound[sock] = username
    BY DEF ConfirmedIsBound, Without
  <2>1. ClientTypeOK /\ WholeInv /\ ConfirmedLeads
    BY DEF LoginInv, Without
  <2>2. connected
    BY <2>1 DEF ConfirmedLeads
  <2>3. /\ sock \in up /\ Answers(sock) = <<>> /\ outbox[sock] = <<>>
        /\ loop[sock] = "recv" /\ command = "idle"
    BY <2>1, <2>2, NothingToCome DEF Quiet
  <2>4. Len(<<>>) = 0
    BY EmptySeq
  <2>5. StartsWith(<<>>, bound[sock], username)
    <3>1. ~Asking /\ ~Leaving(sock) /\ ~LoginToCome(sock)
      BY <2>3, <2>4 DEF Asking, Leaving, LoginToCome
    <3>2. QED
      BY <2>1, <2>2, <2>3, <3>1 DEF ConfirmedLeads, Leads
  <2>6. Errors(<<>>, 1, Len(<<>>))
    BY <2>4 DEF Errors
  <2>7. <<>> \in Seq(Frame)
    BY EmptySeq
  <2>8. QED
    BY <2>2, <2>5, <2>6, <2>7, NothingButErrors
<1>2. QED
  BY <1>1, LoginInvKept, PTL

\* Whoever is logged in at the server over the connection shown is confirmed,
\* unless a connect overtook an earlier receiver, a login was refused on a
\* connection logged in from before, or a LOGIN response was handled between
\* the two assignments of login.
THEOREM BoundIsConfirmedAlways == ClientSpec => []BoundIsConfirmed
<1>1. LoginInv => BoundIsConfirmed
  <2> SUFFICES ASSUME LoginInv, Quiet, connected, bound[sock] # NoUser,
                      Without({"outlived", "refused", "undone"})
               PROVE  confirmed /\ username = bound[sock]
    BY DEF BoundIsConfirmed, Without
  <2>1. ClientTypeOK /\ WholeInv /\ ClearedUp
    BY DEF LoginInv, Without
  <2>2. /\ sock \in up /\ Answers(sock) = <<>> /\ outbox[sock] = <<>>
        /\ loop[sock] = "recv" /\ command = "idle"
    BY <2>1, NothingToCome DEF Quiet
  <2>3. Len(<<>>) = 0
    BY EmptySeq
  <2>4. ~LoginToCome(sock) /\ ~LogoutToCome(sock) /\ ~Asking
    BY <2>2, <2>3 DEF LoginToCome, LogoutToCome, Asking
  <2>5. AllErrors(sock)
    BY <2>2, <2>3 DEF AllErrors, Errors
  <2>6. QED
    BY <2>1, <2>2, <2>4, <2>5 DEF ClearedUp, OutOfStep
<1>2. QED
  BY <1>1, LoginInvKept, PTL
=============================================================================
