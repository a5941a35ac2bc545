----------------------------- MODULE ClientState -----------------------------
(***************************************************************************)
(* What the command-line client believes of its connection: ChatClient and *)
(* its ClientState (client/client.py), shared without a lock by the thread *)
(* that runs the commands (client/ui.py) and the receiver threads          *)
(* (client/receiver.py) of this and of earlier connections.                *)
(*                                                                         *)
(* Of the frames only the answers to logins and logouts are kept: the      *)
(* others leave these fields alone.  Of the server there is what it does   *)
(* on one connection: answer in order, and close.                          *)
(***************************************************************************)
EXTENDS Naturals, Sequences

CONSTANTS
  Connection, \* connections the client may open
  User,
  NoUser, NoConnection,
  MaxRequests \* bound: logins and logouts

ASSUME ClientAssumption ==
  /\ NoUser \notin User
  /\ NoConnection \notin Connection
  /\ MaxRequests \in Nat

VARIABLES
  connected,  \* state.connected
  username,   \* state.username
  confirmed,  \* state.login_confirmed
  sock,       \* self.sock
  receiver,   \* self.receiver
  pending,    \* _pending_login: request_id and name
  asked,      \* the parameter username of the login under way
  sent,       \* logins and logouts so far, the last one's request_id
  command,    \* where the command thread is
  loop,       \* where the receiver thread of each connection is
  about,      \* the name its handler compares with the one in use
  stopped,    \* receivers whose stop event is set
  frames,     \* the messages a receiver has decoded and not yet handled
  shut,       \* connections the client has closed
  up,         \* connections the server has not closed
  outbox,     \* requests on their way
  inbox,      \* answers on their way
  bound,      \* the server's session.username
  excuses     \* history: what may have spoilt the fields

fields  == <<connected, username, confirmed, sock>>
logins  == <<pending, asked, sent>>
threads == <<loop, about, stopped, frames>>
server  == <<up, bound>>

clientVars == <<fields, receiver, logins, command, threads, shut, server,
                outbox, inbox, excuses>>

Name  == User \union {NoUser}
Id    == 0..MaxRequests
\* A receiver at work reads, or is in one of its handlers: "confirm" is the
\* rest of _handle_login_response, "leave" and "refuse" the comparisons of
\* _handle_logout_response and _handle_error, "forget" and "unconfirm" the two
\* assignments they end in.
AtWork == {"recv", "handle", "confirm", "leave", "refuse", "forget", "unconfirm"}

Frame == [type : {"login", "logout", "error"}, id : Id, name : Name]

ClientTypeOK ==
  /\ connected \in BOOLEAN
  /\ username \in Name
  /\ confirmed \in BOOLEAN
  /\ sock \in Connection \union {NoConnection}
  /\ receiver \in Connection \union {NoConnection}
  /\ pending \subseteq Id \X User
  /\ asked \in Name
  /\ sent \in Id
  /\ command \in {"idle", "login", "logout", "stop", "close", "connect", "start"}
  /\ command = "login" <=> asked # NoUser
  /\ loop \in [Connection -> AtWork \union {"new", "made", "clear", "ended"}]
  /\ about \in [Connection -> Name]
  /\ stopped \subseteq Connection
  /\ frames \in [Connection -> Seq(Frame)]
  /\ shut \subseteq Connection
  /\ up \subseteq Connection
  /\ outbox \in [Connection -> Seq(Frame)]
  /\ inbox \in [Connection -> Seq(Frame)]
  /\ bound \in [Connection -> Name]
  /\ excuses \subseteq {"outlived", "late", "refused", "undone"}
  /\ receiver # NoConnection => loop[receiver] \notin {"new", "made"}
  /\ \A c \in Connection : frames[c] # <<>> => loop[c] \in AtWork \ {"recv"}

ClientInit ==
  /\ connected = FALSE
  /\ username = NoUser
  /\ confirmed = FALSE
  /\ sock = NoConnection
  /\ receiver = NoConnection
  /\ pending = {}
  /\ asked = NoUser
  /\ sent = 0
  /\ command = "idle"
  /\ loop = [c \in Connection |-> "new"]
  /\ about = [c \in Connection |-> NoUser]
  /\ stopped = {}
  /\ frames = [c \in Connection |-> <<>>]
  /\ shut = {}
  /\ up = Connection
  /\ outbox = [c \in Connection |-> <<>>]
  /\ inbox = [c \in Connection |-> <<>>]
  /\ bound = [c \in Connection |-> NoUser]
  /\ excuses = {}

-----------------------------------------------------------------------------
(* connect and reconnect.  Quitting, which ends the process, is left out.   *)

Command(from, to) == command = from /\ command' = to

\* Mutant: disconnect leaves the login alone.
ReconnectKeepsLogin ==
  /\ Command("idle", "stop")
  /\ connected' = FALSE
  /\ UNCHANGED <<username, confirmed, sock, receiver, logins, threads, shut,
                 server, outbox, inbox, excuses>>

\* disconnect clears the fields before it tells the receiver to stop ...
ReconnectBegins ==
  /\ Command("idle", "stop")
  /\ connected' = FALSE
  /\ confirmed' = FALSE
  /\ UNCHANGED <<username, sock, receiver, logins, threads, shut, server,
                 outbox, inbox, excuses>>

\* ... and that before it closes the socket.
StopReceiver ==
  /\ Command("stop", "close")
  /\ receiver' = NoConnection
  /\ stopped' = stopped \union ({receiver} \ {NoConnection})
  /\ UNCHANGED <<fields, logins, loop, about, frames, shut, server, outbox,
                 inbox, excuses>>

\* The join that follows has a timeout, so it may return with the receiver
\* still at work.
CloseSocket ==
  /\ Command("close", "connect")
  /\ sock' = NoConnection
  /\ shut' = shut \union ({sock} \ {NoConnection})
  /\ UNCHANGED <<connected, username, confirmed, receiver, logins, threads,
                 server, outbox, inbox, excuses>>

\* connect does nothing while state.connected is set.
ConnectBegins ==
  /\ ~connected
  /\ Command("idle", "connect")
  /\ UNCHANGED <<fields, receiver, logins, threads, shut, server, outbox,
                 inbox, excuses>>

ConnectFails ==
  /\ Command("connect", "idle")
  /\ UNCHANGED <<fields, receiver, logins, threads, shut, server, outbox,
                 inbox, excuses>>

Alive == {c \in Connection : loop[c] \in AtWork \union {"clear"}}

SetSocket(c) ==
  /\ Command("connect", "start")
  /\ loop[c] = "new"
  /\ sock' = c
  /\ loop' = [loop EXCEPT ![c] = "made"]
  /\ excuses' = IF Alive = {} THEN excuses ELSE excuses \union {"outlived"}
  /\ UNCHANGED <<connected, username, confirmed, receiver, logins, about,
                 stopped, frames, shut, server, outbox, inbox>>

\* Mutant: the receiver is not started.
StartNothing(c) ==
  /\ Command("start", "idle")
  /\ loop[c] = "made"
  /\ connected' = TRUE
  /\ receiver' = c
  /\ UNCHANGED <<username, confirmed, sock, logins, threads, shut, server,
                 outbox, inbox, excuses>>

\* The receiver gets the socket connect has made, whatever self.sock is now.
StartReceiver(c) ==
  /\ Command("start", "idle")
  /\ loop[c] = "made"
  /\ connected' = TRUE
  /\ receiver' = c
  /\ loop' = [loop EXCEPT ![c] = "recv"]
  /\ UNCHANGED <<username, confirmed, sock, logins, about, stopped, frames, shut,
                 server, outbox, inbox, excuses>>

-----------------------------------------------------------------------------
(* login and logout.  Writing to a connection that the server has closed    *)
(* may fail or not; it is in vain either way.                               *)

CanSend == connected /\ sock # NoConnection

Request(kind, u) ==
  /\ sent < MaxRequests
  /\ sent' = sent + 1
  /\ outbox' = IF CanSend /\ sock \in up
               THEN [outbox EXCEPT ![sock] =
                       Append(@, [type |-> kind, id |-> sent', name |-> u])]
               ELSE outbox

\* The name is taken first, whether the request can be sent or not ...
Login(u) ==
  /\ Command("idle", "login")
  /\ sent < MaxRequests
  /\ username' = u
  /\ asked' = u
  /\ UNCHANGED <<connected, confirmed, sock, receiver, pending, sent, threads,
                 shut, server, outbox, inbox, excuses>>

\* ... and a LOGIN response handled by now is undone by half.
LoginSends ==
  /\ Command("login", "idle")
  /\ Request("login", asked)
  /\ confirmed' = FALSE
  /\ pending' = pending \union {<<sent', asked>>}
  /\ asked' = NoUser
  /\ excuses' = IF confirmed /\ username # asked THEN excuses \union {"undone"}
                                                ELSE excuses
  /\ UNCHANGED <<connected, username, sock, receiver, threads, shut, server,
                 inbox>>

\* Sending may raise on a connection the server has closed.
Logout ==
  /\ Command("idle", "logout") \/ (sock \notin up /\ Command("idle", "idle"))
  /\ CanSend
  /\ Request("logout", NoUser)
  /\ UNCHANGED <<fields, receiver, pending, asked, threads, shut, server, inbox,
                 excuses>>

LogoutSent ==
  /\ Command("logout", "idle")
  /\ confirmed' = FALSE
  /\ UNCHANGED <<connected, username, sock, receiver, logins, threads, shut,
                 server, outbox, inbox, excuses>>

-----------------------------------------------------------------------------
(* The server.                                                              *)

Answer(c) ==
  /\ c \in up
  /\ outbox[c] # <<>>
  /\ outbox' = [outbox EXCEPT ![c] = Tail(@)]
  /\ LET request == Head(outbox[c]) IN
       \/ /\ request.type = "login"
          /\ inbox' = [inbox EXCEPT ![c] = Append(@, request)]
          /\ bound' = [bound EXCEPT ![c] = request.name]
       \/ /\ request.type = "login"
          /\ inbox' = [inbox EXCEPT ![c] =
                         Append(@, [request EXCEPT !.type = "error"])]
          /\ UNCHANGED bound
       \/ /\ request.type = "logout"
          /\ inbox' = [inbox EXCEPT ![c] =
                         Append(@, [request EXCEPT !.name = bound[c]])]
          /\ bound' = [bound EXCEPT ![c] = NoUser]
  /\ UNCHANGED <<fields, receiver, logins, command, threads, shut, up,
                 excuses>>

\* A kick, a sweep or a stop; what is on its way arrives or is lost.
ServerCloses(c) ==
  /\ c \in up
  /\ loop[c] # "new"
  /\ up' = up \ {c}
  /\ bound' = [bound EXCEPT ![c] = NoUser]
  /\ inbox' = inbox \/ inbox' = [inbox EXCEPT ![c] = <<>>]
  /\ UNCHANGED <<fields, receiver, logins, command, threads, shut, outbox,
                 excuses>>

-----------------------------------------------------------------------------
(* Receiver.run.  The stop event is tested before each recv, not between    *)
(* the messages of a read.                                                  *)

Go(c, from, to) == loop[c] = from /\ loop' = [loop EXCEPT ![c] = to]

Receive(c, n) ==
  /\ Go(c, "recv", "handle")
  /\ c \notin shut
  /\ n \in 1..Len(inbox[c])
  /\ frames' = [frames EXCEPT ![c] = SubSeq(inbox[c], 1, n)]
  /\ inbox' = [inbox EXCEPT ![c] = SubSeq(@, n + 1, Len(@))]
  /\ UNCHANGED <<fields, receiver, logins, command, about, stopped, shut,
                 server, outbox, excuses>>

\* The messages of a read are handled one after the other.
Take(c, kind, to) ==
  /\ Go(c, "handle", to)
  /\ frames[c] # <<>>
  /\ Head(frames[c]).type = kind
  /\ frames' = [frames EXCEPT ![c] = Tail(@)]
  /\ UNCHANGED <<connected, confirmed, sock, receiver, asked, sent, command,
                 stopped, shut, server, outbox, inbox, excuses>>

\* The handler returns, to the next message of the read or to the loop's test.
After(c, rest) == IF rest # <<>> THEN "handle"
                  ELSE IF c \in stopped THEN "ended" ELSE "recv"

Handling == UNCHANGED <<connected, sock, receiver, logins, command, stopped,
                        frames, shut, server, outbox, inbox>>

Compared(c) == about' = [about EXCEPT ![c] = NoUser]

Answered(id) == pending' = {x \in pending : x[1] # id}

HandleLogin(c) ==
  /\ Take(c, "login", "confirm")
  /\ Answered(Head(frames[c]).id)
  /\ username' = Head(frames[c]).name
  /\ UNCHANGED about

\* A disconnect that has cleared the fields may not have stopped c yet.
Confirm(c) ==
  /\ Go(c, "confirm", After(c, frames[c]))
  /\ confirmed' = TRUE
  /\ excuses' = IF c \in stopped \/ command = "stop"
                THEN excuses \union {"late"} ELSE excuses
  /\ UNCHANGED <<username, about>>
  /\ Handling

\* The server names who was logged in; when nobody was, the client fills in
\* its own name.
HandleLogout(c) ==
  /\ Take(c, "logout", "leave")
  /\ LET name == Head(frames[c]).name IN
       about' = [about EXCEPT ![c] = IF name = NoUser THEN username ELSE name]
  /\ UNCHANGED <<username, pending>>

CompareLeft(c) ==
  /\ Go(c, "leave", IF about[c] = username THEN "forget" ELSE After(c, frames[c]))
  /\ Compared(c)
  /\ UNCHANGED <<username, confirmed, excuses>>
  /\ Handling

\* The name of the login that was refused, when the client knows of it.
HandleError(c) ==
  /\ frames[c] # <<>>
  /\ LET id == Head(frames[c]).id
         failed == {u \in User : <<id, u>> \in pending} IN
       /\ Answered(id)
       /\ \/ /\ failed = {}
             /\ Take(c, "error", After(c, Tail(frames[c])))
             /\ UNCHANGED about
          \/ /\ failed # {}
             /\ Take(c, "error", "refuse")
             /\ \E u \in failed : about' = [about EXCEPT ![c] = u]
  /\ UNCHANGED username

Refuse(c) == excuses' = IF bound[c] # NoUser THEN excuses \union {"refused"}
                                             ELSE excuses

\* Mutant: the refused name is not compared with the one in use.
CompareAnyRefused(c) ==
  /\ Go(c, "refuse", "forget")
  /\ Compared(c)
  /\ IF about[c] = username THEN Refuse(c) ELSE UNCHANGED excuses
  /\ UNCHANGED <<username, confirmed>>
  /\ Handling

\* A refused login for the name in use takes it away, also when the server
\* still has the connection logged in from before.
CompareRefused(c) ==
  /\ \/ about[c] = username /\ Go(c, "refuse", "forget") /\ Refuse(c)
     \/ /\ about[c] # username
        /\ Go(c, "refuse", After(c, frames[c]))
        /\ UNCHANGED excuses
  /\ Compared(c)
  /\ UNCHANGED <<username, confirmed>>
  /\ Handling

Forget(c) ==
  /\ Go(c, "forget", "unconfirm")
  /\ username' = NoUser
  /\ UNCHANGED <<confirmed, about, excuses>>
  /\ Handling

Unconfirm(c) ==
  /\ Go(c, "unconfirm", After(c, frames[c]))
  /\ confirmed' = FALSE
  /\ UNCHANGED <<username, about, excuses>>
  /\ Handling

\* recv returns nothing or raises: handle_disconnect, first half.
ClearFlags(c) ==
  /\ Go(c, "recv", "clear")
  /\ c \in shut \/ (c \notin up /\ inbox[c] = <<>>)
  /\ connected' = FALSE
  /\ confirmed' = FALSE
  /\ UNCHANGED <<username, sock, receiver, logins, command, about, stopped, frames,
                 shut, server, outbox, inbox, excuses>>

\* Mutant: handle_disconnect leaves the socket.
ClearNothing(c) ==
  /\ Go(c, "clear", "ended")
  /\ UNCHANGED <<fields, receiver, logins, command, about, stopped, frames, shut,
                 server, outbox, inbox, excuses>>

\* Second half: whatever self.sock is by now.
ClearSocket(c) ==
  /\ Go(c, "clear", "ended")
  /\ sock' = NoConnection
  /\ UNCHANGED <<connected, username, confirmed, receiver, logins, command,
                 about, stopped, frames, shut, server, outbox, inbox, excuses>>

\* recv times out, or raises on the closed socket, and the stop event is set.
SeesStop(c) ==
  /\ Go(c, "recv", "ended")
  /\ c \in stopped
  /\ UNCHANGED <<fields, receiver, logins, command, about, stopped, frames, shut,
                 server, outbox, inbox, excuses>>

-----------------------------------------------------------------------------
Commands ==
  \/ ReconnectBegins \/ StopReceiver \/ CloseSocket
  \/ ConnectBegins \/ ConnectFails
  \/ \E c \in Connection : SetSocket(c) \/ StartReceiver(c)
  \/ \E u \in User : Login(u)
  \/ LoginSends
  \/ Logout \/ LogoutSent

Receiver(c) ==
  \/ \E n \in 1..MaxRequests : Receive(c, n)
  \/ HandleLogin(c) \/ Confirm(c)
  \/ HandleLogout(c) \/ CompareLeft(c)
  \/ HandleError(c) \/ CompareRefused(c)
  \/ Forget(c) \/ Unconfirm(c)
  \/ ClearFlags(c) \/ ClearSocket(c)
  \/ SeesStop(c)

ClientNext ==
  \/ Commands
  \/ \E c \in Connection : Answer(c) \/ ServerCloses(c) \/ Receiver(c)

ClientSpec == ClientInit /\ [][ClientNext]_clientVars

-----------------------------------------------------------------------------
(* Properties.                                                              *)
(*                                                                          *)
(* "/status shows the connection, the login ..." (README): what it shows    *)
(* when nothing is going on.  The excuses are the ways in which it is wrong *)
(* all the same:                                                            *)
(*   outlived  a connect made its socket while an earlier receiver thread   *)
(*             was still there: after a join that timed out, or a connect   *)
(*             in the middle of handle_disconnect                           *)
(*   late      a LOGIN response was handled once disconnect had begun       *)
(*   refused   a login was refused on a connection logged in from before    *)
(*   undone    a LOGIN response was handled between login's two assignments *)

Quiet ==
  /\ command = "idle"
  /\ \A c \in Alive :
       /\ loop[c] = "recv"
       /\ c \in up \ (shut \union stopped)
       /\ inbox[c] = <<>>
       /\ outbox[c] = <<>>

\* A client that shows itself connected has a socket to send on and a receiver
\* that reads it, and one that does not has neither left behind: connect,
\* reconnect and the clean-up after a loss leave no half of a connection.
ConnectedIsWhole ==
  Quiet /\ "outlived" \notin excuses =>
    IF connected THEN sock # NoConnection /\ Alive = {sock}
                 ELSE sock = NoConnection /\ Alive = {}

\* A confirmed login is one the server knows, under that name, on this very
\* connection, however logins, logouts, refusals and losses were interleaved.
ConfirmedIsBound ==
  Quiet /\ confirmed /\ excuses \intersect {"outlived", "late"} = {} =>
    connected /\ bound[sock] = username

\* Who is logged in at the server is shown so: the name, and as confirmed.
BoundIsConfirmed ==
  Quiet /\ connected /\ excuses \intersect {"outlived", "refused", "undone"} = {} =>
    (bound[sock] # NoUser => confirmed /\ username = bound[sock])
=============================================================================
