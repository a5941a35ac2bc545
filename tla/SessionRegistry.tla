--------------------------- MODULE SessionRegistry ---------------------------
(***************************************************************************)
(* The registry of live connections and online users, server/user_manager. *)
(* py, with the threads that run it: one reader thread per connection (the *)
(* TCP loop of server/server.py or the WebSocket loop of server/           *)
(* web_server.py) and the heartbeat sweeper (server/heartbeat.py).         *)
(*                                                                         *)
(* A step of a thread is what it does between two points where another     *)
(* thread may run: one critical section of UserManager._lock, one write to *)
(* a socket under the session's send_lock, one database transaction.       *)
(***************************************************************************)
EXTENDS Naturals

CONSTANTS
  Session,     \* connections; a reconnecting client is another member
  WebSession,  \* those accepted by the WebSocket gateway; the others are TCP
  User,        \* registered usernames
  NoUser,      \* session.username is None
  NoSession,   \* a name that _sessions_by_username does not hold
  Sweeper,     \* the heartbeat thread
  MaxRequests, \* bound: login and logout requests, all connections together
  MaxFaults,   \* bound: stalls, departures, silences, answers that raise
  MayStall     \* may a client keep its connection and stop reading?

ASSUME RegistryAssumption ==
  /\ WebSession \subseteq Session
  /\ NoUser \notin User
  /\ NoSession \notin Session
  /\ Sweeper \notin Session
  /\ MaxRequests \in Nat
  /\ MaxFaults \in Nat
  /\ MayStall \in BOOLEAN

VARIABLES
  peer,      \* the client's end: reading, not reading any more, or gone
  closed,    \* ClientSession.closed
  username,  \* ClientSession.username
  recent,    \* last_seen is at most timeout_seconds old
  byId,      \* UserManager._sessions_by_id
  byName,    \* UserManager._sessions_by_username
  abandoned, \* history: names a connection logged in away from, not out of
  dbStatus,  \* the status column of the users table
  pc,        \* where each thread is
  name,      \* the username the reader's login or logout handler works on
  victim,    \* the session a thread is removing
  leaving,   \* remove_session's offline_user
  suspects,  \* sessions the running sweep has still to visit
  requests,  \* login and logout requests received so far
  faults     \* stalls, departures, silences and raising answers so far

vars == <<peer, closed, username, recent, byId, byName, abandoned, dbStatus,
          pc, name, victim, leaving, suspects, requests, faults>>

\* The indexes and what they lead to, the handlers' local variables, the
\* counters of the bounds.
registry == <<username, byId, byName, abandoned>>
local == <<name, victim, leaving>>
bounds == <<requests, faults>>

Thread == Session \union {Sweeper}

\* A reader thread at "loop" waits in recv; the sweeper at "sweep" visits its
\* suspects, and waits for its interval when none are left.  "kick" to "close"
\* is kick_session / remove_session, run by any thread t on victim[t].
ReaderPC == {"new", "loop", "login", "respond", "bind", "online", "arrive",
             "logout", "unmark", "reply", "depart", "done"}
RemovePC == {"remove", "mark", "close"}
KickPC   == {"kick"} \union RemovePC

TypeOK ==
  /\ peer \in [Session -> {"reading", "stalled", "gone"}]
  /\ closed \in [Session -> BOOLEAN]
  /\ username \in [Session -> User \union {NoUser}]
  /\ recent \in [Session -> BOOLEAN]
  /\ byId \subseteq Session
  /\ byName \in [User -> Session \union {NoSession}]
  /\ abandoned \in [Session -> SUBSET User]
  /\ dbStatus \in [User -> {"online", "offline"}]
  /\ pc \in [Thread -> ReaderPC \union KickPC \union {"sweep"}]
  /\ name \in [Session -> User \union {NoUser}]
  /\ victim \in [Thread -> Session \union {NoSession}]
  /\ leaving \in [Thread -> User \union {NoUser}]
  /\ suspects \subseteq Session
  /\ requests \in 0..MaxRequests
  /\ faults \in 0..MaxFaults

Init ==
  /\ peer = [s \in Session |-> "reading"]
  /\ closed = [s \in Session |-> FALSE]
  /\ username = [s \in Session |-> NoUser]
  /\ recent = [s \in Session |-> TRUE]
  /\ byId = {}
  /\ byName = [u \in User |-> NoSession]
  /\ abandoned = [s \in Session |-> {}]
  /\ dbStatus = [u \in User |-> "offline"]
  /\ pc = [t \in Thread |-> IF t = Sweeper THEN "sweep" ELSE "new"]
  /\ name = [s \in Session |-> NoUser]
  /\ victim = [t \in Thread |-> NoSession]
  /\ leaving = [t \in Thread |-> NoUser]
  /\ suspects = {}
  /\ requests = 0
  /\ faults = 0

-----------------------------------------------------------------------------
(* Sockets.                                                                 *)

\* login holds the session's own send_lock from its closed test to the bind.
SendLockHeld(s) == pc[s] \in {"respond", "bind"}

\* sendall on a WebSocket connection has no timeout: it returns only once the
\* peer reads again or the connection breaks.  TCP sockets time out instead.
Blocked(s) == s \in WebSession /\ peer[s] = "stalled" /\ ~closed[s]

\* session.send: FALSE at once when closed; an OSError sets closed.
SendResult(s) ==
  IF closed[s] THEN {FALSE}
  ELSE IF peer[s] = "reading" THEN {TRUE} ELSE BOOLEAN

Send(s, ok) ==
  /\ ~Blocked(s)
  /\ ok \in SendResult(s)
  /\ closed' = [closed EXCEPT ![s] = ~ok]

\* A send by a thread that must first take s.send_lock.
SendTo(s, ok) == ~SendLockHeld(s) /\ Send(s, ok)

Goto(t, label) == pc' = [pc EXCEPT ![t] = label]

\* A reader's handler returns, or raises an error that dispatch answers on a
\* connection already closed, and its local username goes out of scope.
Return(s) == Goto(s, "loop") /\ name' = [name EXCEPT ![s] = NoUser]

-----------------------------------------------------------------------------
(* The client's end of a connection, and the passing of time.               *)

Fault == faults < MaxFaults /\ faults' = faults + 1

Peer(s, from, to) ==
  /\ pc[s] \notin {"new", "done"}
  /\ peer[s] \in from
  /\ peer' = [peer EXCEPT ![s] = to]
  /\ UNCHANGED <<closed, recent, dbStatus, pc, suspects, requests, registry,
                 local>>

PeerStalls(s) == MayStall /\ Peer(s, {"reading"}, "stalled") /\ Fault
PeerResumes(s) == Peer(s, {"stalled"}, "reading") /\ UNCHANGED faults
PeerLeaves(s) == Peer(s, {"reading", "stalled"}, "gone") /\ Fault

\* timeout_seconds pass without a dispatched frame.
Silence(s) ==
  /\ s \in byId
  /\ recent[s]
  /\ Fault
  /\ recent' = [recent EXCEPT ![s] = FALSE]
  /\ UNCHANGED <<peer, closed, dbStatus, pc, suspects, requests, registry,
                 local>>

\* Any thread that found s in an index, maybe before s was removed from it,
\* forwards something to s and the write fails.
ForwardFails(s) ==
  /\ ~closed[s]
  /\ SendTo(s, FALSE)
  /\ UNCHANGED <<peer, recent, dbStatus, pc, suspects, registry, local,
                 bounds>>

-----------------------------------------------------------------------------
(* The reader thread's loop and dispatch.                                   *)

Accept(s) ==
  /\ pc[s] = "new"
  /\ byId' = byId \union {s}
  /\ Goto(s, "loop")
  /\ UNCHANGED <<peer, closed, username, recent, byName, abandoned, dbStatus,
                 suspects, local, bounds>>

\* dispatch touches last_seen before it calls the handler.  The TCP loop tests
\* session.closed after recv; the WebSocket loop only before it reads, so the
\* frame it was waiting for is still handled (the model does not stop at one).
Touch(s) ==
  /\ pc[s] = "loop"
  /\ closed[s] => s \in WebSession
  /\ recent' = [recent EXCEPT ![s] = TRUE]

Count == requests < MaxRequests /\ requests' = requests + 1

\* Nothing asks a connection that is logged in to log out first: the CLI's
\* /login under another name does not.
DispatchLogin(s, u) ==
  /\ Touch(s)
  /\ Count
  /\ name' = [name EXCEPT ![s] = u]
  /\ Goto(s, "login")
  /\ UNCHANGED <<peer, closed, dbStatus, victim, leaving, suspects, faults,
                 registry>>

DispatchLogout(s) ==
  /\ Touch(s)
  /\ Count
  /\ Goto(s, "logout")
  /\ UNCHANGED <<peer, closed, dbStatus, suspects, faults, registry, local>>

\* A heartbeat or any other request, answered on the same connection.
DispatchOther(s, ok) ==
  /\ Touch(s)
  /\ SendTo(s, ok)
  /\ UNCHANGED <<peer, dbStatus, pc, suspects, registry, local, bounds>>

\* An answer that cannot be encoded, for the lone surrogate in its request_id,
\* raises out of the handler, and the error answer raises out of dispatch: the
\* reader ends at once, whatever its handler has still to do.
AnswerRaises(s) ==
  /\ \/ Touch(s)
     \/ pc[s] \in {"respond", "reply"} /\ UNCHANGED recent
  /\ ~closed[s]
  /\ victim' = [victim EXCEPT ![s] = s]
  /\ name' = [name EXCEPT ![s] = NoUser]
  /\ Goto(s, "remove")
  /\ Fault
  /\ UNCHANGED <<peer, closed, dbStatus, leaving, suspects, requests, registry>>

\* Mutant: the loop has no test of session.closed.
ReaderStopsAtEof(s) ==
  /\ pc[s] = "loop"
  /\ peer[s] = "gone"
  /\ victim' = [victim EXCEPT ![s] = s]
  /\ Goto(s, "remove")
  /\ UNCHANGED <<peer, closed, recent, dbStatus, name, leaving, suspects,
                 registry, bounds>>

\* EOF, a recv error, or the loop's test of session.closed: the finally
\* clause runs remove_session on the reader's own session.
ReaderStops(s) ==
  /\ pc[s] = "loop"
  /\ closed[s] \/ peer[s] = "gone"
  /\ victim' = [victim EXCEPT ![s] = s]
  /\ Goto(s, "remove")
  /\ UNCHANGED <<peer, closed, recent, dbStatus, name, leaving, suspects,
                 registry, bounds>>

-----------------------------------------------------------------------------
(* login, after the credentials are found valid.                            *)

LoginAcquire(s) ==
  /\ pc[s] = "login"
  /\ IF closed[s] THEN Return(s) ELSE Goto(s, "respond") /\ UNCHANGED name
  /\ UNCHANGED <<peer, closed, recent, dbStatus, victim, leaving, suspects,
                 registry, bounds>>

\* Mutant: login does not look at what send returns.
LoginRespondUnchecked(s, ok) ==
  /\ pc[s] = "respond"
  /\ Send(s, ok)
  /\ Goto(s, "bind")
  /\ UNCHANGED <<peer, recent, dbStatus, suspects, registry, local, bounds>>

LoginRespond(s, ok) ==
  /\ pc[s] = "respond"
  /\ Send(s, ok)
  /\ IF ok THEN Goto(s, "bind") /\ UNCHANGED name ELSE Return(s)
  /\ UNCHANGED <<peer, recent, dbStatus, victim, leaving, suspects, registry,
                 bounds>>

\* The entry of the name s had stays in _sessions_by_username.
Abandoned(s) == (abandoned[s] \union ({username[s]} \ {NoUser})) \ {name[s]}

\* Mutant: the previous session of the name is not kicked.
LoginBindKeepsPrevious(s) ==
  /\ pc[s] = "bind"
  /\ username' = [username EXCEPT ![s] = name[s]]
  /\ recent' = [recent EXCEPT ![s] = TRUE]
  /\ byName' = [byName EXCEPT ![name[s]] = s]
  /\ abandoned' = [abandoned EXCEPT ![s] = Abandoned(s)]
  /\ Goto(s, "online")
  /\ UNCHANGED <<peer, closed, byId, dbStatus, suspects, local, bounds>>

\* One critical section of _lock; a previous session of the name is kicked
\* after both locks are released.
LoginBind(s) ==
  /\ pc[s] = "bind"
  /\ username' = [username EXCEPT ![s] = name[s]]
  /\ recent' = [recent EXCEPT ![s] = TRUE]
  /\ byName' = [byName EXCEPT ![name[s]] = s]
  /\ abandoned' = [abandoned EXCEPT ![s] = Abandoned(s)]
  /\ LET previous == byName[name[s]] IN
       \/ /\ previous \in {NoSession, s}
          /\ Goto(s, "online")
          /\ UNCHANGED victim
       \/ /\ previous \notin {NoSession, s}
          /\ victim' = [victim EXCEPT ![s] = previous]
          /\ Goto(s, "kick")
  /\ UNCHANGED <<peer, closed, byId, dbStatus, name, leaving, suspects,
                 bounds>>

MarkOnline(s) ==
  /\ pc[s] = "online"
  /\ dbStatus' = [dbStatus EXCEPT ![name[s]] = "online"]
  /\ Goto(s, "arrive")
  /\ UNCHANGED <<peer, closed, recent, suspects, registry, local, bounds>>

-----------------------------------------------------------------------------
(* logout.                                                                  *)

LogoutUnbind(s) ==
  /\ pc[s] = "logout"
  /\ name' = [name EXCEPT ![s] = username[s]]
  /\ username' = [username EXCEPT ![s] = NoUser]
  /\ byName' = [u \in User |-> IF u = username[s] /\ byName[u] = s
                                 THEN NoSession ELSE byName[u]]
  /\ Goto(s, IF username[s] = NoUser THEN "reply" ELSE "unmark")
  /\ UNCHANGED <<peer, closed, recent, byId, abandoned, dbStatus, victim,
                 leaving, suspects, bounds>>

LogoutMark(s) ==
  /\ pc[s] = "unmark"
  /\ dbStatus' = [dbStatus EXCEPT ![name[s]] = "offline"]
  /\ Goto(s, "reply")
  /\ UNCHANGED <<peer, closed, recent, suspects, registry, local, bounds>>

LogoutReply(s, ok) ==
  /\ pc[s] = "reply"
  /\ SendTo(s, ok)
  /\ Goto(s, IF name[s] = NoUser THEN "loop" ELSE "depart")
  /\ UNCHANGED <<peer, recent, dbStatus, suspects, registry, local, bounds>>

\* _broadcast_status: its writes are ForwardFails here, and spelled out in
\* module Presence.  The handler then returns to the loop.
Announced(s) ==
  /\ pc[s] \in {"arrive", "depart"}
  /\ Return(s)
  /\ UNCHANGED <<peer, closed, recent, dbStatus, victim, leaving, suspects,
                 registry, bounds>>

-----------------------------------------------------------------------------
(* kick_session and remove_session, by any thread t on victim[t].           *)

KickNotice(t, ok) ==
  /\ pc[t] = "kick"
  /\ SendTo(victim[t], ok)
  /\ Goto(t, "remove")
  /\ UNCHANGED <<peer, recent, dbStatus, suspects, registry, local, bounds>>

\* Mutant: remove_session leaves _sessions_by_username alone.
BoundUnderNone(s) == {}

BoundUnder(s) == {u \in User : u = username[s] /\ byName[u] = s}

\* Mutant: the name's entry is overwritten with the wrong kind of nothing.
RemoveIndexWrongNone(t) ==
  /\ pc[t] = "remove"
  /\ byId' = byId \ {victim[t]}
  /\ byName' = [u \in User |-> IF u \in BoundUnder(victim[t]) THEN NoUser
                                                            ELSE byName[u]]
  /\ Goto(t, "close")
  /\ UNCHANGED <<peer, closed, username, recent, abandoned, dbStatus, suspects,
                 local, bounds>>

RemoveIndex(t) ==
  /\ pc[t] = "remove"
  /\ LET s == victim[t] IN
       /\ byId' = byId \ {s}
       /\ byName' = [u \in User |-> IF u \in BoundUnder(s) THEN NoSession
                                                           ELSE byName[u]]
       /\ \/ /\ BoundUnder(s) = {}
             /\ Goto(t, "close")
             /\ UNCHANGED leaving
          \/ /\ BoundUnder(s) # {}
             /\ leaving' = [leaving EXCEPT ![t] = username[s]]
             /\ Goto(t, "mark")
  /\ UNCHANGED <<peer, closed, username, recent, abandoned, dbStatus, name,
                 victim, suspects, bounds>>

MarkOffline(t) ==
  /\ pc[t] = "mark"
  /\ dbStatus' = [dbStatus EXCEPT ![leaving[t]] = "offline"]
  /\ leaving' = [leaving EXCEPT ![t] = NoUser]
  /\ Goto(t, "close")
  /\ UNCHANGED <<peer, closed, recent, name, victim, suspects, registry,
                 bounds>>

\* Mutant: session.close does not take send_lock.
CloseVictimUnlocked(t) ==
  /\ pc[t] = "close"
  /\ closed' = [closed EXCEPT ![victim[t]] = TRUE]
  /\ victim' = [victim EXCEPT ![t] = NoSession]
  /\ Goto(t, IF t = Sweeper THEN "sweep"
             ELSE IF victim[t] = t THEN "done" ELSE "online")
  /\ UNCHANGED <<peer, recent, dbStatus, name, leaving, suspects, registry,
                 bounds>>

\* Mutant: kick_session drops the session from the indexes, and leaves it open.
CloseVictimSkipped(t) ==
  /\ pc[t] = "close"
  /\ victim' = [victim EXCEPT ![t] = NoSession]
  /\ Goto(t, IF t = Sweeper THEN "sweep"
             ELSE IF victim[t] = t THEN "done" ELSE "online")
  /\ UNCHANGED <<peer, closed, recent, dbStatus, name, leaving, suspects,
                 registry, bounds>>

\* session.close takes send_lock, and the WebSocket one writes a close frame
\* under it; the caller then goes on where it was.  The flag is set before
\* that frame: while the write is stuck, the model still calls s open.
CloseVictim(t) ==
  /\ pc[t] = "close"
  /\ ~SendLockHeld(victim[t])
  /\ ~Blocked(victim[t])
  /\ closed' = [closed EXCEPT ![victim[t]] = TRUE]
  /\ victim' = [victim EXCEPT ![t] = NoSession]
  /\ Goto(t, IF t = Sweeper THEN "sweep"
             ELSE IF victim[t] = t THEN "done" ELSE "online")
  /\ UNCHANGED <<peer, recent, dbStatus, name, leaving, suspects, registry,
                 bounds>>

-----------------------------------------------------------------------------
(* sweep_once.  `now` is read before all_sessions, so a session seen since  *)
(* is never older than the timeout: the suspects are those silent at now.   *)

\* Mutant: the comparison with the timeout is the wrong way round.
SweepStartInverted ==
  /\ pc[Sweeper] = "sweep"
  /\ suspects = {}
  /\ suspects' = {s \in byId : recent[s]}
  /\ UNCHANGED <<peer, closed, recent, dbStatus, pc, registry, local, bounds>>

SweepStart ==
  /\ pc[Sweeper] = "sweep"
  /\ suspects = {}
  /\ suspects' = {s \in byId : ~recent[s]}
  /\ UNCHANGED <<peer, closed, recent, dbStatus, pc, registry, local, bounds>>

SweepSkip(s) ==
  /\ pc[Sweeper] = "sweep"
  /\ s \in suspects
  /\ closed[s] \/ recent[s]
  /\ suspects' = suspects \ {s}
  /\ UNCHANGED <<peer, closed, recent, dbStatus, pc, registry, local, bounds>>

SweepKick(s) ==
  /\ pc[Sweeper] = "sweep"
  /\ s \in suspects
  /\ ~closed[s] /\ ~recent[s]
  /\ suspects' = suspects \ {s}
  /\ victim' = [victim EXCEPT ![Sweeper] = s]
  /\ Goto(Sweeper, "kick")
  /\ UNCHANGED <<peer, closed, recent, dbStatus, name, leaving, registry,
                 bounds>>

-----------------------------------------------------------------------------
Environment(s) ==
  \/ PeerStalls(s) \/ PeerResumes(s) \/ PeerLeaves(s)
  \/ Silence(s) \/ ForwardFails(s)

Requests(s) ==
  \/ Accept(s)
  \/ \E u \in User : DispatchLogin(s, u)
  \/ DispatchLogout(s)
  \/ \E ok \in BOOLEAN : DispatchOther(s, ok)
  \/ AnswerRaises(s)

\* What a thread does once it has something to do.
Handler(s) ==
  \/ LoginAcquire(s)
  \/ \E ok \in BOOLEAN : LoginRespond(s, ok)
  \/ LoginBind(s)
  \/ MarkOnline(s)
  \/ LogoutUnbind(s)
  \/ LogoutMark(s)
  \/ \E ok \in BOOLEAN : LogoutReply(s, ok)
  \/ Announced(s)
  \/ ReaderStops(s)

Remove(t) ==
  \/ \E ok \in BOOLEAN : KickNotice(t, ok)
  \/ RemoveIndex(t)
  \/ MarkOffline(t)
  \/ CloseVictim(t)

Sweep ==
  \/ SweepStart
  \/ \E s \in Session : SweepSkip(s) \/ SweepKick(s)

Next ==
  \/ \E s \in Session : Environment(s) \/ Requests(s) \/ Handler(s)
  \/ \E t \in Thread : Remove(t)
  \/ Sweep

RegistrySpec == Init /\ [][Next]_vars

\* Threads are scheduled; clients and the network promise nothing.
RegistryFairness ==
  /\ \A s \in Session : WF_vars(Handler(s) \/ Remove(s))
  /\ WF_vars(Sweep \/ Remove(Sweeper))

LiveRegistrySpec == RegistrySpec /\ RegistryFairness

-----------------------------------------------------------------------------
(* Properties.                                                              *)

\* s is on its way out: some thread is running kick_session or
\* remove_session on it and has not closed it yet.
Doomed(s) == \E t \in Thread : pc[t] \in KickPC /\ victim[t] = s

\* "logged in as u on an open connection" and "registered under u" agree,
\* except on a connection that is being removed at this moment.
OpenIsBound ==
  \A s \in Session :
    ~closed[s] /\ username[s] # NoUser => byName[username[s]] = s \/ Doomed(s)

\* login's closed test still holds when the name is bound: nobody can close a
\* session whose send_lock login has.
OpenWhileLocked ==
  \A s \in Session : SendLockHeld(s) => ~closed[s] /\ name[s] \in User

\* A name leads to a session that carries it, or that has logged in away from
\* it and nobody has taken it since ...
OneName ==
  \A u \in User : byName[u] # NoSession =>
    username[byName[u]] = u \/ u \in abandoned[byName[u]]

\* ... and what a reader removed of its own session stays removed.
StaysRemoved ==
  \A s \in Session :
    /\ pc[s] = "done" => closed[s]
    /\ pc[s] = "done" \/ (pc[s] \in {"mark", "close"} /\ victim[s] = s) =>
         s \notin byId /\ \A u \in User \ abandoned[s] : byName[u] # s

\* Single sign-on (login's "the previous session is kicked"): however logins,
\* logouts, disconnects and sweeps interleave, two open connections never
\* both carry a name unless one of them is already being closed.
SingleLogin ==
  \A s1, s2 \in Session :
    /\ s1 # s2
    /\ ~closed[s1] /\ ~closed[s2]
    /\ username[s1] = username[s2] /\ username[s1] # NoUser
    => Doomed(s1) \/ Doomed(s2)

\* remove_session's "Drop a session from all indexes": once its reader thread
\* has finished, no index leads to the session.  The exception are names that
\* its client left by logging in under another one without a logout, and has
\* not logged in under again: remove_session drops only the last name.
RemovedFromAllIndexes ==
  \A s \in Session :
    pc[s] = "done" =>
      /\ closed[s]
      /\ s \notin byId
      /\ \A u \in User \ abandoned[s] : byName[u] # s

\* The heartbeat timeout evicts: a registered session that stays silent is
\* taken off the registry (HeartbeatMonitor.sweep_once, README "timed-out
\* connections are cleaned up automatically").
SilentIsEvicted ==
  \A s \in Session : (s \in byId /\ ~recent[s]) ~> (recent[s] \/ s \notin byId)

\* A connection found broken or kicked is fully removed by its reader thread.
ClosedIsRemoved ==
  \A s \in Session : closed[s] ~> (pc[s] = "done")

\* remove_session "mark[s] the DB user offline", logout too: when no handler or
\* sweep is at work, the users table shows nobody online who is not.
Quiet == \A t \in Thread : pc[t] \in {"new", "loop", "sweep", "done"}

StatusFollowsRegistry ==
  Quiet => \A u \in User : dbStatus[u] = "online" => byName[u] # NoSession

\* UserManager implements the promise of module SessionDirectory: only an open
\* connection is ever given a name, a name changes hands in one step, and the
\* connection that loses it is closed in the end.
Directory == INSTANCE SessionDirectory WITH
  holder <- byName,
  open <- {s \in Session : ~closed[s]},
  evicted <- {s \in Session : Doomed(s) /\ ~closed[s]}

ImplementsDirectory == Directory!DirectorySpec

\* Its safety part, step by step.
DirectorySafety ==
  Directory!Init /\ [][Directory!Next]_(Directory!vars)
=============================================================================
