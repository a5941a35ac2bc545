--------------------------- MODULE RelayLifecycle ---------------------------
(***************************************************************************)
(* The relay service from start to exit: relay_service.main, the gateways' *)
(* start and stop (server/server.py, server/web_server.py), the threads of *)
(* the connections, the heartbeat thread and ChatRelayService.stop, around *)
(* the router's pools of module AIReplies.                                 *)
(*                                                                         *)
(* Browsers that stop reading are left to module SessionRegistry, and the  *)
(* limiter's clock stands still: module AIReplies has it.                  *)
(***************************************************************************)
EXTENDS AIReplies

CONSTANTS
  TcpSession, \* connections of the TCP gateway; the others are WebSockets
  MaxLosses   \* bound: peers that leave, kicks and failed writes

ASSUME RelayAssumption ==
  /\ TcpSession \subseteq Session
  /\ MaxLosses \in Nat

VARIABLES
  main,       \* where relay_service.main is
  listening,  \* ChatServer._server_sock accepts
  serving,    \* ThreadingHTTPServer accepts
  stopping,   \* ChatServer._stop_event
  sweeper,    \* the heartbeat thread: "off", "on", "told" to stop
  where,      \* the thread of each connection
  registered, \* UserManager._sessions_by_id
  tracked,    \* ChatServer._sessions and WebChatServer._sessions
  closed,     \* session.closed
  todo,       \* sessions that stop has listed and not yet removed
  victim,     \* the one it is removing
  evicted,    \* sessions that a kick has taken from the registry, to be closed
  late,       \* sessions registered after relay.stop took its list
  losses

gates    == <<listening, serving, stopping>>
sessions == <<where, registered, tracked, closed, evicted, late, losses>>
removals == <<todo, victim>>

relayVars == <<aiVars, main, gates, sweeper, sessions, removals>>

WebSession == Session \ TcpSession

Starting == {"relay", "tcp", "web"}
Stopping == {"flag", "listener", "tcpList", "tcpRemove", "webList",
             "webRemove", "httpd", "heartbeat", "router", "list", "remove"}

RelayTypeOK ==
  /\ AITypeOK
  /\ main \in Starting \union {"serve"} \union Stopping
                       \union {"returned", "exited"}
  /\ listening \in BOOLEAN
  /\ serving \in BOOLEAN
  /\ stopping \in BOOLEAN
  /\ sweeper \in {"off", "on", "told"}
  /\ where \in [Session -> {"away", "accepted", "register", "reading",
                            "leaving", "ended"}]
  /\ registered \subseteq Session
  /\ tracked \subseteq Session
  /\ closed \subseteq Session
  /\ todo \subseteq Session
  /\ victim \in Session \union {NoSession}
  /\ evicted \subseteq Session
  /\ late \subseteq Session
  /\ losses \in 0..MaxLosses

RelayInit ==
  /\ AIInit
  /\ main = "relay"
  /\ listening = FALSE
  /\ serving = FALSE
  /\ stopping = FALSE
  /\ sweeper = "off"
  /\ where = [s \in Session |-> "away"]
  /\ registered = {}
  /\ tracked = {}
  /\ closed = {}
  /\ todo = {}
  /\ victim = NoSession
  /\ evicted = {}
  /\ late = {}
  /\ losses = 0

At(here, next) == main = here /\ main' = next

Go(s, from, to) == where[s] = from /\ where' = [where EXCEPT ![s] = to]

-----------------------------------------------------------------------------
(* Connections.                                                             *)

\* accept may still return a connection after the stop flag is set, until the
\* listening socket is closed; the web server goes on until its shutdown.
Connect(s) ==
  /\ IF s \in TcpSession THEN listening ELSE serving
  /\ Go(s, "away", "accepted")
  /\ UNCHANGED <<aiVars, main, gates, sweeper, registered, tracked, closed,
                 evicted, late, losses, removals>>

Register(s) ==
  /\ Go(s, "accepted", "register")
  /\ registered' = registered \union {s}
  /\ late' = IF main \in {"remove", "returned"} THEN late \union {s} ELSE late
  /\ UNCHANGED <<aiVars, main, gates, sweeper, tracked, closed, evicted,
                 losses, removals>>

Track(s) ==
  /\ Go(s, "register", "reading")
  /\ tracked' = tracked \union {s}
  /\ UNCHANGED <<aiVars, main, gates, sweeper, registered, closed, evicted,
                 late, losses, removals>>

\* Mutant: the TCP reader tests only whether its session is closed.
ReaderSeesClosed(s) == s \in closed

\* The TCP reader tests the flag between two reads, which time out.
ReaderSeesStop(s) == s \in closed \/ (s \in TcpSession /\ stopping)

\* The reader leaves its loop: end of file, or what its test sees; then
\* remove_session takes the session from the index ...
ReaderStops(s) ==
  /\ job[s] = NoPrompt
  /\ Go(s, "reading", "leaving")
  /\ \/ ReaderSeesStop(s) /\ losses' = losses
     \/ losses < MaxLosses /\ losses' = losses + 1
  /\ registered' = registered \ {s}
  /\ UNCHANGED <<aiVars, main, gates, sweeper, tracked, closed, evicted,
                 late, removals>>

\* ... and closes it, and the gateway forgets it.
ReaderEnds(s) ==
  /\ Go(s, "leaving", "ended")
  /\ closed' = closed \union {s}
  /\ tracked' = tracked \ {s}
  /\ UNCHANGED <<aiVars, main, gates, sweeper, registered, evicted, late,
                 losses, removals>>

\* The sweeper or a login kicks the session: the index first ...
Kick(s) ==
  /\ s \in registered
  /\ losses < MaxLosses
  /\ losses' = losses + 1
  /\ registered' = registered \ {s}
  /\ evicted' = evicted \union {s}
  /\ UNCHANGED <<aiVars, main, gates, sweeper, where, tracked, closed, late,
                 removals>>

\* ... then the close.
KickEnds(s) ==
  /\ s \in evicted
  /\ evicted' = evicted \ {s}
  /\ closed' = closed \union {s}
  /\ UNCHANGED <<aiVars, main, gates, sweeper, where, registered, tracked,
                 late, losses, removals>>

SweeperEnds ==
  /\ sweeper = "told"
  /\ sweeper' = "off"
  /\ UNCHANGED <<aiVars, main, gates, sessions, removals>>

-----------------------------------------------------------------------------
(* relay_service.main: start, wait for a signal, stop.                      *)

\* Each gateway's start calls relay.start again, which does nothing then.
StartRelay ==
  /\ At("relay", "tcp")
  /\ sweeper' = "on"
  /\ UNCHANGED <<aiVars, gates, sessions, removals>>

StartTcp ==
  /\ At("tcp", "web")
  /\ listening' = TRUE
  /\ UNCHANGED <<aiVars, serving, stopping, sweeper, sessions, removals>>

StartWeb ==
  /\ At("web", "serve")
  /\ serving' = TRUE
  /\ UNCHANGED <<aiVars, listening, stopping, sweeper, sessions, removals>>

Signal ==
  /\ At("serve", "flag")
  /\ UNCHANGED <<aiVars, gates, sweeper, sessions, removals>>

SetFlag ==
  /\ At("flag", "listener")
  /\ stopping' = TRUE
  /\ UNCHANGED <<aiVars, listening, serving, sweeper, sessions, removals>>

CloseListener ==
  /\ At("listener", "tcpList")
  /\ listening' = FALSE
  /\ UNCHANGED <<aiVars, serving, stopping, sweeper, sessions, removals>>

ListTcp ==
  /\ At("tcpList", "tcpRemove")
  /\ todo' = tracked \intersect TcpSession
  /\ UNCHANGED <<aiVars, gates, sweeper, sessions, victim>>

ListWeb ==
  /\ At("webList", "webRemove")
  /\ todo' = tracked \intersect WebSession
  /\ UNCHANGED <<aiVars, gates, sweeper, sessions, victim>>

\* Mutant: the relay asks the gateways instead of the registry.
ListTracked ==
  /\ At("list", "remove")
  /\ todo' = tracked
  /\ UNCHANGED <<aiVars, gates, sweeper, sessions, victim>>

ListAll ==
  /\ At("list", "remove")
  /\ todo' = registered
  /\ UNCHANGED <<aiVars, gates, sweeper, sessions, victim>>

Removing == main \in {"tcpRemove", "webRemove", "remove"}

\* remove_session of a listed session: the index first, ...
Unindex(s) ==
  /\ Removing
  /\ victim = NoSession
  /\ s \in todo
  /\ victim' = s
  /\ todo' = todo \ {s}
  /\ registered' = registered \ {s}
  /\ UNCHANGED <<aiVars, main, gates, sweeper, where, tracked, closed,
                 evicted, late, losses>>

\* ... then the close.
Close ==
  /\ victim # NoSession
  /\ closed' = closed \union {victim}
  /\ victim' = NoSession
  /\ UNCHANGED <<aiVars, main, gates, sweeper, where, registered, tracked,
                 evicted, late, losses, todo>>

\* ChatServer.stop then joins its threads for a limited time.
Removed ==
  /\ todo = {} /\ victim = NoSession
  /\ \/ At("tcpRemove", "webList")
     \/ At("webRemove", "httpd")
     \/ At("remove", "returned")
  /\ UNCHANGED <<aiVars, gates, sweeper, sessions, removals>>

\* The web server's shutdown comes after its sessions were removed, and its
\* handler threads are not joined.
ShutHttpd ==
  /\ At("httpd", "heartbeat")
  /\ serving' = FALSE
  /\ UNCHANGED <<aiVars, listening, stopping, sweeper, sessions, removals>>

\* join has a timeout: the sweep that runs may end later.
StopHeartbeat ==
  /\ At("heartbeat", "router")
  /\ sweeper' = IF sweeper = "on" THEN "told" ELSE sweeper
  /\ UNCHANGED <<aiVars, gates, sessions, removals>>

ShutRouter ==
  /\ main = "router"
  /\ Shutdown
  /\ main' = IF reviewing' THEN "router" ELSE "list"
  /\ UNCHANGED <<gates, sweeper, sessions, removals>>

\* Mutant: the pools' threads are daemons.
AtWorkNever == {}

\* The interpreter waits for the pools' threads; daemon threads die with it.
AtWork == Reviewer \union {"answering", "save"}

Exit ==
  /\ At("returned", "exited")
  /\ \A p \in Prompt : pc[p] \notin AtWork \union {"queued", "waiting"}
  /\ where' = [s \in Session |-> IF where[s] = "away" THEN "away" ELSE "ended"]
  /\ registered' = {}
  /\ tracked' = {}
  /\ closed' = {s \in Session : where[s] # "away"}
  /\ evicted' = {}
  /\ sweeper' = "off"
  /\ UNCHANGED <<aiVars, gates, late, losses, removals>>

-----------------------------------------------------------------------------
Main ==
  \/ SetFlag \/ CloseListener
  \/ ListTcp \/ ListWeb \/ ListAll
  \/ (\E s \in Session : Unindex(s)) \/ Close \/ Removed
  \/ ShutHttpd \/ StopHeartbeat
  \/ ShutRouter

Reader(s) ==
  \/ Register(s) \/ Track(s)
  \/ ReaderStops(s) /\ ReaderSeesStop(s)
  \/ ReaderEnds(s)
  \/ KickEnds(s)

\* A reader's handler; an open connection is not needed to finish one, but a
\* send raises only on one.
Handler(s) ==
  /\ main # "exited"
  /\ \/ SubmitReview(s)
     \/ /\ ForwardRaises(s)
        /\ \E t \in Session \ closed :
             where[t] \in {"register", "reading", "leaving"}
  /\ UNCHANGED <<main, gates, sweeper, sessions, removals>>

Request(s) ==
  /\ where[s] = "reading"
  /\ s \notin closed
  /\ Requests(s)
  /\ UNCHANGED <<main, gates, sweeper, sessions, removals>>

Worker(p) ==
  /\ main # "exited"
  /\ Review(p) \/ Reply(p)
  /\ UNCHANGED <<main, gates, sweeper, sessions, removals>>

RelayNext ==
  \/ StartRelay \/ StartTcp \/ StartWeb \/ Signal
  \/ Main \/ Exit
  \/ SweeperEnds
  \/ \E s \in Session : \/ Connect(s) \/ Reader(s) \/ ReaderStops(s)
                        \/ Kick(s) \/ Handler(s) \/ Request(s)
  \/ \E p \in Prompt : Worker(p)

RelaySpec == RelayInit /\ [][RelayNext]_relayVars

\* Threads are scheduled.  Nobody has to connect, send or leave, no signal has
\* to come, and the process may go on after the stop, as in the tests.
LiveRelaySpec ==
  /\ RelaySpec
  /\ WF_relayVars(Main)
  /\ WF_relayVars(SweeperEnds)
  /\ \A s \in Session : WF_relayVars(Reader(s)) /\ WF_relayVars(Handler(s))
  /\ \A p \in Prompt : WF_relayVars(Worker(p))

-----------------------------------------------------------------------------
(* Properties.                                                              *)

\* relay.stop removes the sessions it finds in the registry: when it has
\* returned, a session still open was registered after it took its list, or
\* is being closed by its own reader or by whoever kicked it.
StopClosesRegistered ==
  main = "returned" =>
    \A s \in Session :
      where[s] \in {"register", "reading"} /\ s \notin closed
        => s \in late \union evicted

\* ChatServer.stop "tear down sessions accepted by this TCP gateway so reader
\* threads exit": once it is called no TCP reader goes on for ever, not even
\* those of connections accepted or registered too late for any list.
TcpReadersEnd ==
  \A s \in TcpSession : (stopping /\ where[s] # "away") ~> (where[s] = "ended")

\* A stop always comes to its end: no cancelled reply, no pool's lock and no
\* worker holds it up for ever.
StopEnds == (main = "flag") ~> (main = "returned")
=============================================================================
