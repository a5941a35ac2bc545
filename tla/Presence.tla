------------------------------ MODULE Presence ------------------------------
(***************************************************************************)
(* Who each client believes is online: the roster in its LOGIN response    *)
(* (MessageRouter._handle_login) kept up to date by the USER_STATUS frames *)
(* of _broadcast_status.  The module adds the clients' view and the        *)
(* broadcast loop to the threads of SessionRegistry, whose every step it   *)
(* keeps.  A frame written to a connection counts as received: both        *)
(* gateways deliver in order, and a frame lost with its connection is of   *)
(* no consequence to anybody's view.                                       *)
(***************************************************************************)
EXTENDS SessionRegistry

VARIABLES
  view,      \* the users the client of each connection shows as online
  greeted,   \* connections whose client has its LOGIN response
  polled,    \* readers that have read authenticated_sessions()
  audience   \* the connections each broadcast has still to write to

pvars == <<vars, view, greeted, polled, audience>>

PresenceTypeOK ==
  /\ TypeOK
  /\ view \in [Session -> SUBSET User]
  /\ greeted \subseteq Session
  /\ polled \subseteq Session
  /\ audience \in [Session -> SUBSET Session]

PresenceInit ==
  /\ Init
  /\ view = [s \in Session |-> {}]
  /\ greeted = {}
  /\ polled = {}
  /\ audience = [s \in Session |-> {}]

-----------------------------------------------------------------------------
OnlineUsers == {u \in User : byName[u] # NoSession}

\* Mutants: names that nobody holds are not skipped; every connection counts.
AuthenticatedOrNone == {byName[u] : u \in User}
AllSessions == byId

AuthenticatedSessions == {byName[u] : u \in User} \ {NoSession}

\* build_login_response: the roster as it is now, and the user himself.  The
\* browser starts a new list with it, the CLI adds it to the one it has.
Greet(s, ok) ==
  /\ LoginRespond(s, ok)
  /\ LET roster == OnlineUsers \union {name[s]}
         known == IF s \in WebSession THEN {} ELSE view[s] IN
       view' = [view EXCEPT ![s] = IF ok THEN known \union roster ELSE @]
  /\ greeted' = IF ok THEN greeted \union {s} ELSE greeted
  /\ UNCHANGED <<polled, audience>>

\* With the LOGOUT response the browser forgets its list, and the CLI notes
\* that the user himself is offline.
Dismiss(s, ok) ==
  /\ LogoutReply(s, ok)
  /\ LET known == IF s \in WebSession THEN {} ELSE view[s] \ {name[s]} IN
       view' = [view EXCEPT ![s] = IF ok THEN known ELSE @]
  /\ UNCHANGED <<greeted, polled, audience>>

\* _broadcast_status reads the peers once, without the session it speaks of.
Poll(s) ==
  /\ pc[s] \in {"arrive", "depart"}
  /\ s \notin polled
  /\ polled' = polled \union {s}
  /\ audience' = [audience EXCEPT ![s] = AuthenticatedSessions \ {s}]
  /\ UNCHANGED <<vars, view, greeted>>

Seen(s, known) == IF pc[s] = "arrive" THEN known \union {name[s]}
                                      ELSE known \ {name[s]}

\* Mutant: a peer that cannot be written to is dropped from the registry.
NotifyOrDrop(s, p, ok) ==
  /\ pc[s] \in {"arrive", "depart"}
  /\ p \in audience[s]
  /\ SendTo(p, ok)
  /\ view' = [view EXCEPT ![p] = IF ok THEN Seen(s, @) ELSE @]
  /\ audience' = [audience EXCEPT ![s] = @ \ {p}]
  /\ byId' = IF ok THEN byId ELSE byId \ {p}
  /\ UNCHANGED <<peer, recent, dbStatus, pc, suspects, greeted, polled,
                 username, byName, abandoned, local, bounds>>

\* One turn of the broadcast loop; a write that fails closes the peer.
Notify(s, p, ok) ==
  /\ pc[s] \in {"arrive", "depart"}
  /\ p \in audience[s]
  /\ SendTo(p, ok)
  /\ view' = [view EXCEPT ![p] = IF ok THEN Seen(s, @) ELSE @]
  /\ audience' = [audience EXCEPT ![s] = @ \ {p}]
  /\ UNCHANGED <<peer, recent, dbStatus, pc, suspects, greeted, polled,
                 registry, local, bounds>>

BroadcastEnds(s) ==
  /\ s \in polled
  /\ audience[s] = {}
  /\ Announced(s)
  /\ polled' = polled \ {s}
  /\ UNCHANGED <<view, greeted, audience>>

-----------------------------------------------------------------------------
OtherHandler(s) ==
  \/ LoginAcquire(s)
  \/ LoginBind(s)
  \/ MarkOnline(s)
  \/ LogoutUnbind(s)
  \/ LogoutMark(s)
  \/ ReaderStops(s)

Unseen == UNCHANGED <<view, greeted, polled, audience>>

Broadcast(s) ==
  \/ Poll(s)
  \/ \E p \in Session, ok \in BOOLEAN : Notify(s, p, ok)
  \/ BroadcastEnds(s)

\* What a reader, and the sweeper, do once they have something to do.
Reader(s) ==
  \/ (OtherHandler(s) \/ Remove(s)) /\ Unseen
  \/ \E ok \in BOOLEAN : Greet(s, ok) \/ Dismiss(s, ok)
  \/ Broadcast(s)

Heartbeat == (Sweep \/ Remove(Sweeper)) /\ Unseen

PresenceNext ==
  \/ \E s \in Session : (Environment(s) \/ Requests(s)) /\ Unseen
  \/ \E s \in Session : Reader(s)
  \/ Heartbeat

PresenceSpec == PresenceInit /\ [][PresenceNext]_pvars

\* Threads are scheduled, as in RegistryFairness; a broadcast is a part of its
\* reader's handler.
LivePresenceSpec ==
  /\ PresenceSpec
  /\ \A s \in Session : WF_pvars(Reader(s))
  /\ WF_pvars(Heartbeat)

-----------------------------------------------------------------------------
(* Properties.                                                              *)

\* login: "any USER_STATUS frame ... lands after the LOGIN response".  No
\* broadcast, from any thread, ever aims at a client that has not got it.
StatusAfterLogin == \A s \in Session : audience[s] \subseteq greeted

\* A session that can be reached by name has its LOGIN response: the bind
\* never overtakes it.
NameHoldersGreeted ==
  /\ \A u \in User : byName[u] # NoSession => byName[u] \in greeted
  /\ \A s \in Session : pc[s] = "bind" => s \in greeted

\* The broadcast adds nothing but views to the registry's behaviour.
RefinesRegistry == RegistrySpec

\* _handle_login: "the response carries a consistent view".  Once no handler
\* is at work, a logged-in client knows every other user who is logged in.
RosterComplete ==
  Quiet => \A s \in AuthenticatedSessions :
    ~closed[s] => {u \in OnlineUsers : pc[byName[u]] = "loop"} \subseteq view[s]
=============================================================================
