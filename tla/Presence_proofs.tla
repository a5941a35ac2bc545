--------------------------- MODULE Presence_proofs ---------------------------
(***************************************************************************)
(* Theorems about module Presence, for every set of connections and users. *)
(***************************************************************************)
EXTENDS Presence, SessionRegistry_proofs

-----------------------------------------------------------------------------
(* Presence refines the registry: a write of the broadcast loop that fails  *)
(* is ForwardFails, one that succeeds leaves the registry alone.            *)

\* What the threads of the registry do beside login, logout and broadcast.
OtherStep ==
  \/ \E s \in Session : Environment(s) \/ Requests(s) \/ OtherHandler(s)
  \/ \E t \in Thread : Remove(t)
  \/ Sweep

LEMMA PresenceStep == SafeTypes /\ [PresenceNext]_pvars => [Next]_vars
<1> SUFFICES ASSUME SafeTypes, [PresenceNext]_pvars PROVE [Next]_vars
  OBVIOUS
<1>1. CASE OtherStep /\ Unseen
  BY <1>1 DEF OtherStep, Unseen, OtherHandler, Next, Handler
<1>2. ASSUME NEW s \in Session, NEW ok \in BOOLEAN, Greet(s, ok) PROVE [Next]_vars
  BY <1>2 DEF Greet, Next, Handler
<1>3. ASSUME NEW s \in Session, NEW ok \in BOOLEAN, Dismiss(s, ok) PROVE [Next]_vars
  BY <1>3 DEF Dismiss, Next, Handler
<1>4. ASSUME NEW s \in Session, Poll(s) PROVE [Next]_vars
  BY <1>4 DEF Poll
<1>5. ASSUME NEW s \in Session, NEW p \in Session, NEW ok \in BOOLEAN, Notify(s, p, ok)
      PROVE  [Next]_vars
  <2>1. /\ SendTo(p, ok)
        /\ UNCHANGED <<peer, username, recent, byId, byName, abandoned, dbStatus,
                       pc, name, victim, leaving, suspects, requests, faults>>
    BY <1>5 DEF Notify, registry, local, bounds
  <2>2. CASE closed[p] \/ ok
    <3>1. closed' = closed
      BY <2>1, <2>2 DEF SendTo, Send, SendResult, SafeTypes, TypeOK
    <3>2. QED
      BY <2>1, <3>1 DEF vars
  <2>3. CASE ~closed[p] /\ ~ok
    <3>1. ForwardFails(p)
      BY <2>1, <2>3 DEF ForwardFails, registry, local, bounds
    <3>2. QED
      BY <3>1 DEF Next, Environment
  <2>4. QED
    BY <2>2, <2>3
<1>6. ASSUME NEW s \in Session, BroadcastEnds(s) PROVE [Next]_vars
  BY <1>6 DEF BroadcastEnds, Next, Handler
<1>7. CASE UNCHANGED pvars
  BY <1>7 DEF pvars
<1>8. QED
  BY <1>1, <1>2, <1>3, <1>4, <1>5, <1>6, <1>7 
  DEF PresenceNext, Reader, Heartbeat, OtherStep, Broadcast, Thread

\* Broadcasting adds nothing but the clients' views to what the registry does,
\* so every theorem about the registry holds of the server with its broadcasts.
THEOREM PresenceRefinesRegistry == PresenceSpec => RefinesRegistry
<1>1. PresenceInit => Init
  BY DEF PresenceInit
<1>2. Init => SafeTypes
  BY RegistryAssumption DEF Init, SafeTypes, TypeOK, Thread, ReaderPC, KickPC, RemovePC
<1>3. SafeTypes /\ [PresenceNext]_pvars => [Next]_vars
  BY PresenceStep
<1>4. SafeTypes /\ [Next]_vars => SafeTypes'
  BY SafeTypesStep
<1>5. QED
  BY <1>1, <1>2, <1>3, <1>4, PTL DEF PresenceSpec, RefinesRegistry, RegistrySpec

-----------------------------------------------------------------------------
(* A client gets its LOGIN response before any USER_STATUS.                 *)

Greeting == StatusAfterLogin /\ NameHoldersGreeted

LEMMA GreetingStep ==
  ASSUME SafeTypes, Greeting, [PresenceNext]_pvars PROVE Greeting'
<1> USE RegistryAssumption
    DEF Greeting, StatusAfterLogin, NameHoldersGreeted, SafeTypes, TypeOK, Thread,
        registry, local, bounds
<1>1. CASE OtherStep /\ Unseen
  <2>1. UNCHANGED <<greeted, audience>>
    BY <1>1 DEF Unseen
  <2>2. StatusAfterLogin'
    BY <2>1
  <2>3. SUFFICES NameHoldersGreeted'
    BY <2>2
  <2> DEFINE Kept == /\ \A x \in Session : pc'[x] = "bind" => pc[x] = "bind"
                     /\ \A u \in User : byName'[u] # NoSession => byName'[u] \in greeted
  <2>4. Kept
    <3>1. ASSUME NEW s \in Session, PeerStalls(s) PROVE Kept
      BY <3>1 DEF PeerStalls, Peer, Fault
    <3>2. ASSUME NEW s \in Session, PeerResumes(s) PROVE Kept
      BY <3>2 DEF PeerResumes, Peer
    <3>3. ASSUME NEW s \in Session, PeerLeaves(s) PROVE Kept
      BY <3>3 DEF PeerLeaves, Peer, Fault
    <3>4. ASSUME NEW s \in Session, Silence(s) PROVE Kept
      BY <3>4 DEF Silence, Fault
    <3>5. ASSUME NEW s \in Session, ForwardFails(s) PROVE Kept
      BY <3>5 DEF ForwardFails, SendTo, Send
    <3>6. ASSUME NEW s \in Session, Accept(s) PROVE Kept
      BY <3>6 DEF Accept, Goto
    <3>7. ASSUME NEW s \in Session, NEW u \in User, DispatchLogin(s, u) PROVE Kept
      BY <3>7 DEF DispatchLogin, Touch, Count, Goto
    <3>8. ASSUME NEW s \in Session, DispatchLogout(s) PROVE Kept
      BY <3>8 DEF DispatchLogout, Touch, Count, Goto
    <3>9. ASSUME NEW s \in Session, NEW ok \in BOOLEAN, DispatchOther(s, ok) PROVE Kept
      BY <3>9 DEF DispatchOther, Touch, SendTo, Send
    <3>10. ASSUME NEW s \in Session, LoginAcquire(s) PROVE Kept
      BY <3>10 DEF LoginAcquire, Goto, Return
    <3>11. ASSUME NEW s \in Session, LoginBind(s) PROVE Kept
      BY <3>11 DEF LoginBind, Goto
    <3>12. ASSUME NEW s \in Session, MarkOnline(s) PROVE Kept
      BY <3>12 DEF MarkOnline, Goto
    <3>13. ASSUME NEW s \in Session, LogoutUnbind(s) PROVE Kept
      BY <3>13 DEF LogoutUnbind, Goto
    <3>14. ASSUME NEW s \in Session, LogoutMark(s) PROVE Kept
      BY <3>14 DEF LogoutMark, Goto
    <3>15. ASSUME NEW s \in Session, ReaderStops(s) PROVE Kept
      BY <3>15 DEF ReaderStops, Goto
    <3>16. ASSUME NEW t \in Thread, NEW ok \in BOOLEAN, KickNotice(t, ok) PROVE Kept
      BY <3>16 DEF KickNotice, SendTo, Send, Goto
    <3>17. ASSUME NEW t \in Thread, RemoveIndex(t) PROVE Kept
      BY <3>17 DEF RemoveIndex, BoundUnder, Goto
    <3>18. ASSUME NEW t \in Thread, MarkOffline(t) PROVE Kept
      BY <3>18 DEF MarkOffline, Goto
    <3>19. ASSUME NEW t \in Thread, CloseVictim(t) PROVE Kept
      BY <3>19 DEF CloseVictim, Goto
    <3>20. ASSUME SweepStart PROVE Kept
      BY <3>20 DEF SweepStart
    <3>21. ASSUME NEW s \in Session, SweepSkip(s) PROVE Kept
      BY <3>21 DEF SweepSkip
    <3>22. ASSUME NEW s \in Session, SweepKick(s) PROVE Kept
      BY <3>22 DEF SweepKick, Goto
    <3>23. ASSUME NEW s \in Session, AnswerRaises(s) PROVE Kept
      BY <3>23 DEF AnswerRaises, Touch, Fault, Goto
    <3>24. QED
      BY <1>1, <3>1, <3>2, <3>3, <3>4, <3>5, <3>6, <3>7, <3>8, <3>9, <3>10, <3>11,
         <3>12, <3>13, <3>14, <3>15, <3>16, <3>17, <3>18, <3>19, <3>20, <3>21, <3>22,
         <3>23
      DEF OtherStep, Unseen, Environment, Requests, OtherHandler, Remove, Sweep
  <2>5. QED
    BY <2>1, <2>4
<1>2. ASSUME NEW s \in Session, NEW ok \in BOOLEAN, Greet(s, ok) PROVE Greeting'
  BY <1>2 DEF Greet, LoginRespond, Goto, Return
<1>3. ASSUME NEW s \in Session, NEW ok \in BOOLEAN, Dismiss(s, ok) PROVE Greeting'
  BY <1>3 DEF Dismiss, LogoutReply, Goto
<1>4. ASSUME NEW s \in Session, Poll(s) PROVE Greeting'
  BY <1>4 DEF Poll, AuthenticatedSessions, vars
<1>5. ASSUME NEW s \in Session, NEW p \in Session, NEW ok \in BOOLEAN, Notify(s, p, ok)
      PROVE  Greeting'
  BY <1>5 DEF Notify
<1>6. ASSUME NEW s \in Session, BroadcastEnds(s) PROVE Greeting'
  BY <1>6 DEF BroadcastEnds, Announced, Return, Goto
<1>7. CASE UNCHANGED pvars
  BY <1>7 DEF pvars, vars
<1> HIDE DEF Greeting
<1>8. QED
  BY <1>1, <1>2, <1>3, <1>4, <1>5, <1>6, <1>7 
  DEF PresenceNext, Reader, Heartbeat, OtherStep, Broadcast, Thread

\* Whatever handlers overlap, no status broadcast aims at a client that has
\* not got its LOGIN response: the purpose of login's pre_attach_send.
THEOREM StatusAlwaysAfterLogin == PresenceSpec => []StatusAfterLogin
<1>1. PresenceInit => SafeTypes /\ Greeting
  BY RegistryAssumption DEF PresenceInit, Init, SafeTypes, TypeOK, Thread, ReaderPC,
     KickPC,
     RemovePC, Greeting, StatusAfterLogin, NameHoldersGreeted
<1>2. SafeTypes /\ Greeting /\ [PresenceNext]_pvars => SafeTypes' /\ Greeting'
  BY PresenceStep, SafeTypesStep, GreetingStep
<1>3. Greeting => StatusAfterLogin
  BY DEF Greeting
<1>4. QED
  BY <1>1, <1>2, <1>3, PTL DEF PresenceSpec

-----------------------------------------------------------------------------
(* Types.                                                                   *)

ViewTypes ==
  /\ view \in [Session -> SUBSET User]
  /\ greeted \subseteq Session
  /\ polled \subseteq Session
  /\ audience \in [Session -> SUBSET Session]

\* A roster and a broadcast speak of users only, because a thread past its
\* dispatch has a name.
LEMMA ViewTypesStep == SafeTypes /\ ViewTypes /\ [PresenceNext]_pvars => ViewTypes'
<1> SUFFICES ASSUME SafeTypes, ViewTypes, [PresenceNext]_pvars PROVE ViewTypes'
  OBVIOUS
<1> USE DEF ViewTypes
<1>1. CASE Unseen
  BY <1>1 DEF Unseen
<1>2. ASSUME NEW s \in Session, NEW ok \in BOOLEAN, Greet(s, ok) PROVE ViewTypes'
  BY <1>2 DEF Greet, LoginRespond, OnlineUsers, SafeTypes
<1>3. ASSUME NEW s \in Session, NEW ok \in BOOLEAN, Dismiss(s, ok) PROVE ViewTypes'
  BY <1>3 DEF Dismiss
<1>4. ASSUME NEW s \in Session, Poll(s) PROVE ViewTypes'
  BY <1>4 DEF Poll, AuthenticatedSessions, SafeTypes, TypeOK
<1>5. ASSUME NEW s \in Session, NEW p \in Session, NEW ok \in BOOLEAN, Notify(s, p, ok)
      PROVE  ViewTypes'
  <2>1. name[s] \in User
    BY <1>5 DEF Notify, SafeTypes
  <2>2. Seen(s, view[p]) \in SUBSET User
    BY <2>1 DEF Seen
  <2>3. QED
    BY <1>5, <2>2 DEF Notify
<1>6. ASSUME NEW s \in Session, BroadcastEnds(s) PROVE ViewTypes'
  BY <1>6 DEF BroadcastEnds
<1>7. CASE UNCHANGED pvars
  BY <1>7 DEF pvars
<1>8. QED
  BY <1>1, <1>2, <1>3, <1>4, <1>5, <1>6, <1>7
  DEF PresenceNext, Reader, Heartbeat, Broadcast

\* Every variable of the registry and of the clients' views keeps its type: a
\* view names users only, a broadcast aims at connections only.
THEOREM PresenceTypesAlways == PresenceSpec => []PresenceTypeOK
<1>1. PresenceInit => SafeTypes /\ ViewTypes
  BY RegistryAssumption DEF PresenceInit, Init, SafeTypes, TypeOK, Thread, ReaderPC,
     KickPC, RemovePC, ViewTypes
<1>2. SafeTypes /\ ViewTypes /\ [PresenceNext]_pvars => SafeTypes' /\ ViewTypes'
  BY PresenceStep, SafeTypesStep, ViewTypesStep
<1>3. SafeTypes /\ ViewTypes => PresenceTypeOK
  BY DEF SafeTypes, ViewTypes, PresenceTypeOK
<1>4. QED
  BY <1>1, <1>2, <1>3, PTL DEF PresenceSpec

-----------------------------------------------------------------------------
(* The server with its broadcasts, seen from its callers.                   *)

\* Each name still leads to one connection, which is bound under it, however
\* broadcasts and the peers they cut off interleave with logins, logouts and
\* removals; so callers may go on relying on SessionDirectory.
THEOREM PresenceKeepsTheDirectory ==
  PresenceSpec => []SingleLogin /\ []OpenIsBound /\ DirectorySafety
<1>1. PresenceSpec => RegistrySpec
  BY PresenceRefinesRegistry DEF RefinesRegistry
<1>2. QED
  BY <1>1, SingleLoginAlways, OpenIsBoundAlways, RegistryImplementsDirectory

-----------------------------------------------------------------------------
(* Of two logged-in clients, the one that bound last announces itself to the *)
(* other, whose view forgets it only for a late logout broadcast, which      *)
(* LogoutsSettle excludes, or a new LOGIN response, which shows it again.    *)

\* s is logged in, on an open connection its name leads to.
LoggedIn(s) == username[s] # NoUser /\ byName[username[s]] = s /\ ~closed[s]

\* The rest of s's logout, once its name is free.
Leaving(s) == pc[s] \in {"unmark", "reply", "depart"}

\* Nobody holds the name of a user whose logout is under way, for its late
\* USER_STATUS would make others take him for offline.
LogoutsSettle ==
  \A s \in Session : Leaving(s) /\ name[s] # NoUser => byName[name[s]] = NoSession

\* What is left of RosterComplete: as long as LogoutsSettle, of two clients
\* that are logged in one knows of the other once no handler is at work,
\* because a LOGIN response comes before the bind and its broadcast after it.
HalfRoster ==
  Quiet => \A s, d \in Session :
    s # d /\ LoggedIn(s) /\ LoggedIn(d)
      => username[d] \in view[s] \/ username[s] \in view[d]

\* s has bound its name and not yet told everybody.
Arriving(s) ==
  \/ pc[s] \in {"online", "arrive"}
  \/ pc[s] \in KickPC /\ victim[s] # s

\* d is known to s's client, or d's broadcast is to reach it.
LearnsOf(s, d) ==
  \/ username[d] \in view[s]
  \/ Arriving(d) /\ (d \notin polled \/ s \in audience[d])

\* The inductive form of HalfRoster: it speaks of the middle of handlers too.
OneLearns ==
  \A s, d \in Session :
    s # d /\ LoggedIn(s) /\ LoggedIn(d) => LearnsOf(s, d) \/ LearnsOf(d, s)

\* Who broadcasts, and under which name.
Announcers ==
  /\ \A s \in polled : pc[s] \in {"arrive", "depart"}
  /\ \A s \in Session : Arriving(s) => name[s] = username[s]
  /\ \A s \in Session : Leaving(s) => username[s] = NoUser

\* Steps of the registry other than a bind log nobody in, and change neither
\* what an announcing thread announces nor that it does.
Unannounced ==
  /\ \A x \in Session : LoggedIn(x)' => LoggedIn(x) /\ username'[x] = username[x]
  /\ \A x \in Session : Arriving(x)' <=> Arriving(x)
  /\ \A x \in Session : Arriving(x) => name'[x] = name[x] /\ username'[x] = username[x]
  /\ \A x \in Session : Leaving(x)' => username'[x] = NoUser
  /\ \A x \in Session : pc[x] \in {"arrive", "depart"} => pc'[x] = pc[x]

\* Nobody opens a connection again.
LEMMA SendsOnlyClose ==
  ASSUME SafeTypes, NEW p, NEW ok, Send(p, ok)
  PROVE  \A x \in Session : ~closed'[x] => ~closed[x]
<1> SUFFICES ASSUME NEW x \in Session, closed[x] PROVE closed'[x]
  OBVIOUS
<1>1. closed' = [closed EXCEPT ![p] = ~ok] /\ ok \in SendResult(p)
  BY DEF Send
<1>2. closed \in [Session -> BOOLEAN]
  BY DEF SafeTypes, TypeOK
<1>3. CASE x = p
  <2>1. ok = FALSE
    BY <1>1, <1>3 DEF SendResult
  <2>2. QED
    BY <1>1, <1>2, <1>3, <2>1
<1>4. CASE x # p
  BY <1>1, <1>2, <1>4
<1>5. QED
  BY <1>3, <1>4

\* Only a login's bind gives a name or begins an announcement.
LEMMA UnannouncedStep ==
  ASSUME SafeTypes, Announcers, OtherStep,
         \A s \in Session : ~LoginBind(s)
  PROVE  Unannounced
<1> USE RegistryAssumption
    DEF SafeTypes, TypeOK, Thread, registry, local, bounds, KickPC, RemovePC,
        Unannounced, Announcers, LoggedIn, Arriving, Leaving
<1>1. ASSUME NEW s \in Session, PeerStalls(s) PROVE Unannounced
  BY <1>1 DEF PeerStalls, Peer, Fault
<1>2. ASSUME NEW s \in Session, PeerResumes(s) PROVE Unannounced
  BY <1>2 DEF PeerResumes, Peer
<1>3. ASSUME NEW s \in Session, PeerLeaves(s) PROVE Unannounced
  BY <1>3 DEF PeerLeaves, Peer, Fault
<1>4. ASSUME NEW s \in Session, Silence(s) PROVE Unannounced
  BY <1>4 DEF Silence, Fault
<1>5. ASSUME NEW s \in Session, ForwardFails(s) PROVE Unannounced
  BY <1>5 DEF ForwardFails, SendTo, Send, SendResult
<1>6. ASSUME NEW s \in Session, Accept(s) PROVE Unannounced
  BY <1>6 DEF Accept, Goto
<1>7. ASSUME NEW s \in Session, NEW u \in User, DispatchLogin(s, u) 
       PROVE Unannounced
  BY <1>7 DEF DispatchLogin, Touch, Count, Goto
<1>8. ASSUME NEW s \in Session, DispatchLogout(s) PROVE Unannounced
  BY <1>8 DEF DispatchLogout, Touch, Count, Goto
<1>9. ASSUME NEW s \in Session, NEW ok \in BOOLEAN, DispatchOther(s, ok) 
       PROVE Unannounced
  <2>1. \A x \in Session : ~closed'[x] => ~closed[x]
    BY <1>9, SendsOnlyClose DEF DispatchOther, SendTo
  <2>2. QED
    BY <1>9, <2>1 DEF DispatchOther, Touch
<1>10. ASSUME NEW s \in Session, LoginAcquire(s) PROVE Unannounced
  BY <1>10 DEF LoginAcquire, Goto, Return
<1>11. ASSUME NEW s \in Session, MarkOnline(s) PROVE Unannounced
  BY <1>11 DEF MarkOnline, Goto
<1>12. ASSUME NEW s \in Session, LogoutUnbind(s) PROVE Unannounced
  BY <1>12 DEF LogoutUnbind, Goto
<1>13. ASSUME NEW s \in Session, LogoutMark(s) PROVE Unannounced
  BY <1>13 DEF LogoutMark, Goto
<1>14. ASSUME NEW s \in Session, ReaderStops(s) PROVE Unannounced
  BY <1>14 DEF ReaderStops, Goto
<1>15. ASSUME NEW t \in Thread, NEW ok \in BOOLEAN, KickNotice(t, ok) 
       PROVE Unannounced
  <2>1. \A x \in Session : ~closed'[x] => ~closed[x]
    BY <1>15, SendsOnlyClose DEF KickNotice, SendTo
  <2>2. QED
    BY <1>15, <2>1 DEF KickNotice, Goto
<1>16. ASSUME NEW t \in Thread, RemoveIndex(t) PROVE Unannounced
  BY <1>16 DEF RemoveIndex, BoundUnder, Goto
<1>17. ASSUME NEW t \in Thread, MarkOffline(t) PROVE Unannounced
  BY <1>17 DEF MarkOffline, Goto
<1>18. ASSUME NEW t \in Thread, CloseVictim(t) PROVE Unannounced
  BY <1>18 DEF CloseVictim, Goto
<1>19. ASSUME SweepStart PROVE Unannounced
  BY <1>19 DEF SweepStart
<1>20. ASSUME NEW s \in Session, SweepSkip(s) PROVE Unannounced
  BY <1>20 DEF SweepSkip
<1>21. ASSUME NEW s \in Session, SweepKick(s) PROVE Unannounced
  BY <1>21 DEF SweepKick, Goto
<1>22. ASSUME NEW s \in Session, AnswerRaises(s) PROVE Unannounced
  BY <1>22 DEF AnswerRaises, Touch, Fault, Goto
<1> HIDE DEF SafeTypes, TypeOK, Thread, registry, local, bounds, KickPC,
             RemovePC, Unannounced, Announcers, LoggedIn, Arriving, Leaving
<1>23. ASSUME NEW s \in Session, Environment(s) PROVE Unannounced
  BY <1>1, <1>2, <1>3, <1>4, <1>5, <1>23 DEF Environment
<1>24. ASSUME NEW s \in Session, Requests(s) PROVE Unannounced
  BY <1>6, <1>7, <1>8, <1>9, <1>22, <1>24 DEF Requests
<1>25. ASSUME NEW s \in Session, OtherHandler(s) PROVE Unannounced
  BY <1>10, <1>11, <1>12, <1>13, <1>14, <1>25 DEF OtherHandler
<1>26. ASSUME NEW t \in Thread, Remove(t) PROVE Unannounced
  BY <1>15, <1>16, <1>17, <1>18, <1>26 DEF Remove
<1>27. CASE Sweep
  BY <1>19, <1>20, <1>21, <1>27 DEF Sweep
<1>28. QED
  BY <1>23, <1>24, <1>25, <1>26, <1>27 DEF OtherStep

\* A thread announces the name its connection is bound under, or has given up.
LEMMA AnnouncersStep ==
  ASSUME SafeTypes, ViewTypes, Announcers, [PresenceNext]_pvars
  PROVE  Announcers'
<1> USE RegistryAssumption
    DEF SafeTypes, TypeOK, ViewTypes, Thread, registry, local, bounds, KickPC, RemovePC
<1>1. CASE Unannounced /\ Unseen
  BY <1>1 DEF Unannounced, Unseen, Announcers
<1>2. ASSUME NEW s \in Session, LoginBind(s), Unseen PROVE Announcers'
  BY <1>2 DEF LoginBind, Goto, Unseen, Announcers, Arriving, Leaving
<1>3. ASSUME NEW s \in Session, NEW ok \in BOOLEAN, Greet(s, ok) PROVE Announcers'
  BY <1>3 DEF Greet, LoginRespond, Goto, Return, Announcers, Arriving, Leaving
<1>4. ASSUME NEW s \in Session, NEW ok \in BOOLEAN, Dismiss(s, ok) PROVE Announcers'
  BY <1>4 DEF Dismiss, LogoutReply, Goto, Announcers, Arriving, Leaving
<1>5. ASSUME NEW s \in Session, Poll(s) PROVE Announcers'
  BY <1>5 DEF Poll, vars, Announcers, Arriving, Leaving
<1>6. ASSUME NEW s \in Session, NEW p \in Session, NEW ok \in BOOLEAN, Notify(s, p, ok)
      PROVE  Announcers'
  BY <1>6 DEF Notify, Announcers, Arriving, Leaving
<1>7. ASSUME NEW s \in Session, BroadcastEnds(s) PROVE Announcers'
  BY <1>7 DEF BroadcastEnds, Announced, Return, Goto, Announcers, Arriving, Leaving
<1>8. CASE UNCHANGED pvars
  BY <1>8 DEF pvars, vars, Announcers, Arriving, Leaving
<1>9. QED
  <2>1. CASE OtherStep /\ Unseen
    BY <2>1, UnannouncedStep, <1>1, <1>2
  <2>2. QED
    BY <2>1, <1>3, <1>4, <1>5, <1>6, <1>7, <1>8
    DEF PresenceNext, Reader, Heartbeat, OtherStep, Broadcast

\* A client that is logged in is told of one that binds its name, or its own
\* announcement is still to reach that one.
LEMMA OneLearnsStep ==
  ASSUME SafeTypes, ViewTypes, Announcers, LogoutsSettle, OneLearns,
         [PresenceNext]_pvars
  PROVE  OneLearns'
<1> USE RegistryAssumption
    DEF SafeTypes, TypeOK, ViewTypes, Thread, registry, local, bounds
<1> DEFINE Kept(s, d) == LoggedIn(s) /\ LoggedIn(d) /\ LearnsOf(s, d) => LearnsOf(s, d)'
<1>0. ASSUME \A x, d \in Session : x # d /\ LoggedIn(x)' /\ LoggedIn(d)'
                 => LoggedIn(x) /\ LoggedIn(d) /\ Kept(x, d)
      PROVE  OneLearns'
  <2> SUFFICES ASSUME NEW x \in Session, NEW d \in Session, x # d,
                      LoggedIn(x)', LoggedIn(d)'
               PROVE  LearnsOf(x, d)' \/ LearnsOf(d, x)'
    BY DEF OneLearns
  <2>1. LoggedIn(x) /\ LoggedIn(d) /\ Kept(x, d) /\ Kept(d, x)
    BY <1>0
  <2>2. LearnsOf(x, d) \/ LearnsOf(d, x)
    BY <2>1 DEF OneLearns
  <2>3. QED
    BY <2>1, <2>2
<1>1. CASE Unannounced /\ Unseen
  <2> SUFFICES ASSUME NEW x \in Session, NEW d \in Session, x # d,
                      LoggedIn(x)', LoggedIn(d)'
               PROVE  LoggedIn(x) /\ LoggedIn(d) /\ (LearnsOf(x, d) => LearnsOf(x, d)')
    BY <1>0
  <2>1. LoggedIn(x) /\ LoggedIn(d) /\ username'[d] = username[d]
    BY <1>1 DEF Unannounced
  <2>2. Arriving(d)' <=> Arriving(d)
    BY <1>1 DEF Unannounced
  <2>3. QED
    BY <1>1, <2>1, <2>2 DEF LearnsOf, Unseen
<1>2. ASSUME NEW y \in Session, LoginBind(y), Unseen PROVE OneLearns'
  <2> USE DEF LoginBind, Goto
  <2>1. Arriving(y)'
    BY <1>2 DEF Arriving, KickPC
  <2>2. y \notin polled'
    BY <1>2 DEF Unseen, Announcers
  <2>3. \A x \in Session : LearnsOf(x, y)'
    BY <2>1, <2>2 DEF LearnsOf
  <2>4. ASSUME NEW x \in Session, x # y
        PROVE  /\ LoggedIn(x)' => LoggedIn(x)
               /\ username'[x] = username[x]
               /\ Arriving(x) => Arriving(x)'
    <3>1. /\ username'[x] = username[x]
          /\ pc'[x] = pc[x]
          /\ victim'[x] = victim[x]
          /\ closed' = closed
      BY <1>2, <2>4
    <3>2. ASSUME username[x] # NoUser, byName'[username[x]] = x
          PROVE  byName[username[x]] = x
      BY <1>2, <2>4, <3>2
    <3>3. QED
      BY <3>1, <3>2 DEF LoggedIn, Arriving
  <2>5. ASSUME NEW x \in Session, NEW d \in Session, x # d, x # y, d # y,
               LoggedIn(x)', LoggedIn(d)'
        PROVE  LearnsOf(x, d)' \/ LearnsOf(d, x)'
    <3>1. LearnsOf(x, d) \/ LearnsOf(d, x)
      BY <2>4, <2>5 DEF OneLearns
    <3>2. QED
      BY <1>2, <2>4, <2>5, <3>1 DEF LearnsOf, Unseen
  <2>6. QED
    BY <2>3, <2>5 DEF OneLearns
<1>3. ASSUME NEW y \in Session, NEW ok \in BOOLEAN, Greet(y, ok) PROVE OneLearns'
  <2> USE DEF Greet, LoginRespond
  <2> SUFFICES ASSUME NEW x \in Session, NEW d \in Session, x # d,
                      LoggedIn(x)', LoggedIn(d)'
               PROVE  LoggedIn(x) /\ LoggedIn(d) /\ (LearnsOf(x, d) => LearnsOf(x, d)')
    BY <1>0
  <2>1. \A z \in Session : ~closed'[z] => ~closed[z]
    BY <1>3, SendsOnlyClose
  <2>2. LoggedIn(x) /\ LoggedIn(d)
    BY <1>3, <2>1 DEF LoggedIn
  <2>3. Arriving(d) => Arriving(d)'
    BY <1>3 DEF Arriving, KickPC, RemovePC, Goto, Return
  <2>4. username[d] \in view[x] => username'[d] \in view'[x]
    <3>1. username[d] \in OnlineUsers
      BY <2>2 DEF LoggedIn, OnlineUsers
    <3>2. QED
      BY <1>3, <3>1
  <2>5. QED
    BY <1>3, <2>2, <2>3, <2>4 DEF LearnsOf
<1>4. ASSUME NEW y \in Session, NEW ok \in BOOLEAN, Dismiss(y, ok) PROVE OneLearns'
  <2> USE DEF Dismiss, LogoutReply
  <2> SUFFICES ASSUME NEW x \in Session, NEW d \in Session, x # d,
                      LoggedIn(x)', LoggedIn(d)'
               PROVE  LoggedIn(x) /\ LoggedIn(d) /\ (LearnsOf(x, d) => LearnsOf(x, d)')
    BY <1>0
  <2>1. \A z \in Session : ~closed'[z] => ~closed[z]
    BY <1>4, SendsOnlyClose DEF SendTo
  <2>2. LoggedIn(x) /\ LoggedIn(d)
    BY <1>4, <2>1 DEF LoggedIn
  <2>3. x # y
    BY <1>4, <2>2 DEF LoggedIn, Announcers, Leaving
  <2>4. Arriving(d) => Arriving(d)'
    BY <1>4 DEF Arriving, KickPC, RemovePC, Goto
  <2>5. QED
    BY <1>4, <2>2, <2>3, <2>4 DEF LearnsOf
<1>5. ASSUME NEW y \in Session, Poll(y) PROVE OneLearns'
  <2> USE DEF Poll, vars
  <2> SUFFICES ASSUME NEW x \in Session, NEW d \in Session, x # d,
                      LoggedIn(x)', LoggedIn(d)'
               PROVE  LoggedIn(x) /\ LoggedIn(d) /\ (LearnsOf(x, d) => LearnsOf(x, d)')
    BY <1>0
  <2>1. LoggedIn(x) /\ LoggedIn(d)
    BY <1>5 DEF LoggedIn
  <2>2. x \in AuthenticatedSessions
    BY <2>1 DEF LoggedIn, AuthenticatedSessions
  <2>3. Arriving(d) => Arriving(d)'
    BY <1>5 DEF Arriving
  <2>4. CASE d = y
    <3>1. d \in polled' /\ x \in audience'[d]
      BY <1>5, <2>2, <2>4
    <3>2. QED
      BY <1>5, <2>1, <2>3, <3>1 DEF LearnsOf
  <2>5. CASE d # y
    BY <1>5, <2>1, <2>3, <2>5 DEF LearnsOf
  <2>6. QED
    BY <2>4, <2>5
<1>6. ASSUME NEW y \in Session, NEW p \in Session, NEW ok \in BOOLEAN, Notify(y, p, ok)
      PROVE  OneLearns'
  <2> USE DEF Notify
  <2> SUFFICES ASSUME NEW x \in Session, NEW d \in Session, x # d,
                      LoggedIn(x)', LoggedIn(d)'
               PROVE  LoggedIn(x) /\ LoggedIn(d) /\ (LearnsOf(x, d) => LearnsOf(x, d)')
    BY <1>0
  <2>1. \A z \in Session : ~closed'[z] => ~closed[z]
    BY <1>6, SendsOnlyClose DEF SendTo
  <2>2. LoggedIn(x) /\ LoggedIn(d)
    BY <1>6, <2>1 DEF LoggedIn
  <2>3. Arriving(d) => Arriving(d)'
    BY <1>6 DEF Arriving
  <2>4. /\ username' = username /\ polled' = polled
        /\ d # y => audience'[d] = audience[d]
    BY <1>6
  <2>5. CASE x = p
    <3>1. ok
      BY <1>6, <2>5 DEF LoggedIn, SendTo, Send
    <3>2. view'[x] = Seen(y, view[x])
      BY <1>6, <2>5, <3>1
    <3>3. CASE pc[y] = "arrive"
      <4>1. view'[x] = view[x] \union {name[y]}
        BY <3>2, <3>3 DEF Seen
      <4>2. CASE d = y
        <5>1. name[y] = username[y]
          BY <3>3 DEF Announcers, Arriving
        <5>2. QED
          BY <2>2, <2>4, <4>1, <4>2, <5>1 DEF LearnsOf
      <4>3. CASE d # y
        BY <2>2, <2>3, <2>4, <4>1, <4>3 DEF LearnsOf
      <4>4. QED
        BY <4>2, <4>3
    <3>4. CASE pc[y] = "depart"
      <4>1. view'[x] = view[x] \ {name[y]}
        BY <3>2, <3>4 DEF Seen
      <4>2. name[y] # username[d]
        BY <2>2, <3>4 DEF LogoutsSettle, Leaving, LoggedIn
      <4>3. d # y
        BY <2>2, <3>4 DEF LoggedIn, Announcers, Leaving
      <4>4. QED
        BY <2>2, <2>3, <2>4, <4>1, <4>2, <4>3 DEF LearnsOf
    <3>5. QED
      BY <1>6, <3>3, <3>4
  <2>6. CASE x # p
    <3>1. view'[x] = view[x]
      BY <1>6, <2>6
    <3>2. x \in audience[d] => x \in audience'[d]
      BY <1>6, <2>6
    <3>3. QED
      BY <2>2, <2>3, <2>4, <3>1, <3>2 DEF LearnsOf
  <2>7. QED
    BY <2>5, <2>6
<1>7. ASSUME NEW y \in Session, BroadcastEnds(y) PROVE OneLearns'
  <2> USE DEF BroadcastEnds, Announced, Return, Goto
  <2> SUFFICES ASSUME NEW x \in Session, NEW d \in Session, x # d,
                      LoggedIn(x)', LoggedIn(d)'
               PROVE  LoggedIn(x) /\ LoggedIn(d) /\ (LearnsOf(x, d) => LearnsOf(x, d)')
    BY <1>0
  <2>1. LoggedIn(x) /\ LoggedIn(d)
    BY <1>7 DEF LoggedIn
  <2>2. CASE d = y
    BY <1>7, <2>1, <2>2 DEF LearnsOf
  <2>3. CASE d # y
    <3>1. Arriving(d) => Arriving(d)'
      BY <1>7, <2>3 DEF Arriving
    <3>2. QED
      BY <1>7, <2>1, <2>3, <3>1 DEF LearnsOf
  <2>4. QED
    BY <2>2, <2>3
<1>8. CASE UNCHANGED pvars
  BY <1>8 DEF pvars, vars, OneLearns, LoggedIn, LearnsOf, Arriving
<1>9. QED
  <2>1. CASE OtherStep /\ Unseen
    BY <2>1, UnannouncedStep, <1>1, <1>2
  <2>2. QED
    BY <2>1, <1>3, <1>4, <1>5, <1>6, <1>7, <1>8
    DEF PresenceNext, Reader, Heartbeat, OtherStep, Broadcast

\* Once no handler is at work, one of any two logged-in clients shows the
\* other as online, unless a logout was overtaken by a login under its name.
THEOREM HalfRosterAlways == PresenceSpec /\ []LogoutsSettle => []HalfRoster
<1>1. PresenceInit => SafeTypes /\ ViewTypes /\ Announcers /\ OneLearns
  BY RegistryAssumption DEF PresenceInit, Init, SafeTypes, TypeOK, Thread, ReaderPC,
     KickPC, RemovePC, ViewTypes, Announcers, Arriving, Leaving, OneLearns, LoggedIn
<1>2. /\ SafeTypes /\ ViewTypes /\ Announcers /\ OneLearns
      /\ LogoutsSettle /\ [PresenceNext]_pvars
      => SafeTypes' /\ ViewTypes' /\ Announcers' /\ OneLearns'
  BY PresenceStep, SafeTypesStep, ViewTypesStep, AnnouncersStep, OneLearnsStep
<1>3. OneLearns => HalfRoster
  BY DEF OneLearns, HalfRoster, LearnsOf, Arriving, Quiet, Thread, KickPC, RemovePC
<1>4. QED
  BY <1>1, <1>2, <1>3, PTL DEF PresenceSpec
=============================================================================
