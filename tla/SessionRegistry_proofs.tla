----------------------- MODULE SessionRegistry_proofs -----------------------
(***************************************************************************)
(* Theorems about module SessionRegistry, for every set of connections and *)
(* users and whatever the bounds.                                          *)
(***************************************************************************)
EXTENDS SessionRegistry, TLAPS

-----------------------------------------------------------------------------
(* Types.  What is done for a name is done once a request has set it, so the *)
(* types and that fact are proved together.                                 *)

SafeTypes ==
  /\ TypeOK
  /\ \A s \in Session :
       pc[s] \in {"login", "respond", "bind", "online", "arrive", "unmark",
                 "depart"} => name[s] \in User
  /\ \A s \in Session :
       pc[s] \in KickPC /\ victim[s] # s => name[s] \in User

LEMMA SafeTypesStep ==
  ASSUME SafeTypes, [Next]_vars PROVE SafeTypes'
<1> USE RegistryAssumption
    DEF SafeTypes, TypeOK, Thread, ReaderPC, KickPC, RemovePC, registry, local, bounds
<1>1. ASSUME NEW s \in Session, PeerStalls(s) PROVE SafeTypes'
  BY <1>1 DEF PeerStalls, Peer, Fault
<1>2. ASSUME NEW s \in Session, PeerResumes(s) PROVE SafeTypes'
  BY <1>2 DEF PeerResumes, Peer
<1>3. ASSUME NEW s \in Session, PeerLeaves(s) PROVE SafeTypes'
  BY <1>3 DEF PeerLeaves, Peer, Fault
<1>4. ASSUME NEW s \in Session, Silence(s) PROVE SafeTypes'
  BY <1>4 DEF Silence, Fault
<1>5. ASSUME NEW s \in Session, ForwardFails(s) PROVE SafeTypes'
  BY <1>5 DEF ForwardFails, SendTo, Send
<1>6. ASSUME NEW s \in Session, Accept(s) PROVE SafeTypes'
  BY <1>6 DEF Accept, Goto
<1>7. ASSUME NEW s \in Session, NEW u \in User, DispatchLogin(s, u) PROVE SafeTypes'
  BY <1>7 DEF DispatchLogin, Touch, Count, Goto
<1>8. ASSUME NEW s \in Session, DispatchLogout(s) PROVE SafeTypes'
  BY <1>8 DEF DispatchLogout, Touch, Count, Goto
<1>9. ASSUME NEW s \in Session, NEW ok \in BOOLEAN, DispatchOther(s, ok)
      PROVE  SafeTypes'
  BY <1>9 DEF DispatchOther, Touch, SendTo, Send
<1>10. ASSUME NEW s \in Session, LoginAcquire(s) PROVE SafeTypes'
  BY <1>10 DEF LoginAcquire, Goto, Return
<1>11. ASSUME NEW s \in Session, NEW ok \in BOOLEAN, LoginRespond(s, ok)
       PROVE  SafeTypes'
  BY <1>11 DEF LoginRespond, Send, SendResult, Goto, Return
<1>12. ASSUME NEW s \in Session, LoginBind(s) PROVE SafeTypes'
  <2> USE <1>12 DEF LoginBind, Goto
  <2>1. byName' \in [User -> Session \union {NoSession}]
    OBVIOUS
  <2>2. username' \in [Session -> User \union {NoUser}] /\ recent' \in [Session -> BOOLEAN]
    OBVIOUS
  <2>3. abandoned' \in [Session -> SUBSET User]
    BY DEF Abandoned
  <2>4. CASE byName[name[s]] \in {NoSession, s}
    <3>1. pc' = [pc EXCEPT ![s] = "online"] /\ victim' = victim
      BY <2>4
    <3>2. QED
      BY <3>1, <2>1, <2>2, <2>3
  <2>5. CASE byName[name[s]] \notin {NoSession, s}
    <3>1. pc' = [pc EXCEPT ![s] = "kick"]
      BY <2>5
    <3>2. victim' = [victim EXCEPT ![s] = byName[name[s]]]
      BY <2>5
    <3>3. s \in Thread /\ name[s] \in User
      OBVIOUS
    <3>4. pc' \in [Thread -> ReaderPC \union KickPC \union {"sweep"}]
      BY <3>1, <3>3
    <3>5. victim' \in [Thread -> Session \union {NoSession}]
      BY <3>2, <3>3
    <3>6. QED
      BY <3>1, <3>4, <3>5, <2>1, <2>2, <2>3
  <2>6. QED
    BY <2>4, <2>5
<1>13. ASSUME NEW s \in Session, MarkOnline(s) PROVE SafeTypes'
  BY <1>13 DEF MarkOnline, Goto
<1>14. ASSUME NEW s \in Session, LogoutUnbind(s) PROVE SafeTypes'
  BY <1>14 DEF LogoutUnbind, Goto
<1>15. ASSUME NEW s \in Session, LogoutMark(s) PROVE SafeTypes'
  BY <1>15 DEF LogoutMark, Goto
<1>16. ASSUME NEW s \in Session, NEW ok \in BOOLEAN, LogoutReply(s, ok) PROVE SafeTypes'
  BY <1>16 DEF LogoutReply, SendTo, Send, SendResult, Goto
<1>17. ASSUME NEW s \in Session, Announced(s) PROVE SafeTypes'
  BY <1>17 DEF Announced, Return, Goto
<1>18. ASSUME NEW s \in Session, ReaderStops(s) PROVE SafeTypes'
  BY <1>18 DEF ReaderStops, Goto
<1>19. ASSUME NEW t \in Thread, NEW ok \in BOOLEAN, KickNotice(t, ok) PROVE SafeTypes'
  BY <1>19 DEF KickNotice, SendTo, Send, Goto
<1>20. ASSUME NEW t \in Thread, RemoveIndex(t) PROVE SafeTypes'
  BY <1>20 DEF RemoveIndex, BoundUnder, Goto
<1>21. ASSUME NEW t \in Thread, MarkOffline(t) PROVE SafeTypes'
  BY <1>21 DEF MarkOffline, Goto
<1>22. ASSUME NEW t \in Thread, CloseVictim(t) PROVE SafeTypes'
  BY <1>22 DEF CloseVictim, Goto
<1>23. ASSUME SweepStart PROVE SafeTypes'
  BY <1>23 DEF SweepStart
<1>24. ASSUME NEW s \in Session, SweepSkip(s) PROVE SafeTypes'
  BY <1>24 DEF SweepSkip
<1>25. ASSUME NEW s \in Session, SweepKick(s) PROVE SafeTypes'
  BY <1>25 DEF SweepKick, Goto
<1>26. ASSUME NEW s \in Session, AnswerRaises(s) PROVE SafeTypes'
  <2>1. recent' \in [Session -> BOOLEAN]
    BY <1>26 DEF AnswerRaises, Touch
  <2>2. faults' \in 0..MaxFaults
    BY <1>26 DEF AnswerRaises, Fault
  <2>3. /\ pc' = [pc EXCEPT ![s] = "remove"]
        /\ victim' = [victim EXCEPT ![s] = s]
        /\ name' = [name EXCEPT ![s] = NoUser]
        /\ UNCHANGED <<peer, closed, username, byId, byName, abandoned, dbStatus,
                       leaving, suspects, requests>>
    BY <1>26 DEF AnswerRaises, Goto
  <2>4. QED
    BY <2>1, <2>2, <2>3
<1>27. CASE UNCHANGED vars
  BY <1>27 DEF vars
<1> HIDE DEF SafeTypes, TypeOK, Thread, ReaderPC, KickPC, RemovePC, registry, local, bounds
<1>28. QED
  BY <1>1, <1>2, <1>3, <1>4, <1>5, <1>6, <1>7, <1>8, <1>9, <1>10, <1>11, <1>12, <1>13,
     <1>14, <1>15, <1>16, <1>17, <1>18, <1>19, <1>20, <1>21, <1>22, <1>23, <1>24,
     <1>25, <1>26, <1>27
  DEF Next, Environment, Requests, Handler, Remove, Sweep

LEMMA SafeTypesAlways == RegistrySpec => []SafeTypes
<1>1. Init => SafeTypes
  BY RegistryAssumption DEF Init, SafeTypes, TypeOK, Thread, ReaderPC, KickPC, RemovePC
<1>2. SafeTypes /\ [Next]_vars => SafeTypes'
  BY SafeTypesStep
<1>3. QED
  BY <1>1, <1>2, PTL DEF RegistrySpec

\* Every variable keeps its type: indexes lead to connections, local names
\* are usernames, the bounds are respected.
THEOREM TypeCorrect == RegistrySpec => []TypeOK
<1>1. SafeTypes => TypeOK
  BY DEF SafeTypes
<1>2. QED
  BY <1>1, SafeTypesAlways, PTL

-----------------------------------------------------------------------------
(* Single sign-on.                                                          *)

LEMMA OpenIsBoundStep ==
  ASSUME SafeTypes, OpenIsBound, [Next]_vars PROVE OpenIsBound'
<1> USE RegistryAssumption
    DEF SafeTypes, TypeOK, Thread, ReaderPC, KickPC, RemovePC, registry, local, bounds,
        OpenIsBound, Doomed
<1>1. ASSUME NEW s \in Session, PeerStalls(s) PROVE OpenIsBound'
  BY <1>1 DEF PeerStalls, Peer, Fault
<1>2. ASSUME NEW s \in Session, PeerResumes(s) PROVE OpenIsBound'
  BY <1>2 DEF PeerResumes, Peer
<1>3. ASSUME NEW s \in Session, PeerLeaves(s) PROVE OpenIsBound'
  BY <1>3 DEF PeerLeaves, Peer, Fault
<1>4. ASSUME NEW s \in Session, Silence(s) PROVE OpenIsBound'
  BY <1>4 DEF Silence, Fault
<1>5. ASSUME NEW s \in Session, ForwardFails(s) PROVE OpenIsBound'
  BY <1>5 DEF ForwardFails, SendTo, Send
<1>6. ASSUME NEW s \in Session, Accept(s) PROVE OpenIsBound'
  BY <1>6 DEF Accept, Goto
<1>7. ASSUME NEW s \in Session, NEW u \in User, DispatchLogin(s, u) PROVE OpenIsBound'
  BY <1>7 DEF DispatchLogin, Touch, Count, Goto
<1>8. ASSUME NEW s \in Session, DispatchLogout(s) PROVE OpenIsBound'
  BY <1>8 DEF DispatchLogout, Touch, Count, Goto
<1>9. ASSUME NEW s \in Session, NEW ok \in BOOLEAN, DispatchOther(s, ok)
      PROVE  OpenIsBound'
  <2>1. closed[s] => ok = FALSE
    BY <1>9 DEF DispatchOther, Touch, SendTo, Send, SendResult
  <2>2. closed' = [closed EXCEPT ![s] = ~ok]
    BY <1>9 DEF DispatchOther, Touch, SendTo, Send
  <2>3. \A x \in Session : ~closed'[x] => ~closed[x]
    BY <2>1, <2>2
  <2>4. pc[s] \notin KickPC
    BY <1>9 DEF DispatchOther, Touch
  <2>5. \A t \in Thread \ {s} : pc'[t] = pc[t]
    BY <1>9 DEF DispatchOther, Touch, Goto, Return
  <2>6. UNCHANGED <<username, byName, victim>>
    BY <1>9 DEF DispatchOther, Touch
  <2>7. QED
    BY <2>3, <2>4, <2>5, <2>6
<1>10. ASSUME NEW s \in Session, LoginAcquire(s) PROVE OpenIsBound'
  BY <1>10 DEF LoginAcquire, Goto, Return
<1>11. ASSUME NEW s \in Session, NEW ok \in BOOLEAN, LoginRespond(s, ok)
       PROVE  OpenIsBound'
  <2>1. closed[s] => ok = FALSE
    BY <1>11 DEF LoginRespond, Send, SendResult
  <2>2. closed' = [closed EXCEPT ![s] = ~ok]
    BY <1>11 DEF LoginRespond, Send
  <2>3. \A x \in Session : ~closed'[x] => ~closed[x]
    BY <2>1, <2>2
  <2>4. pc[s] \notin KickPC
    BY <1>11 DEF LoginRespond
  <2>5. \A t \in Thread \ {s} : pc'[t] = pc[t]
    BY <1>11 DEF LoginRespond, Goto, Return
  <2>6. UNCHANGED <<username, byName, victim>>
    BY <1>11 DEF LoginRespond
  <2>7. QED
    BY <2>3, <2>4, <2>5, <2>6
<1>12. ASSUME NEW s \in Session, LoginBind(s) PROVE OpenIsBound'
  BY <1>12 DEF LoginBind, Goto
<1>13. ASSUME NEW s \in Session, MarkOnline(s) PROVE OpenIsBound'
  BY <1>13 DEF MarkOnline, Goto
<1>14. ASSUME NEW s \in Session, LogoutUnbind(s) PROVE OpenIsBound'
  BY <1>14 DEF LogoutUnbind, Goto
<1>15. ASSUME NEW s \in Session, LogoutMark(s) PROVE OpenIsBound'
  BY <1>15 DEF LogoutMark, Goto
<1>16. ASSUME NEW s \in Session, NEW ok \in BOOLEAN, LogoutReply(s, ok)
       PROVE  OpenIsBound'
  <2>1. closed[s] => ok = FALSE
    BY <1>16 DEF LogoutReply, SendTo, Send, SendResult
  <2>2. closed' = [closed EXCEPT ![s] = ~ok]
    BY <1>16 DEF LogoutReply, SendTo, Send
  <2>3. \A x \in Session : ~closed'[x] => ~closed[x]
    BY <2>1, <2>2
  <2>4. pc[s] \notin KickPC
    BY <1>16 DEF LogoutReply
  <2>5. \A t \in Thread \ {s} : pc'[t] = pc[t]
    BY <1>16 DEF LogoutReply, Goto, Return
  <2>6. UNCHANGED <<username, byName, victim>>
    BY <1>16 DEF LogoutReply
  <2>7. QED
    BY <2>3, <2>4, <2>5, <2>6
<1>17. ASSUME NEW s \in Session, Announced(s) PROVE OpenIsBound'
  BY <1>17 DEF Announced, Return, Goto
<1>18. ASSUME NEW s \in Session, ReaderStops(s) PROVE OpenIsBound'
  BY <1>18 DEF ReaderStops, Goto
<1>19. ASSUME NEW t \in Thread, NEW ok \in BOOLEAN, KickNotice(t, ok) PROVE OpenIsBound'
  BY <1>19 DEF KickNotice, SendTo, Send, Goto
<1>20. ASSUME NEW t \in Thread, RemoveIndex(t) PROVE OpenIsBound'
  BY <1>20 DEF RemoveIndex, BoundUnder, Goto
<1>21. ASSUME NEW t \in Thread, MarkOffline(t) PROVE OpenIsBound'
  BY <1>21 DEF MarkOffline, Goto
<1>22. ASSUME NEW t \in Thread, CloseVictim(t) PROVE OpenIsBound'
  BY <1>22 DEF CloseVictim, Goto
<1>23. ASSUME SweepStart PROVE OpenIsBound'
  BY <1>23 DEF SweepStart
<1>24. ASSUME NEW s \in Session, SweepSkip(s) PROVE OpenIsBound'
  BY <1>24 DEF SweepSkip
<1>25. ASSUME NEW s \in Session, SweepKick(s) PROVE OpenIsBound'
  BY <1>25 DEF SweepKick, Goto
<1>26. ASSUME NEW s \in Session, AnswerRaises(s) PROVE OpenIsBound'
  BY <1>26 DEF AnswerRaises, Touch, Fault, Goto
<1>27. CASE UNCHANGED vars
  BY <1>27 DEF vars
<1> HIDE DEF SafeTypes, TypeOK, Thread, ReaderPC, KickPC, RemovePC, registry, local, bounds, OpenIsBound, Doomed
<1>28. QED
  BY <1>1, <1>2, <1>3, <1>4, <1>5, <1>6, <1>7, <1>8, <1>9, <1>10, <1>11, <1>12, <1>13,
     <1>14, <1>15, <1>16, <1>17, <1>18, <1>19, <1>20, <1>21, <1>22, <1>23, <1>24,
     <1>25, <1>26, <1>27
  DEF Next, Environment, Requests, Handler, Remove, Sweep

\* Whoever is logged in on an open connection is registered under that name
\* with that very connection, unless some thread is removing it just then.
THEOREM OpenIsBoundAlways == RegistrySpec => []OpenIsBound
<1>1. Init => OpenIsBound
  BY DEF Init, OpenIsBound
<1>2. SafeTypes /\ OpenIsBound /\ [Next]_vars => OpenIsBound'
  BY OpenIsBoundStep
<1>3. QED
  BY <1>1, <1>2, SafeTypesAlways, PTL DEF RegistrySpec

\* However many connections log in as one user, and whatever disconnects,
\* logouts and sweeps run meanwhile: of two open connections that carry the
\* same name, one is being removed.
THEOREM SingleLoginAlways == RegistrySpec => []SingleLogin
<1>1. OpenIsBound => SingleLogin
  BY DEF OpenIsBound, SingleLogin
<1>2. QED
  BY <1>1, OpenIsBoundAlways, PTL

-----------------------------------------------------------------------------
(* Complete removal.                                                        *)

LEMMA OneNameStep ==
  ASSUME SafeTypes, OneName, [Next]_vars PROVE OneName'
<1> USE RegistryAssumption
    DEF SafeTypes, TypeOK, Thread, ReaderPC, KickPC, RemovePC, registry, local, bounds,
        OneName
<1>1. ASSUME NEW s \in Session, PeerStalls(s) PROVE OneName'
  BY <1>1 DEF PeerStalls, Peer, Fault
<1>2. ASSUME NEW s \in Session, PeerResumes(s) PROVE OneName'
  BY <1>2 DEF PeerResumes, Peer
<1>3. ASSUME NEW s \in Session, PeerLeaves(s) PROVE OneName'
  BY <1>3 DEF PeerLeaves, Peer, Fault
<1>4. ASSUME NEW s \in Session, Silence(s) PROVE OneName'
  BY <1>4 DEF Silence, Fault
<1>5. ASSUME NEW s \in Session, ForwardFails(s) PROVE OneName'
  BY <1>5 DEF ForwardFails, SendTo, Send
<1>6. ASSUME NEW s \in Session, Accept(s) PROVE OneName'
  BY <1>6 DEF Accept, Goto
<1>7. ASSUME NEW s \in Session, NEW u \in User, DispatchLogin(s, u) PROVE OneName'
  BY <1>7 DEF DispatchLogin, Touch, Count, Goto
<1>8. ASSUME NEW s \in Session, DispatchLogout(s) PROVE OneName'
  BY <1>8 DEF DispatchLogout, Touch, Count, Goto
<1>9. ASSUME NEW s \in Session, NEW ok \in BOOLEAN, DispatchOther(s, ok) PROVE OneName'
  BY <1>9 DEF DispatchOther, Touch, SendTo, Send
<1>10. ASSUME NEW s \in Session, LoginAcquire(s) PROVE OneName'
  BY <1>10 DEF LoginAcquire, Goto, Return
<1>11. ASSUME NEW s \in Session, NEW ok \in BOOLEAN, LoginRespond(s, ok) PROVE OneName'
  BY <1>11 DEF LoginRespond, Send, SendResult, Goto, Return
<1>12. ASSUME NEW s \in Session, LoginBind(s) PROVE OneName'
  <2>1. /\ name[s] \in User
        /\ username' = [username EXCEPT ![s] = name[s]]
        /\ byName' = [byName EXCEPT ![name[s]] = s]
        /\ abandoned' = [abandoned EXCEPT ![s] = Abandoned(s)]
    BY <1>12 DEF LoginBind
  <2> SUFFICES ASSUME NEW u \in User, byName'[u] # NoSession
               PROVE  username'[byName'[u]] = u \/ u \in abandoned'[byName'[u]]
    OBVIOUS
  <2>2. CASE u = name[s]
    BY <2>1, <2>2
  <2>3. CASE u # name[s] /\ byName[u] = s
    <3>1. username[s] = u \/ u \in abandoned[s]
      BY <2>3
    <3>2. u \in Abandoned(s)
      BY <2>3, <3>1 DEF Abandoned
    <3>3. QED
      BY <2>1, <2>3, <3>2
  <2>4. CASE u # name[s] /\ byName[u] # s
    BY <2>1, <2>4
  <2>5. QED
    BY <2>2, <2>3, <2>4
<1>13. ASSUME NEW s \in Session, MarkOnline(s) PROVE OneName'
  BY <1>13 DEF MarkOnline, Goto
<1>14. ASSUME NEW s \in Session, LogoutUnbind(s) PROVE OneName'
  BY <1>14 DEF LogoutUnbind, Goto
<1>15. ASSUME NEW s \in Session, LogoutMark(s) PROVE OneName'
  BY <1>15 DEF LogoutMark, Goto
<1>16. ASSUME NEW s \in Session, NEW ok \in BOOLEAN, LogoutReply(s, ok) PROVE OneName'
  BY <1>16 DEF LogoutReply, SendTo, Send, SendResult, Goto
<1>17. ASSUME NEW s \in Session, Announced(s) PROVE OneName'
  BY <1>17 DEF Announced, Return, Goto
<1>18. ASSUME NEW s \in Session, ReaderStops(s) PROVE OneName'
  BY <1>18 DEF ReaderStops, Goto
<1>19. ASSUME NEW t \in Thread, NEW ok \in BOOLEAN, KickNotice(t, ok) PROVE OneName'
  BY <1>19 DEF KickNotice, SendTo, Send, Goto
<1>20. ASSUME NEW t \in Thread, RemoveIndex(t) PROVE OneName'
  BY <1>20 DEF RemoveIndex, BoundUnder, Goto
<1>21. ASSUME NEW t \in Thread, MarkOffline(t) PROVE OneName'
  BY <1>21 DEF MarkOffline, Goto
<1>22. ASSUME NEW t \in Thread, CloseVictim(t) PROVE OneName'
  BY <1>22 DEF CloseVictim, Goto
<1>23. ASSUME SweepStart PROVE OneName'
  BY <1>23 DEF SweepStart
<1>24. ASSUME NEW s \in Session, SweepSkip(s) PROVE OneName'
  BY <1>24 DEF SweepSkip
<1>25. ASSUME NEW s \in Session, SweepKick(s) PROVE OneName'
  BY <1>25 DEF SweepKick, Goto
<1>26. ASSUME NEW s \in Session, AnswerRaises(s) PROVE OneName'
  BY <1>26 DEF AnswerRaises, Touch, Fault, Goto
<1>27. CASE UNCHANGED vars
  BY <1>27 DEF vars
<1> HIDE DEF SafeTypes, TypeOK, Thread, ReaderPC, KickPC, RemovePC, registry, local, bounds, OneName
<1>28. QED
  BY <1>1, <1>2, <1>3, <1>4, <1>5, <1>6, <1>7, <1>8, <1>9, <1>10, <1>11, <1>12, <1>13,
     <1>14, <1>15, <1>16, <1>17, <1>18, <1>19, <1>20, <1>21, <1>22, <1>23, <1>24,
     <1>25, <1>26, <1>27
  DEF Next, Environment, Requests, Handler, Remove, Sweep

LEMMA StaysRemovedStep ==
  ASSUME SafeTypes, OneName, StaysRemoved, [Next]_vars PROVE StaysRemoved'
<1> USE RegistryAssumption
    DEF SafeTypes, TypeOK, Thread, ReaderPC, KickPC, RemovePC, registry, local, bounds,
        OneName, StaysRemoved
<1>1. ASSUME NEW s \in Session, PeerStalls(s) PROVE StaysRemoved'
  BY <1>1 DEF PeerStalls, Peer, Fault
<1>2. ASSUME NEW s \in Session, PeerResumes(s) PROVE StaysRemoved'
  BY <1>2 DEF PeerResumes, Peer
<1>3. ASSUME NEW s \in Session, PeerLeaves(s) PROVE StaysRemoved'
  BY <1>3 DEF PeerLeaves, Peer, Fault
<1>4. ASSUME NEW s \in Session, Silence(s) PROVE StaysRemoved'
  BY <1>4 DEF Silence, Fault
<1>5. ASSUME NEW s \in Session, ForwardFails(s) PROVE StaysRemoved'
  BY <1>5 DEF ForwardFails, SendTo, Send
<1>6. ASSUME NEW s \in Session, Accept(s) PROVE StaysRemoved'
  BY <1>6 DEF Accept, Goto
<1>7. ASSUME NEW s \in Session, NEW u \in User, DispatchLogin(s, u) PROVE StaysRemoved'
  BY <1>7 DEF DispatchLogin, Touch, Count, Goto
<1>8. ASSUME NEW s \in Session, DispatchLogout(s) PROVE StaysRemoved'
  BY <1>8 DEF DispatchLogout, Touch, Count, Goto
<1>9. ASSUME NEW s \in Session, NEW ok \in BOOLEAN, DispatchOther(s, ok)
      PROVE  StaysRemoved'
  BY <1>9 DEF DispatchOther, Touch, SendTo, Send
<1>10. ASSUME NEW s \in Session, LoginAcquire(s) PROVE StaysRemoved'
  BY <1>10 DEF LoginAcquire, Goto, Return
<1>11. ASSUME NEW s \in Session, NEW ok \in BOOLEAN, LoginRespond(s, ok)
       PROVE  StaysRemoved'
  BY <1>11 DEF LoginRespond, Send, SendResult, Goto, Return
<1>12. ASSUME NEW s \in Session, LoginBind(s) PROVE StaysRemoved'
  BY <1>12 DEF LoginBind, Goto
<1>13. ASSUME NEW s \in Session, MarkOnline(s) PROVE StaysRemoved'
  BY <1>13 DEF MarkOnline, Goto
<1>14. ASSUME NEW s \in Session, LogoutUnbind(s) PROVE StaysRemoved'
  BY <1>14 DEF LogoutUnbind, Goto
<1>15. ASSUME NEW s \in Session, LogoutMark(s) PROVE StaysRemoved'
  BY <1>15 DEF LogoutMark, Goto
<1>16. ASSUME NEW s \in Session, NEW ok \in BOOLEAN, LogoutReply(s, ok)
       PROVE  StaysRemoved'
  BY <1>16 DEF LogoutReply, SendTo, Send, SendResult, Goto
<1>17. ASSUME NEW s \in Session, Announced(s) PROVE StaysRemoved'
  BY <1>17 DEF Announced, Return, Goto
<1>18. ASSUME NEW s \in Session, ReaderStops(s) PROVE StaysRemoved'
  BY <1>18 DEF ReaderStops, Goto
<1>19. ASSUME NEW t \in Thread, NEW ok \in BOOLEAN, KickNotice(t, ok)
       PROVE  StaysRemoved'
  <2>1. closed[victim[t]] => ok = FALSE
    BY <1>19 DEF KickNotice, SendTo, Send, SendResult
  <2>2. closed' = [closed EXCEPT ![victim[t]] = ~ok]
    BY <1>19 DEF KickNotice, SendTo, Send
  <2>3. \A x \in Session : closed[x] => closed'[x]
    BY <2>1, <2>2
  <2>4. /\ pc' = [pc EXCEPT ![t] = "remove"]
        /\ UNCHANGED <<byId, byName, abandoned, victim>>
    BY <1>19 DEF KickNotice, Goto
  <2>5. QED
    BY <2>3, <2>4
<1>20. ASSUME NEW t \in Thread, RemoveIndex(t) PROVE StaysRemoved'
  BY <1>20 DEF RemoveIndex, BoundUnder, Goto
<1>21. ASSUME NEW t \in Thread, MarkOffline(t) PROVE StaysRemoved'
  BY <1>21 DEF MarkOffline, Goto
<1>22. ASSUME NEW t \in Thread, CloseVictim(t) PROVE StaysRemoved'
  BY <1>22 DEF CloseVictim, Goto
<1>23. ASSUME SweepStart PROVE StaysRemoved'
  BY <1>23 DEF SweepStart
<1>24. ASSUME NEW s \in Session, SweepSkip(s) PROVE StaysRemoved'
  BY <1>24 DEF SweepSkip
<1>25. ASSUME NEW s \in Session, SweepKick(s) PROVE StaysRemoved'
  BY <1>25 DEF SweepKick, Goto
<1>26. ASSUME NEW s \in Session, AnswerRaises(s) PROVE StaysRemoved'
  BY <1>26 DEF AnswerRaises, Touch, Fault, Goto
<1>27. CASE UNCHANGED vars
  BY <1>27 DEF vars
<1> HIDE DEF SafeTypes, TypeOK, Thread, ReaderPC, KickPC, RemovePC, registry, local, bounds, OneName, StaysRemoved
<1>28. QED
  BY <1>1, <1>2, <1>3, <1>4, <1>5, <1>6, <1>7, <1>8, <1>9, <1>10, <1>11, <1>12, <1>13,
     <1>14, <1>15, <1>16, <1>17, <1>18, <1>19, <1>20, <1>21, <1>22, <1>23, <1>24,
     <1>25, <1>26, <1>27
  DEF Next, Environment, Requests, Handler, Remove, Sweep

\* A session whose reader has finished is closed and in no index, whatever
\* kicks, sweeps and logins ran meanwhile, save under the names its client
\* logged in away from without a logout: those are all that remove_session's
\* "Drop a session from all indexes" can leave behind.
THEOREM RemovalIsComplete == RegistrySpec => []RemovedFromAllIndexes
<1>1. Init => OneName /\ StaysRemoved
  BY RegistryAssumption DEF Init, OneName, StaysRemoved, Thread
<1>2. SafeTypes /\ OneName /\ StaysRemoved /\ [Next]_vars => (OneName /\ StaysRemoved)'
  BY OneNameStep, StaysRemovedStep
<1>3. StaysRemoved => RemovedFromAllIndexes
  BY DEF StaysRemoved, RemovedFromAllIndexes
<1>4. QED
  BY <1>1, <1>2, <1>3, SafeTypesAlways, PTL DEF RegistrySpec

-----------------------------------------------------------------------------
(* The send lock.                                                           *)

LEMMA OpenWhileLockedStep ==
  ASSUME SafeTypes, OpenWhileLocked, [Next]_vars PROVE OpenWhileLocked'
<1> USE RegistryAssumption
    DEF SafeTypes, TypeOK, Thread, ReaderPC, KickPC, RemovePC, registry, local, bounds,
        OpenWhileLocked, SendLockHeld
<1>1. ASSUME NEW s \in Session, PeerStalls(s) PROVE OpenWhileLocked'
  BY <1>1 DEF PeerStalls, Peer, Fault
<1>2. ASSUME NEW s \in Session, PeerResumes(s) PROVE OpenWhileLocked'
  BY <1>2 DEF PeerResumes, Peer
<1>3. ASSUME NEW s \in Session, PeerLeaves(s) PROVE OpenWhileLocked'
  BY <1>3 DEF PeerLeaves, Peer, Fault
<1>4. ASSUME NEW s \in Session, Silence(s) PROVE OpenWhileLocked'
  BY <1>4 DEF Silence, Fault
<1>5. ASSUME NEW s \in Session, ForwardFails(s) PROVE OpenWhileLocked'
  BY <1>5 DEF ForwardFails, SendTo, Send
<1>6. ASSUME NEW s \in Session, Accept(s) PROVE OpenWhileLocked'
  BY <1>6 DEF Accept, Goto
<1>7. ASSUME NEW s \in Session, NEW u \in User, DispatchLogin(s, u)
      PROVE  OpenWhileLocked'
  BY <1>7 DEF DispatchLogin, Touch, Count, Goto
<1>8. ASSUME NEW s \in Session, DispatchLogout(s) PROVE OpenWhileLocked'
  BY <1>8 DEF DispatchLogout, Touch, Count, Goto
<1>9. ASSUME NEW s \in Session, NEW ok \in BOOLEAN, DispatchOther(s, ok)
      PROVE  OpenWhileLocked'
  BY <1>9 DEF DispatchOther, Touch, SendTo, Send
<1>10. ASSUME NEW s \in Session, LoginAcquire(s) PROVE OpenWhileLocked'
  BY <1>10 DEF LoginAcquire, Goto, Return
<1>11. ASSUME NEW s \in Session, NEW ok \in BOOLEAN, LoginRespond(s, ok)
       PROVE  OpenWhileLocked'
  BY <1>11 DEF LoginRespond, Send, SendResult, Goto, Return
<1>12. ASSUME NEW s \in Session, LoginBind(s) PROVE OpenWhileLocked'
  BY <1>12 DEF LoginBind, Goto
<1>13. ASSUME NEW s \in Session, MarkOnline(s) PROVE OpenWhileLocked'
  BY <1>13 DEF MarkOnline, Goto
<1>14. ASSUME NEW s \in Session, LogoutUnbind(s) PROVE OpenWhileLocked'
  BY <1>14 DEF LogoutUnbind, Goto
<1>15. ASSUME NEW s \in Session, LogoutMark(s) PROVE OpenWhileLocked'
  BY <1>15 DEF LogoutMark, Goto
<1>16. ASSUME NEW s \in Session, NEW ok \in BOOLEAN, LogoutReply(s, ok)
       PROVE  OpenWhileLocked'
  BY <1>16 DEF LogoutReply, SendTo, Send, SendResult, Goto
<1>17. ASSUME NEW s \in Session, Announced(s) PROVE OpenWhileLocked'
  BY <1>17 DEF Announced, Return, Goto
<1>18. ASSUME NEW s \in Session, ReaderStops(s) PROVE OpenWhileLocked'
  BY <1>18 DEF ReaderStops, Goto
<1>19. ASSUME NEW t \in Thread, NEW ok \in BOOLEAN, KickNotice(t, ok)
       PROVE  OpenWhileLocked'
  BY <1>19 DEF KickNotice, SendTo, Send, Goto
<1>20. ASSUME NEW t \in Thread, RemoveIndex(t) PROVE OpenWhileLocked'
  BY <1>20 DEF RemoveIndex, BoundUnder, Goto
<1>21. ASSUME NEW t \in Thread, MarkOffline(t) PROVE OpenWhileLocked'
  BY <1>21 DEF MarkOffline, Goto
<1>22. ASSUME NEW t \in Thread, CloseVictim(t) PROVE OpenWhileLocked'
  BY <1>22 DEF CloseVictim, Goto
<1>23. ASSUME SweepStart PROVE OpenWhileLocked'
  BY <1>23 DEF SweepStart
<1>24. ASSUME NEW s \in Session, SweepSkip(s) PROVE OpenWhileLocked'
  BY <1>24 DEF SweepSkip
<1>25. ASSUME NEW s \in Session, SweepKick(s) PROVE OpenWhileLocked'
  BY <1>25 DEF SweepKick, Goto
<1>26. ASSUME NEW s \in Session, AnswerRaises(s) PROVE OpenWhileLocked'
  BY <1>26 DEF AnswerRaises, Touch, Fault, Goto
<1>27. CASE UNCHANGED vars
  BY <1>27 DEF vars
<1> HIDE DEF SafeTypes, TypeOK, Thread, ReaderPC, KickPC, RemovePC, registry, local, bounds, OpenWhileLocked, SendLockHeld
<1>28. QED
  BY <1>1, <1>2, <1>3, <1>4, <1>5, <1>6, <1>7, <1>8, <1>9, <1>10, <1>11, <1>12, <1>13,
     <1>14, <1>15, <1>16, <1>17, <1>18, <1>19, <1>20, <1>21, <1>22, <1>23, <1>24,
     <1>25, <1>26, <1>27
  DEF Next, Environment, Requests, Handler, Remove, Sweep

\* Nobody closes a session between login's test of session.closed and the
\* moment the name is bound to it: the bind never revives a closed session.
THEOREM LockKeepsOpen == RegistrySpec => []OpenWhileLocked
<1>1. Init => OpenWhileLocked
  BY RegistryAssumption DEF Init, OpenWhileLocked, SendLockHeld, Thread
<1>2. SafeTypes /\ OpenWhileLocked /\ [Next]_vars => OpenWhileLocked'
  BY OpenWhileLockedStep
<1>3. QED
  BY <1>1, <1>2, SafeTypesAlways, PTL DEF RegistrySpec

-----------------------------------------------------------------------------
(* UserManager implements SessionDirectory: every step of a thread is a step *)
(* of the directory or none.                                                *)

(* What a step must do to the registry to be each step of the directory.    *)

LEMMA StutterStep ==
  ASSUME closed' = closed, byName' = byName,
         \A x \in Session : Doomed(x)' <=> Doomed(x)
  PROVE  [Directory!Next]_(Directory!vars)
BY DEF Directory!vars

LEMMA CloseStep ==
  ASSUME SafeTypes, NEW s \in Session, byName' = byName,
         closed' = [closed EXCEPT ![s] = TRUE],
         \A x \in Session \ {s} : Doomed(x)' <=> Doomed(x)
  PROVE  [Directory!Next]_(Directory!vars)
<1>1. Directory!Close(s)
  BY DEF SafeTypes, TypeOK, Directory!Close
<1>2. QED
  BY <1>1 DEF Directory!Next

LEMMA DetachStep ==
  ASSUME NEW u \in User, byName[u] \in Session,
         byName' = [byName EXCEPT ![u] = NoSession], closed' = closed,
         \A x \in Session : Doomed(x)' <=> Doomed(x)
  PROVE  [Directory!Next]_(Directory!vars)
<1>1. Directory!Detach(u)
  BY RegistryAssumption DEF Directory!Detach
<1>2. QED
  BY <1>1 DEF Directory!Next

LEMMA AttachStep ==
  ASSUME NEW u \in User, NEW s \in Session, ~closed[s],
         byName' = [byName EXCEPT ![u] = s], closed' = closed,
         \A x \in Session : Doomed(x)' <=> Doomed(x) \/ (x = byName[u] /\ x # s)
  PROVE  [Directory!Next]_(Directory!vars)
<1>1. Directory!Attach(u, s)
  BY DEF Directory!Attach
<1>2. QED
  BY <1>1 DEF Directory!Next

LEMMA DirectoryStep ==
  ASSUME SafeTypes, OpenWhileLocked, [Next]_vars PROVE [Directory!Next]_(Directory!vars)
<1> USE RegistryAssumption
    DEF SafeTypes, TypeOK, Thread, ReaderPC, KickPC, RemovePC, registry, local, bounds
<1>1. ASSUME NEW s \in Session, PeerStalls(s) PROVE [Directory!Next]_(Directory!vars)
  BY <1>1 DEF PeerStalls, Peer, Fault, Doomed,
     Directory!vars, Directory!Next, Directory!Evict, Directory!Close
<1>2. ASSUME NEW s \in Session, PeerResumes(s) PROVE [Directory!Next]_(Directory!vars)
  BY <1>2 DEF PeerResumes, Peer, Doomed,
     Directory!vars, Directory!Next, Directory!Evict, Directory!Close
<1>3. ASSUME NEW s \in Session, PeerLeaves(s) PROVE [Directory!Next]_(Directory!vars)
  BY <1>3 DEF PeerLeaves, Peer, Fault, Doomed,
     Directory!vars, Directory!Next, Directory!Evict, Directory!Close
<1>4. ASSUME NEW s \in Session, Silence(s) PROVE [Directory!Next]_(Directory!vars)
  BY <1>4 DEF Silence, Fault, Doomed,
     Directory!vars, Directory!Next, Directory!Evict, Directory!Close
<1>5. ASSUME NEW s \in Session, ForwardFails(s) PROVE [Directory!Next]_(Directory!vars)
  BY <1>5 DEF ForwardFails, SendTo, Send, Doomed,
     Directory!vars, Directory!Next, Directory!Evict, Directory!Close
<1>6. ASSUME NEW s \in Session, Accept(s) PROVE [Directory!Next]_(Directory!vars)
  BY <1>6 DEF Accept, Goto, Doomed,
     Directory!vars, Directory!Next, Directory!Evict, Directory!Close
<1>7. ASSUME NEW s \in Session, NEW u \in User, DispatchLogin(s, u)
      PROVE  [Directory!Next]_(Directory!vars)
  BY <1>7 DEF DispatchLogin, Touch, Count, Goto, Doomed,
     Directory!vars, Directory!Next, Directory!Evict, Directory!Close
<1>8. ASSUME NEW s \in Session, DispatchLogout(s)
      PROVE  [Directory!Next]_(Directory!vars)
  BY <1>8 DEF DispatchLogout, Touch, Count, Goto, Doomed,
     Directory!vars, Directory!Next, Directory!Evict, Directory!Close
<1>9. ASSUME NEW s \in Session, NEW ok \in BOOLEAN, DispatchOther(s, ok)
      PROVE  [Directory!Next]_(Directory!vars)
  <2>1. pc[s] \notin KickPC /\ pc'[s] \notin KickPC
        /\ \A t \in Thread \ {s} : pc'[t] = pc[t]
    BY <1>9 DEF DispatchOther, Touch, Goto, Return
  <2>2. UNCHANGED <<byName, victim>>
    BY <1>9 DEF DispatchOther, Touch
  <2>3. \A x \in Session : Doomed(x)' <=> Doomed(x)
    BY <2>1, <2>2 DEF Doomed
  <2>4. (closed[s] => ok = FALSE) /\ closed' = [closed EXCEPT ![s] = ~ok]
    BY <1>9 DEF DispatchOther, Touch, SendTo, Send, SendResult
  <2>5. CASE ok
    <3>1. closed' = closed
      BY <2>4, <2>5
    <3>2. QED
      BY <3>1, <2>2, <2>3, StutterStep
  <2>6. CASE ~ok
    <3>1. closed' = [closed EXCEPT ![s] = TRUE]
      BY <2>4, <2>6
    <3>2. QED
      BY <3>1, <2>2, <2>3, CloseStep
  <2>7. QED
    BY <2>5, <2>6
<1>10. ASSUME NEW s \in Session, LoginAcquire(s) PROVE [Directory!Next]_(Directory!vars)
  BY <1>10 DEF LoginAcquire, Goto, Return, Doomed,
     Directory!vars, Directory!Next, Directory!Evict, Directory!Close
<1>11. ASSUME NEW s \in Session, NEW ok \in BOOLEAN, LoginRespond(s, ok)
       PROVE  [Directory!Next]_(Directory!vars)
  <2>1. pc[s] \notin KickPC /\ pc'[s] \notin KickPC
        /\ \A t \in Thread \ {s} : pc'[t] = pc[t]
    BY <1>11 DEF LoginRespond, Goto, Return
  <2>2. UNCHANGED <<byName, victim>>
    BY <1>11 DEF LoginRespond
  <2>3. \A x \in Session : Doomed(x)' <=> Doomed(x)
    BY <2>1, <2>2 DEF Doomed
  <2>4. (closed[s] => ok = FALSE) /\ closed' = [closed EXCEPT ![s] = ~ok]
    BY <1>11 DEF LoginRespond, Send, SendResult
  <2>5. CASE ok
    <3>1. closed' = closed
      BY <2>4, <2>5
    <3>2. QED
      BY <3>1, <2>2, <2>3, StutterStep
  <2>6. CASE ~ok
    <3>1. closed' = [closed EXCEPT ![s] = TRUE]
      BY <2>4, <2>6
    <3>2. QED
      BY <3>1, <2>2, <2>3, CloseStep
  <2>7. QED
    BY <2>5, <2>6
<1>12. ASSUME NEW s \in Session, LoginBind(s) PROVE [Directory!Next]_(Directory!vars)
  <2> DEFINE prev == byName[name[s]]
  <2>1. pc[s] = "bind" /\ name[s] \in User /\ ~closed[s]
    BY <1>12 DEF LoginBind, OpenWhileLocked, SendLockHeld
  <2>2. /\ closed' = closed
        /\ byName' = [byName EXCEPT ![name[s]] = s]
        /\ \A t \in Thread \ {s} : pc'[t] = pc[t]
        /\ \A t \in Thread \ {s} : victim'[t] = victim[t]
    BY <1>12 DEF LoginBind, Goto
  <2>3. CASE prev \in {NoSession, s}
    <3>1. pc' = [pc EXCEPT ![s] = "online"] /\ victim' = victim
      BY <1>12, <2>3 DEF LoginBind, Goto
    <3>2. pc'[s] \notin KickPC
      BY <3>1
    <3>3. \A x \in Session : Doomed(x)' <=> Doomed(x)
      BY <3>1, <3>2, <2>1, <2>2 DEF Doomed
    <3>4. \A x \in Session : Doomed(x)' <=> Doomed(x) \/ (x = prev /\ x # s)
      BY <3>3, <2>3
    <3>5. QED
      BY <3>4, <2>1, <2>2, AttachStep
  <2>4. CASE prev \notin {NoSession, s}
    <3>1. pc' = [pc EXCEPT ![s] = "kick"] /\ victim' = [victim EXCEPT ![s] = prev]
      BY <1>12, <2>4 DEF LoginBind, Goto
    <3>2. pc'[s] \in KickPC /\ victim'[s] = prev
      BY <3>1
    <3>3. \A x \in Session : Doomed(x)' <=> Doomed(x) \/ (x = prev /\ x # s)
      BY <3>2, <2>1, <2>2, <2>4 DEF Doomed
    <3>4. QED
      BY <3>3, <2>1, <2>2, AttachStep
  <2>5. QED
    BY <2>3, <2>4
<1>13. ASSUME NEW s \in Session, MarkOnline(s) PROVE [Directory!Next]_(Directory!vars)
  BY <1>13 DEF MarkOnline, Goto, Doomed,
     Directory!vars, Directory!Next, Directory!Evict, Directory!Close
<1>14. ASSUME NEW s \in Session, LogoutUnbind(s) PROVE [Directory!Next]_(Directory!vars)
  <2>1. pc[s] \notin KickPC /\ pc'[s] \notin KickPC
        /\ \A t \in Thread \ {s} : pc'[t] = pc[t]
    BY <1>14 DEF LogoutUnbind, Goto
  <2>2. UNCHANGED <<closed, victim>>
    BY <1>14 DEF LogoutUnbind
  <2>3. \A x \in Session : Doomed(x)' <=> Doomed(x)
    BY <2>1, <2>2 DEF Doomed
  <2>4. byName' = [u \in User |-> IF u = username[s] /\ byName[u] = s THEN NoSession ELSE byName[u]]
    BY <1>14 DEF LogoutUnbind
  <2>5. CASE username[s] \in User /\ byName[username[s]] = s
    <3>1. byName' = [byName EXCEPT ![username[s]] = NoSession]
      BY <2>4, <2>5
    <3>2. QED
      BY <3>1, <2>2, <2>3, <2>5, DetachStep
  <2>6. CASE ~(username[s] \in User /\ byName[username[s]] = s)
    <3>1. byName' = byName
      BY <2>4, <2>6
    <3>2. QED
      BY <3>1, <2>2, <2>3, StutterStep
  <2>7. QED
    BY <2>5, <2>6
<1>15. ASSUME NEW s \in Session, LogoutMark(s) PROVE [Directory!Next]_(Directory!vars)
  BY <1>15 DEF LogoutMark, Goto, Doomed,
     Directory!vars, Directory!Next, Directory!Evict, Directory!Close
<1>16. ASSUME NEW s \in Session, NEW ok \in BOOLEAN, LogoutReply(s, ok)
       PROVE  [Directory!Next]_(Directory!vars)
  <2>1. pc[s] \notin KickPC /\ pc'[s] \notin KickPC
        /\ \A t \in Thread \ {s} : pc'[t] = pc[t]
    BY <1>16 DEF LogoutReply, Goto, Return
  <2>2. UNCHANGED <<byName, victim>>
    BY <1>16 DEF LogoutReply
  <2>3. \A x \in Session : Doomed(x)' <=> Doomed(x)
    BY <2>1, <2>2 DEF Doomed
  <2>4. (closed[s] => ok = FALSE) /\ closed' = [closed EXCEPT ![s] = ~ok]
    BY <1>16 DEF LogoutReply, SendTo, Send, SendResult
  <2>5. CASE ok
    <3>1. closed' = closed
      BY <2>4, <2>5
    <3>2. QED
      BY <3>1, <2>2, <2>3, StutterStep
  <2>6. CASE ~ok
    <3>1. closed' = [closed EXCEPT ![s] = TRUE]
      BY <2>4, <2>6
    <3>2. QED
      BY <3>1, <2>2, <2>3, CloseStep
  <2>7. QED
    BY <2>5, <2>6
<1>17. ASSUME NEW s \in Session, Announced(s) PROVE [Directory!Next]_(Directory!vars)
  BY <1>17 DEF Announced, Return, Goto, Doomed,
     Directory!vars, Directory!Next, Directory!Evict, Directory!Close
<1>18. ASSUME NEW s \in Session, ReaderStops(s) PROVE [Directory!Next]_(Directory!vars)
  BY <1>18 DEF ReaderStops, Goto, Doomed,
     Directory!vars, Directory!Next, Directory!Evict, Directory!Close
<1>19. ASSUME NEW t \in Thread, NEW ok \in BOOLEAN, KickNotice(t, ok)
       PROVE  [Directory!Next]_(Directory!vars)
  <2>1. pc[t] = "kick" /\ pc' = [pc EXCEPT ![t] = "remove"] /\ UNCHANGED <<byName,
  victim>>
    BY <1>19 DEF KickNotice, Goto
  <2>2. \A x \in Session : Doomed(x)' <=> Doomed(x)
    BY <2>1 DEF Doomed
  <2>3. /\ closed[victim[t]] => ok = FALSE
        /\ closed' = [closed EXCEPT ![victim[t]] = ~ok]
    BY <1>19 DEF KickNotice, SendTo, Send, SendResult
  <2>4. CASE ok \/ victim[t] = NoSession
    <3>1. closed' = closed
      BY <2>3, <2>4
    <3>2. QED
      BY <3>1, <2>1, <2>2, StutterStep
  <2>5. CASE ~ok /\ victim[t] \in Session
    <3>1. closed' = [closed EXCEPT ![victim[t]] = TRUE]
      BY <2>3, <2>5
    <3>2. QED
      BY <3>1, <2>1, <2>2, <2>5, CloseStep
  <2>6. QED
    BY <2>4, <2>5
<1>20. ASSUME NEW t \in Thread, RemoveIndex(t) PROVE [Directory!Next]_(Directory!vars)
  <2> DEFINE v == victim[t]
  <2>1. /\ pc[t] \in KickPC /\ pc'[t] \in KickPC
        /\ \A r \in Thread \ {t} : pc'[r] = pc[r]
        /\ UNCHANGED <<closed, victim>>
    BY <1>20 DEF RemoveIndex, Goto
  <2>2. \A x \in Session : Doomed(x)' <=> Doomed(x)
    BY <2>1 DEF Doomed
  <2>3. byName' = [u \in User |-> IF u \in BoundUnder(v) THEN NoSession ELSE byName[u]]
    BY <1>20 DEF RemoveIndex
  <2>4. CASE BoundUnder(v) = {} \/ v = NoSession
    <3>1. byName' = byName
      BY <2>3, <2>4 DEF BoundUnder
    <3>2. QED
      BY <3>1, <2>1, <2>2, StutterStep
  <2>5. CASE BoundUnder(v) # {} /\ v \in Session
    <3>1. username[v] \in User /\ byName[username[v]] = v
      BY <2>5 DEF BoundUnder
    <3>2. byName' = [byName EXCEPT ![username[v]] = NoSession]
      BY <2>3, <3>1 DEF BoundUnder
    <3>3. QED
      BY <3>1, <3>2, <2>1, <2>2, <2>5, DetachStep
  <2>6. QED
    BY <2>4, <2>5
<1>21. ASSUME NEW t \in Thread, MarkOffline(t) PROVE [Directory!Next]_(Directory!vars)
  BY <1>21 DEF MarkOffline, Goto, Doomed,
     Directory!vars, Directory!Next, Directory!Evict, Directory!Close
<1>22. ASSUME NEW t \in Thread, CloseVictim(t) PROVE [Directory!Next]_(Directory!vars)
  <2>1. /\ pc[t] = "close" /\ UNCHANGED byName
        /\ closed' = [closed EXCEPT ![victim[t]] = TRUE]
        /\ victim' = [victim EXCEPT ![t] = NoSession]
        /\ \A r \in Thread \ {t} : pc'[r] = pc[r]
    BY <1>22 DEF CloseVictim, Goto
  <2>2. pc'[t] \notin KickPC
    BY <1>22 DEF CloseVictim, Goto
  <2>3. \A x \in Session \ {victim[t]} : Doomed(x)' <=> Doomed(x)
    BY <2>1, <2>2 DEF Doomed
  <2>4. CASE victim[t] \in Session
    BY <2>1, <2>3, <2>4, CloseStep
  <2>5. CASE victim[t] = NoSession
    <3>1. closed' = closed
      BY <2>1, <2>5
    <3>2. QED
      BY <3>1, <2>1, <2>3, <2>5, StutterStep
  <2>6. QED
    BY <2>4, <2>5
<1>23. ASSUME SweepStart PROVE [Directory!Next]_(Directory!vars)
  BY <1>23 DEF SweepStart, Doomed,
     Directory!vars, Directory!Next, Directory!Evict, Directory!Close
<1>24. ASSUME NEW s \in Session, SweepSkip(s) PROVE [Directory!Next]_(Directory!vars)
  BY <1>24 DEF SweepSkip, Doomed,
     Directory!vars, Directory!Next, Directory!Evict, Directory!Close
<1>25. ASSUME NEW s \in Session, SweepKick(s) PROVE [Directory!Next]_(Directory!vars)
  BY <1>25 DEF SweepKick, Goto, Doomed,
     Directory!vars, Directory!Next, Directory!Evict, Directory!Close
<1>26. ASSUME NEW s \in Session, AnswerRaises(s) PROVE [Directory!Next]_(Directory!vars)
  BY <1>26 DEF AnswerRaises, Touch, Fault, Goto, Doomed,
     Directory!vars, Directory!Next, Directory!Evict, Directory!Close
<1>27. CASE UNCHANGED vars
  BY <1>27 DEF vars, Doomed,
     Directory!vars, Directory!Next, Directory!Evict, Directory!Close
<1> HIDE DEF SafeTypes, TypeOK, Thread, ReaderPC, KickPC, RemovePC, registry, local, bounds
<1>28. QED
  BY <1>1, <1>2, <1>3, <1>4, <1>5, <1>6, <1>7, <1>8, <1>9, <1>10, <1>11, <1>12, <1>13,
     <1>14, <1>15, <1>16, <1>17, <1>18, <1>19, <1>20, <1>21, <1>22, <1>23, <1>24,
     <1>25, <1>26, <1>27
  DEF Next, Environment, Requests, Handler, Remove, Sweep

\* The registry implements the directory: a name is only ever given to an
\* open connection, changes hands in one step, and its old holder is evicted
\* in that same step.
THEOREM RegistryImplementsDirectory == RegistrySpec => DirectorySafety
<1>1. Init => Directory!Init
  BY RegistryAssumption DEF Init, Directory!Init, Doomed, Thread, KickPC, RemovePC
<1>2. SafeTypes /\ OpenWhileLocked /\ [Next]_vars => [Directory!Next]_(Directory!vars)
  BY DirectoryStep
<1>3. QED
  BY <1>1, <1>2, SafeTypesAlways, LockKeepsOpen, PTL DEF RegistrySpec, DirectorySafety
=============================================================================
