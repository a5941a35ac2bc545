-------------------------- MODULE SessionDirectory --------------------------
(***************************************************************************)
(* What UserManager promises its callers, without threads and locks: a     *)
(* directory from usernames to the connection that holds them.  A name is  *)
(* given only to a connection that is open at that moment, goes straight   *)
(* from its old holder to the new one, and the old holder is evicted: an   *)
(* evicted connection does get closed.                                     *)
(***************************************************************************)
CONSTANTS Session, User, NoSession

VARIABLES
  holder,   \* the connection each name leads to
  open,     \* connections that are not closed
  evicted   \* open connections that are being closed

vars == <<holder, open, evicted>>

Init ==
  /\ holder = [u \in User |-> NoSession]
  /\ open = Session
  /\ evicted = {}

\* A login: s takes the name u, whoever held it before is evicted.
Attach(u, s) ==
  /\ s \in open
  /\ holder' = [holder EXCEPT ![u] = s]
  /\ evicted' = evicted \union ((open \intersect {holder[u]}) \ {s})
  /\ UNCHANGED open

\* A logout, or the first half of a removal.
Detach(u) ==
  /\ holder[u] # NoSession
  /\ holder' = [holder EXCEPT ![u] = NoSession]
  /\ UNCHANGED <<open, evicted>>

\* A disconnect or a heartbeat timeout is noticed.
Evict(s) ==
  /\ s \in open
  /\ evicted' = evicted \union {s}
  /\ UNCHANGED <<holder, open>>

\* The end of an eviction, or a write to s that fails.
Close(s) ==
  /\ open' = open \ {s}
  /\ evicted' = evicted \ {s}
  /\ UNCHANGED holder

Next ==
  \/ \E u \in User : Detach(u) \/ \E s \in Session : Attach(u, s)
  \/ \E s \in Session : Evict(s) \/ Close(s)

DirectorySpec ==
  /\ Init /\ [][Next]_vars
  /\ \A s \in Session : WF_vars(s \in evicted /\ Close(s))
=============================================================================
