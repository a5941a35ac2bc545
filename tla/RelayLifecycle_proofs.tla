------------------------ MODULE RelayLifecycle_proofs ------------------------
(***************************************************************************)
(* Theorems about module AIReplies, for every number of connections,       *)
(* members, prompts and workers and every cooldown, and about module       *)
(* RelayLifecycle, which runs it from start to exit.                       *)
(***************************************************************************)
EXTENDS RelayLifecycle, TLAPS

-----------------------------------------------------------------------------
(* Types.  Review and reply use what the sender's handler has stored with    *)
(* the prompt, and a reply is saved at most once.                            *)

SafeAITypes ==
  /\ AITypeOK
  /\ \A p \in Prompt : pc[p] # "unsent" => origin[p] \in Session
  /\ \A p \in Prompt : pc[p] # "answered" => rows[p] = 0

\* One step: what a reader, the review or the reply of a prompt, the closing
\* thread or the clock does keeps the types.
LEMMA SafeAITypesStep == SafeAITypes /\ [AINext]_aiVars => SafeAITypes'
<1> SUFFICES ASSUME SafeAITypes, [AINext]_aiVars PROVE SafeAITypes'
  OBVIOUS
<1> USE AIAssumption
    DEF SafeAITypes, AITypeOK, Step, PromptPC, InAllow, Accepted,
        names, prompts, limiter, pools
<1>1. ASSUME NEW s \in Session, NEW u \in User \union {NoUser}, SetName(s, u)
      PROVE  SafeAITypes'
  BY <1>1 DEF SetName
<1>2. ASSUME NEW s \in Session, NEW p \in Prompt, SendPrompt(s, p)
      PROVE  SafeAITypes'
  BY <1>2 DEF SendPrompt
<1>3. ASSUME NEW s \in Session, SubmitReview(s) \/ ForwardRaises(s)
      PROVE  SafeAITypes'
  BY <1>3 DEF SubmitReview, ForwardRaises
<1>4. ASSUME NEW p \in Prompt,
             \/ ReviewStarts(p) \/ ReviewReturns(p) \/ Test(p) \/ SubmitReply(p)
             \/ ReplyStarts(p) \/ ReplyReturns(p) \/ ReplyUnsaved(p)
      PROVE  SafeAITypes'
  BY <1>4 DEF ReviewStarts, ReviewReturns, Test, SubmitReply, ReplyStarts,
              ReplyReturns, ReplyUnsaved
<1>5. ASSUME NEW p \in Prompt, ReadClock(p) PROVE SafeAITypes'
  BY <1>5 DEF ReadClock
<1>6. ASSUME NEW p \in Prompt, Write(p) PROVE SafeAITypes'
  BY <1>6 DEF Write
<1>7. ASSUME NEW p \in Prompt, SaveReply(p) PROVE SafeAITypes'
  BY <1>7 DEF SaveReply
<1>8. ASSUME NEW p \in Prompt, Cancel(p) PROVE SafeAITypes'
  BY <1>8 DEF Cancel
<1>9. CASE CloseReplies \/ RepliesClosed \/ Tick
  BY <1>9 DEF CloseReplies, RepliesClosed, Tick
<1>10. CASE CloseReviews
  BY <1>10 DEF CloseReviews
<1>11. CASE UNCHANGED aiVars
  BY <1>11 DEF aiVars
<1>12. QED
  BY <1>1, <1>2, <1>3, <1>4, <1>5, <1>6, <1>7, <1>8, <1>9, <1>10, <1>11
     DEF AINext, Requests, Review, Reply, Shutdown

LEMMA SafeAITypesInit == AIInit => SafeAITypes
  BY AIAssumption DEF AIInit, SafeAITypes, AITypeOK, PromptPC, Never

\* Every variable of the AI replies keeps its type; in particular a prompt is
\* answered at most once, whichever thread answers it.
THEOREM AITypesAlways == AISpec => []AITypeOK
<1>1. SafeAITypes => AITypeOK
  BY DEF SafeAITypes
<1>2. QED
  BY <1>1, SafeAITypesInit, SafeAITypesStep, PTL DEF AISpec

-----------------------------------------------------------------------------
(* The limiter.  Calls of allow for one name that are under way together are *)
(* all in met.  Whoever got through alone has left its time, or a later one, *)
(* in _last_seen, and the calls that came after it are not earlier; those    *)
(* that have passed the test are a cooldown later.                           *)

SameKey(p, q) == p # q /\ requester[p] = requester[q]

ClockInv ==
  /\ \A p \in Prompt : now[p] <= clock
  /\ \A u \in User \union {NoUser} : lastSeen[u] <= clock

OverlapsMeet ==
  \A p, q \in Prompt :
    pc[p] \in InAllow /\ pc[q] \in InAllow /\ SameKey(p, q) => p \in met

TimeIsKept ==
  \A p \in Prompt \ met :
    pc[p] \in Accepted => lastSeen[requester[p]] >= now[p]

LaterCalls ==
  \A p \in Prompt \ met, q \in Prompt :
    pc[p] \in Accepted /\ SameKey(p, q) =>
      /\ pc[q] \in InAllow => now[q] >= now[p]
      /\ pc[q] = "write" => now[q] - now[p] >= Cooldown

TimeHasOwner ==
  \A u \in User \union {NoUser} :
    lastSeen[u] # Never =>
      \E q \in Prompt :
        pc[q] \in Accepted /\ requester[q] = u /\ now[q] = lastSeen[u]

LimiterInv ==
  /\ ClockInv
  /\ OverlapsMeet
  /\ TimeIsKept
  /\ LaterCalls
  /\ CooldownUnlessOverlap
  /\ TimeHasOwner
  /\ RefusalHasCause

\* A step that no limiter notices: time passes, or a prompt moves on outside
\* allow.
Quiet ==
  /\ UNCHANGED <<requester, now, lastSeen, met>>
  /\ clock' \in Nat
  /\ clock' >= clock
  /\ \A p \in Prompt :
       /\ pc'[p] \in Accepted <=> pc[p] \in Accepted
       /\ pc'[p] \in InAllow <=> pc[p] \in InAllow
       /\ pc'[p] = "write" <=> pc[p] = "write"
       /\ pc'[p] = "refused" <=> pc[p] = "refused"

LEMMA QuietStep == SafeAITypes /\ LimiterInv /\ Quiet => LimiterInv'
<1> SUFFICES ASSUME SafeAITypes, LimiterInv, Quiet PROVE LimiterInv'
  OBVIOUS
<1> USE DEF SafeAITypes, AITypeOK, LimiterInv, Quiet, SameKey
<1>1. ClockInv'
  BY AIAssumption DEF ClockInv
<1>2. OverlapsMeet' /\ TimeIsKept' /\ LaterCalls'
  BY DEF OverlapsMeet, TimeIsKept, LaterCalls
<1>3. CooldownUnlessOverlap'
  BY DEF CooldownUnlessOverlap, Apart
<1>4. TimeHasOwner'
  BY DEF TimeHasOwner
<1>5. RefusalHasCause'
  BY DEF RefusalHasCause
<1>6. QED
  BY <1>1, <1>2, <1>3, <1>4, <1>5

\* A call of allow begins: it is not earlier than any that got through.
LEMMA ReadClockStep ==
  ASSUME SafeAITypes, LimiterInv, NEW p \in Prompt, ReadClock(p)
  PROVE  LimiterInv'
<1> DEFINE meets == {q \in Prompt : pc[q] \in InAllow
                                    /\ requester[q] = username[origin[p]]}
<1>1. /\ pc[p] = "charge"
      /\ pc' = [pc EXCEPT ![p] = "test"]
      /\ requester' = [requester EXCEPT ![p] = username[origin[p]]]
      /\ now' = [now EXCEPT ![p] = clock]
      /\ met' = IF meets = {} THEN met ELSE met \union meets \union {p}
      /\ UNCHANGED <<lastSeen, clock>>
  BY DEF ReadClock, Step, limiter, pools
<1>2. met \subseteq met'
  BY <1>1
<1>3. \A q \in Prompt : q # p => /\ pc'[q] = pc[q]
                                 /\ requester'[q] = requester[q]
                                 /\ now'[q] = now[q]
  BY <1>1 DEF SafeAITypes, AITypeOK
<1>4. /\ pc'[p] = "test" /\ requester'[p] = username[origin[p]]
      /\ now'[p] = clock
  BY <1>1 DEF SafeAITypes, AITypeOK
<1>5. \A q \in Prompt : /\ pc'[q] \in Accepted => q # p
                        /\ pc[q] \in Accepted => q # p
                        /\ pc'[q] = "refused" => q # p
                        /\ pc'[q] = "write" => q # p
  BY <1>1, <1>4 DEF Accepted
<1>6. ClockInv'
  BY <1>1, <1>3, <1>4 DEF LimiterInv, ClockInv, SafeAITypes, AITypeOK
<1>7. OverlapsMeet'
  <2> SUFFICES ASSUME NEW q \in Prompt, NEW r \in Prompt,
                      pc'[q] \in InAllow, pc'[r] \in InAllow, q # r,
                      requester'[q] = requester'[r]
               PROVE  q \in met'
    BY DEF OverlapsMeet, SameKey
  <2>1. CASE q = p
    BY <1>1, <1>3, <1>4, <2>1
  <2>2. CASE r = p
    BY <1>1, <1>3, <1>4, <2>2
  <2>3. CASE q # p /\ r # p
    BY <1>2, <1>3, <2>3 DEF LimiterInv, OverlapsMeet, SameKey
  <2>4. QED
    BY <2>1, <2>2, <2>3
<1>8. TimeIsKept'
  BY <1>1, <1>2, <1>3, <1>5 DEF LimiterInv, TimeIsKept
<1>9. LaterCalls'
  BY <1>1, <1>2, <1>3, <1>4, <1>5
     DEF LimiterInv, LaterCalls, ClockInv, SameKey, SafeAITypes, AITypeOK
<1>10. CooldownUnlessOverlap'
  BY <1>2, <1>3, <1>5 DEF LimiterInv, CooldownUnlessOverlap, Apart
<1>11. TimeHasOwner'
  BY <1>1, <1>3, <1>5 DEF LimiterInv, TimeHasOwner
<1>12. RefusalHasCause'
  BY <1>3, <1>5 DEF LimiterInv, RefusalHasCause
<1>13. QED
  BY <1>6, <1>7, <1>8, <1>9, <1>10, <1>11, <1>12 DEF LimiterInv

\* The test: a call that gets through is a cooldown after the kept time, one
\* that is refused points to whoever left that time.
LEMMA TestStep ==
  ASSUME SafeAITypes, LimiterInv, NEW p \in Prompt, Test(p)
  PROVE  LimiterInv'
<1>1. /\ pc[p] = "test"
      /\ pc' = [pc EXCEPT ![p] = IF Within(p) THEN "refused" ELSE "write"]
      /\ UNCHANGED <<requester, now, lastSeen, clock, met>>
  BY DEF Test, Step, prompts, limiter
<1>2. \A q \in Prompt : q # p => pc'[q] = pc[q]
  BY <1>1 DEF SafeAITypes, AITypeOK
<1>3. pc'[p] = IF Within(p) THEN "refused" ELSE "write"
  BY <1>1 DEF SafeAITypes, AITypeOK
<1>4. \A q \in Prompt : /\ pc'[q] \in Accepted <=> pc[q] \in Accepted
                        /\ pc'[q] \in InAllow => pc[q] \in InAllow
  BY <1>1, <1>2, <1>3 DEF Accepted, InAllow
<1>5. ClockInv' /\ OverlapsMeet' /\ TimeIsKept'
  BY <1>1, <1>4 DEF LimiterInv, ClockInv, OverlapsMeet, TimeIsKept, SameKey
<1>6. LaterCalls'
  <2> SUFFICES ASSUME NEW q \in Prompt \ met, NEW r \in Prompt,
                      pc'[q] \in Accepted, q # r, requester[q] = requester[r]
               PROVE  /\ pc'[r] \in InAllow => now[r] >= now[q]
                      /\ pc'[r] = "write" => now[r] - now[q] >= Cooldown
    BY <1>1 DEF LaterCalls, SameKey
  <2>1. pc[q] \in Accepted
    BY <1>4
  <2>2. CASE r # p
    BY <1>1, <1>2, <1>4, <2>1, <2>2 DEF LimiterInv, LaterCalls, SameKey
  <2>3. CASE r = p
    <3>1. lastSeen[requester[p]] >= now[q]
      BY <2>1, <2>3 DEF LimiterInv, TimeIsKept
    <3>2. pc'[p] = "write" => now[p] - lastSeen[requester[p]] >= Cooldown
      BY <1>3, <3>1, AIAssumption DEF Within, Never, SafeAITypes, AITypeOK
    <3>3. pc'[r] = "write" => now[r] - now[q] >= Cooldown
      BY <2>3, <3>1, <3>2, AIAssumption DEF SafeAITypes, AITypeOK
    <3>4. pc'[r] \in InAllow => now[r] >= now[q]
      BY <1>4, <2>1 DEF LimiterInv, LaterCalls, SameKey
    <3>5. QED
      BY <3>3, <3>4
  <2>4. QED
    BY <2>2, <2>3
<1>7. CooldownUnlessOverlap' /\ TimeHasOwner'
  BY <1>1, <1>4 DEF LimiterInv, CooldownUnlessOverlap, Apart, TimeHasOwner
<1>8. RefusalHasCause'
  <2> SUFFICES ASSUME NEW q \in Prompt, pc'[q] = "refused"
               PROVE  \E r \in Prompt : /\ pc'[r] \in Accepted
                                        /\ requester[r] = requester[q]
                                        /\ now[q] - now[r] < Cooldown
    BY <1>1 DEF RefusalHasCause
  <2>1. CASE q # p
    BY <1>1, <1>2, <1>4, <2>1 DEF LimiterInv, RefusalHasCause
  <2>2. CASE q = p
    <3>1. Within(p)
      BY <1>3, <2>2
    <3>2. PICK r \in Prompt : /\ pc[r] \in Accepted
                              /\ requester[r] = requester[p]
                              /\ now[r] = lastSeen[requester[p]]
      BY <3>1 DEF Within, LimiterInv, TimeHasOwner, SafeAITypes, AITypeOK
    <3>3. QED
      BY <1>4, <2>2, <3>1, <3>2 DEF Within
  <2>3. QED
    BY <2>1, <2>2
<1>9. QED
  BY <1>5, <1>6, <1>7, <1>8 DEF LimiterInv

\* The write: the prompt becomes one of those that got through.
LEMMA WriteStep ==
  ASSUME SafeAITypes, LimiterInv, NEW p \in Prompt, Write(p)
  PROVE  LimiterInv'
<1> DEFINE key == requester[p]
<1>1. /\ pc[p] = "write"
      /\ pc' = [pc EXCEPT ![p] = "submit"]
      /\ lastSeen' = [lastSeen EXCEPT ![key] = now[p]]
      /\ UNCHANGED <<requester, now, clock, met>>
  BY DEF Write, Step, prompts
<1>2. \A q \in Prompt : q # p => pc'[q] = pc[q]
  BY <1>1 DEF SafeAITypes, AITypeOK
<1>3. pc'[p] = "submit" /\ lastSeen'[key] = now[p]
  BY <1>1 DEF SafeAITypes, AITypeOK
<1>4. \A u \in User \union {NoUser} : u # key => lastSeen'[u] = lastSeen[u]
  BY <1>1 DEF SafeAITypes, AITypeOK
<1>5. \A q \in Prompt : /\ pc[q] \in Accepted => q # p /\ pc'[q] \in Accepted
                        /\ pc'[q] \in Accepted => q = p \/ pc[q] \in Accepted
                        /\ pc'[q] \in InAllow => q # p /\ pc[q] \in InAllow
                        /\ pc'[q] = "write" => pc[q] = "write"
                        /\ pc'[q] = "refused" => pc[q] = "refused"
  BY <1>1, <1>2, <1>3 DEF Accepted, InAllow
<1>6. pc[p] \in InAllow /\ pc'[p] \in Accepted
  BY <1>1, <1>3 DEF InAllow, Accepted
<1>7. \A q \in Prompt : pc[q] \in InAllow /\ SameKey(p, q) => p \in met
  BY <1>6 DEF LimiterInv, OverlapsMeet
<1>8. \A q \in Prompt \ met : pc[q] \in Accepted /\ SameKey(q, p) =>
        now[p] >= now[q] /\ now[p] - now[q] >= Cooldown
  BY <1>1, <1>6 DEF LimiterInv, LaterCalls
<1>9. ClockInv' /\ OverlapsMeet'
  BY <1>1, <1>4, <1>3, <1>5
     DEF LimiterInv, ClockInv, OverlapsMeet, SameKey, SafeAITypes, AITypeOK
<1>10. TimeIsKept'
  <2> SUFFICES ASSUME NEW q \in Prompt \ met, pc'[q] \in Accepted
               PROVE  lastSeen'[requester[q]] >= now[q]
    BY <1>1 DEF TimeIsKept
  <2>1. CASE q = p
    BY <1>3, <2>1 DEF SafeAITypes, AITypeOK
  <2>2. CASE q # p /\ requester[q] = key
    BY <1>3, <1>5, <1>8, <2>2 DEF SameKey
  <2>3. CASE q # p /\ requester[q] # key
    BY <1>4, <1>5, <2>3 DEF LimiterInv, TimeIsKept, SafeAITypes, AITypeOK
  <2>4. QED
    BY <2>1, <2>2, <2>3
<1>11. LaterCalls'
  BY <1>1, <1>5, <1>7 DEF LimiterInv, LaterCalls, SameKey, InAllow
<1>12. CooldownUnlessOverlap'
  <2> SUFFICES ASSUME NEW q \in Prompt \ met, NEW r \in Prompt \ met, q # r,
                      pc'[q] \in Accepted, pc'[r] \in Accepted,
                      requester[q] = requester[r]
               PROVE  Apart(q, r)
    BY <1>1 DEF CooldownUnlessOverlap, Apart
  <2>1. CASE q = p \/ r = p
    BY <1>5, <1>8, <2>1 DEF Apart, SameKey
  <2>2. CASE q # p /\ r # p
    BY <1>5, <2>2 DEF LimiterInv, CooldownUnlessOverlap
  <2>3. QED
    BY <2>1, <2>2
<1>13. TimeHasOwner'
  <2> SUFFICES ASSUME NEW u \in User \union {NoUser}, lastSeen'[u] # Never
               PROVE  \E q \in Prompt : /\ pc'[q] \in Accepted
                                        /\ requester[q] = u
                                        /\ now[q] = lastSeen'[u]
    BY <1>1 DEF TimeHasOwner
  <2>1. CASE u = key
    BY <1>3, <1>6, <2>1
  <2>2. CASE u # key
    BY <1>4, <1>5, <2>2 DEF LimiterInv, TimeHasOwner
  <2>3. QED
    BY <2>1, <2>2
<1>14. RefusalHasCause'
  BY <1>1, <1>5 DEF LimiterInv, RefusalHasCause
<1>15. QED
  BY <1>9, <1>10, <1>11, <1>12, <1>13, <1>14 DEF LimiterInv

-----------------------------------------------------------------------------
\* What all the other threads do is quiet.
LEMMA OthersAreQuiet ==
  ASSUME SafeAITypes, [AINext]_aiVars,
         \A p \in Prompt : ~ReadClock(p) /\ ~Test(p) /\ ~Write(p)
  PROVE  Quiet
<1> USE DEF SafeAITypes, AITypeOK, Step, Quiet, InAllow, Accepted,
            names, prompts, limiter, pools
<1>1. ASSUME NEW s \in Session, NEW u \in User \union {NoUser}, SetName(s, u)
      PROVE  Quiet
  BY <1>1 DEF SetName
<1>2. ASSUME NEW s \in Session, NEW p \in Prompt, SendPrompt(s, p)
      PROVE  Quiet
  BY <1>2 DEF SendPrompt
<1>3. ASSUME NEW s \in Session, SubmitReview(s) \/ ForwardRaises(s)
      PROVE  Quiet
  BY <1>3 DEF SubmitReview, ForwardRaises
<1>4. ASSUME NEW p \in Prompt,
             \/ ReviewStarts(p) \/ ReviewReturns(p) \/ SubmitReply(p)
             \/ ReplyStarts(p) \/ ReplyReturns(p) \/ ReplyUnsaved(p)
             \/ SaveReply(p) \/ Cancel(p)
      PROVE  Quiet
  BY <1>4 DEF ReviewStarts, ReviewReturns, SubmitReply, ReplyStarts,
              ReplyReturns, ReplyUnsaved, SaveReply, Cancel
<1>5. CASE CloseReplies \/ RepliesClosed \/ Tick
  BY <1>5 DEF CloseReplies, RepliesClosed, Tick
<1>6. CASE CloseReviews
  BY <1>6 DEF CloseReviews
<1>7. CASE UNCHANGED aiVars
  BY <1>7 DEF aiVars
<1>8. QED
  BY <1>1, <1>2, <1>3, <1>4, <1>5, <1>6, <1>7
     DEF AINext, Requests, Review, Reply, Shutdown

LEMMA LimiterStep ==
  SafeAITypes /\ LimiterInv /\ [AINext]_aiVars => LimiterInv'
<1> SUFFICES ASSUME SafeAITypes, LimiterInv, [AINext]_aiVars PROVE LimiterInv'
  OBVIOUS
<1>1. CASE \E p \in Prompt : ReadClock(p)
  BY <1>1, ReadClockStep
<1>2. CASE \E p \in Prompt : Test(p)
  BY <1>2, TestStep
<1>3. CASE \E p \in Prompt : Write(p)
  BY <1>3, WriteStep
<1>4. CASE \A p \in Prompt : ~ReadClock(p) /\ ~Test(p) /\ ~Write(p)
  BY <1>4, OthersAreQuiet, QuietStep
<1>5. QED
  BY <1>1, <1>2, <1>3, <1>4

LEMMA LimiterInit == AIInit => LimiterInv
  BY AIAssumption
     DEF AIInit, LimiterInv, ClockInv, OverlapsMeet, TimeIsKept, LaterCalls,
         CooldownUnlessOverlap, TimeHasOwner, RefusalHasCause, InAllow,
         Accepted, Never

LEMMA LimiterAlways == AISpec => []LimiterInv
  BY SafeAITypesInit, SafeAITypesStep, LimiterInit, LimiterStep, PTL DEF AISpec

\* The limiter has no lock, yet two accepted prompts charged to one name are a
\* cooldown apart unless one of their calls of allow overlapped another.
THEOREM CooldownAlways == AISpec => []CooldownUnlessOverlap
<1>1. LimiterInv => CooldownUnlessOverlap
  BY DEF LimiterInv
<1>2. QED
  BY <1>1, LimiterAlways, PTL

\* Every refusal is explained by an accepted prompt of the name less than a
\* cooldown earlier, overlapping calls included.
THEOREM RefusalsHaveCauses == AISpec => []RefusalHasCause
<1>1. LimiterInv => RefusalHasCause
  BY DEF LimiterInv
<1>2. QED
  BY <1>1, LimiterAlways, PTL

-----------------------------------------------------------------------------
(* The relay around the replies: whatever starts, stops and connects, the    *)
(* prompts go the way of module AIReplies.                                   *)

LEMMA RelayStep == [RelayNext]_relayVars => [AINext]_aiVars
<1> SUFFICES ASSUME [RelayNext]_relayVars PROVE [AINext]_aiVars
  OBVIOUS
<1>1. CASE \/ StartRelay \/ StartTcp \/ StartWeb \/ Signal \/ SweeperEnds \/ Exit
           \/ SetFlag \/ CloseListener \/ ListTcp \/ ListWeb \/ ListAll \/ Close
           \/ Removed \/ ShutHttpd \/ StopHeartbeat
  BY <1>1 DEF StartRelay, StartTcp, StartWeb, Signal, SweeperEnds, Exit, SetFlag,
              CloseListener, ListTcp, ListWeb, ListAll, Close, Removed, ShutHttpd,
              StopHeartbeat
<1>2. CASE ShutRouter
  BY <1>2 DEF ShutRouter, AINext
<1>3. ASSUME NEW s \in Session,
             Unindex(s) \/ Connect(s) \/ Reader(s) \/ ReaderStops(s) \/ Kick(s)
      PROVE  [AINext]_aiVars
  BY <1>3 DEF Unindex, Connect, Reader, Register, Track, ReaderStops, ReaderEnds,
              Kick, KickEnds
<1>4. ASSUME NEW s \in Session, Handler(s) \/ Request(s) PROVE [AINext]_aiVars
  BY <1>4 DEF Handler, Request, AINext
<1>5. ASSUME NEW p \in Prompt, Worker(p) PROVE [AINext]_aiVars
  BY <1>5 DEF Worker, AINext
<1>6. CASE UNCHANGED relayVars
  BY <1>6 DEF relayVars
<1>7. QED
  BY <1>1, <1>2, <1>3, <1>4, <1>5, <1>6 DEF RelayNext, Main

\* Starting and stopping add nothing to what the router does with a prompt, so
\* every theorem about the replies holds of the whole relay.
THEOREM RelayImplementsReplies == RelaySpec => AISpec
<1>1. RelayInit => AIInit
  BY DEF RelayInit
<1>2. QED
  BY <1>1, RelayStep, PTL DEF RelaySpec, AISpec

-----------------------------------------------------------------------------
(* Types of the relay's own variables.                                      *)

OwnTypes ==
  /\ main \in Starting \union {"serve"} \union Stopping
                       \union {"returned", "exited"}
  /\ listening \in BOOLEAN
  /\ serving \in BOOLEAN
  /\ stopping \in BOOLEAN
  /\ sweeper \in {"off", "on", "told"}
  /\ where \in [Session -> {"away", "accepted", "register", "reading",
                            "leaving", "ended"}]
  /\ registered \subseteq Session
  /\ tracked \subseteq Session
  /\ closed \subseteq Session
  /\ todo \subseteq Session
  /\ victim \in Session \union {NoSession}
  /\ evicted \subseteq Session
  /\ late \subseteq Session
  /\ losses \in 0..MaxLosses

LEMMA MainTypes ==
  ASSUME OwnTypes,
         \/ StartRelay \/ StartTcp \/ StartWeb \/ Signal \/ SweeperEnds \/ Exit
         \/ Main
  PROVE  OwnTypes'
<1> USE DEF OwnTypes, Starting, Stopping, At, gates, sessions, removals
<1>1. CASE StartRelay \/ StartTcp \/ StartWeb \/ Signal \/ SweeperEnds
  BY <1>1 DEF StartRelay, StartTcp, StartWeb, Signal, SweeperEnds
<1>2. CASE Exit
  BY <1>2 DEF Exit
<1>3. CASE SetFlag \/ CloseListener \/ ShutHttpd \/ StopHeartbeat
  BY <1>3 DEF SetFlag, CloseListener, ShutHttpd, StopHeartbeat
<1>4. CASE ListTcp \/ ListWeb \/ ListAll
  BY <1>4 DEF ListTcp, ListWeb, ListAll
<1>5. ASSUME NEW s \in Session, Unindex(s) PROVE OwnTypes'
  BY <1>5 DEF Unindex
<1>6. CASE Close
  BY <1>6 DEF Close
<1>7. CASE Removed
  BY <1>7 DEF Removed
<1>8. CASE ShutRouter
  BY <1>8 DEF ShutRouter
<1>9. QED
  BY <1>1, <1>2, <1>3, <1>4, <1>5, <1>6, <1>7, <1>8 DEF Main

LEMMA OwnTypesStep == OwnTypes /\ [RelayNext]_relayVars => OwnTypes'
<1> SUFFICES ASSUME OwnTypes, [RelayNext]_relayVars PROVE OwnTypes'
  OBVIOUS
<1> USE RelayAssumption DEF OwnTypes, Go, gates, sessions, removals
<1>1. CASE \/ StartRelay \/ StartTcp \/ StartWeb \/ Signal \/ SweeperEnds \/ Exit
           \/ Main
  BY <1>1, MainTypes
<1>2. ASSUME NEW s \in Session, Connect(s) \/ Register(s) \/ Track(s)
      PROVE  OwnTypes'
  BY <1>2 DEF Connect, Register, Track
<1>3. ASSUME NEW s \in Session, ReaderStops(s) \/ ReaderEnds(s) PROVE OwnTypes'
  BY <1>3 DEF ReaderStops, ReaderEnds
<1>4. ASSUME NEW s \in Session, Kick(s) \/ KickEnds(s) PROVE OwnTypes'
  BY <1>4 DEF Kick, KickEnds
<1>5. ASSUME NEW s \in Session, Handler(s) \/ Request(s) PROVE OwnTypes'
  BY <1>5 DEF Handler, Request
<1>6. ASSUME NEW p \in Prompt, Worker(p) PROVE OwnTypes'
  BY <1>6 DEF Worker
<1>7. CASE UNCHANGED relayVars
  BY <1>7 DEF relayVars
<1>8. QED
  BY <1>1, <1>2, <1>3, <1>4, <1>5, <1>6, <1>7 DEF RelayNext, Reader

LEMMA OwnTypesInit == RelayInit => OwnTypes
<1> SUFFICES ASSUME RelayInit PROVE OwnTypes
  OBVIOUS
<1>1. losses \in 0..MaxLosses
  BY RelayAssumption DEF RelayInit
<1>2. main \in Starting
  BY DEF RelayInit, Starting
<1>3. QED
  BY <1>1, <1>2 DEF RelayInit, OwnTypes

\* Every variable of the relay keeps its type, those of its replies included.
THEOREM RelayTypesAlways == RelaySpec => []RelayTypeOK
<1>1. AITypeOK /\ OwnTypes => RelayTypeOK
  BY DEF RelayTypeOK, OwnTypes
<1>2. QED
  BY <1>1, RelayImplementsReplies, AITypesAlways, OwnTypesInit, OwnTypesStep, PTL
     DEF RelaySpec

-----------------------------------------------------------------------------
(* stop.  An open session is in the registry or on its way out of it; once   *)
(* relay.stop has its list, what is registered is on it or came later.       *)

StopInv ==
  /\ \A s \in Session :
       where[s] \in {"register", "reading"} /\ s \notin closed
         => s \in registered \union evicted \/ victim = s
  /\ main = "remove" => registered \subseteq todo \union late
  /\ main = "returned" => registered \subseteq late /\ victim = NoSession

LEMMA StopInvStep == OwnTypes /\ StopInv /\ [RelayNext]_relayVars => StopInv'
<1> SUFFICES ASSUME OwnTypes, StopInv, [RelayNext]_relayVars PROVE StopInv'
  OBVIOUS
<1> USE AIAssumption
    DEF OwnTypes, StopInv, Go, At, gates, sessions, removals
<1>1. CASE StartRelay \/ StartTcp \/ StartWeb \/ Signal \/ SweeperEnds
  BY <1>1 DEF StartRelay, StartTcp, StartWeb, Signal, SweeperEnds
<1>2. CASE Exit
  BY <1>2 DEF Exit
<1>3. CASE SetFlag \/ CloseListener \/ ShutHttpd \/ StopHeartbeat
  BY <1>3 DEF SetFlag, CloseListener, ShutHttpd, StopHeartbeat
<1>4. CASE ListTcp \/ ListWeb \/ ListAll
  BY <1>4 DEF ListTcp, ListWeb, ListAll
<1>5. ASSUME NEW s \in Session, Unindex(s) PROVE StopInv'
  BY <1>5 DEF Unindex, Removing
<1>6. CASE Close
  BY <1>6 DEF Close
<1>7. CASE Removed
  BY <1>7 DEF Removed
<1>8. CASE ShutRouter
  BY <1>8 DEF ShutRouter
<1>9. ASSUME NEW s \in Session, Connect(s) \/ Track(s) PROVE StopInv'
  BY <1>9 DEF Connect, Track
<1>10. ASSUME NEW s \in Session, Register(s) PROVE StopInv'
  BY <1>10 DEF Register
<1>11. ASSUME NEW s \in Session, ReaderStops(s) \/ ReaderEnds(s) PROVE StopInv'
  BY <1>11 DEF ReaderStops, ReaderEnds
<1>12. ASSUME NEW s \in Session, Kick(s) \/ KickEnds(s) PROVE StopInv'
  BY <1>12 DEF Kick, KickEnds
<1>13. ASSUME NEW s \in Session, Handler(s) \/ Request(s) PROVE StopInv'
  BY <1>13 DEF Handler, Request
<1>14. ASSUME NEW p \in Prompt, Worker(p) PROVE StopInv'
  BY <1>14 DEF Worker
<1>15. CASE UNCHANGED relayVars
  BY <1>15 DEF relayVars
<1>16. QED
  BY <1>1, <1>2, <1>3, <1>4, <1>5, <1>6, <1>7, <1>8, <1>9, <1>10, <1>11, <1>12,
     <1>13, <1>14, <1>15 DEF RelayNext, Reader, Main

\* When relay.stop has returned, a session that is still open was registered
\* after it took its list, or whoever kicked it is about to close it.
THEOREM StopClosesAll == RelaySpec => []StopClosesRegistered
<1>1. RelayInit => StopInv
  BY DEF RelayInit, StopInv
<1>2. OwnTypes /\ StopInv => StopClosesRegistered
  BY AIAssumption DEF OwnTypes, StopInv, StopClosesRegistered
<1>3. QED
  BY <1>1, <1>2, StopInvStep, OwnTypesInit, OwnTypesStep, PTL DEF RelaySpec
=============================================================================
