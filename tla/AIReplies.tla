------------------------------ MODULE AIReplies ------------------------------
(***************************************************************************)
(* "@AI" messages of one group: their review, the rate limiter, the two    *)
(* thread pools and the reply (server/message_router.py, AIRateLimiter of  *)
(* server/ai_service.py), until MessageRouter.shutdown closes the pools.   *)
(*                                                                         *)
(* A prompt goes from thread to thread and never to two at once, so one pc *)
(* per prompt says where it is.  Forwarding the message and what follows a *)
(* rejection are the business of module ChatMessages.                      *)
(***************************************************************************)
EXTENDS Integers, FiniteSets

CONSTANTS
  Session,   \* connections
  User,      \* members of the group
  Prompt,    \* group messages that begin with @AI
  NoUser, NoSession, NoPrompt,
  Workers,   \* threads of either pool (ai_workers)
  Cooldown,  \* AIRateLimiter.cooldown_seconds
  MaxTime,   \* bound of the clock
  MaxNames   \* bound: logins and logouts

Never == -1  \* no entry in AIRateLimiter._last_seen

ASSUME AIAssumption ==
  /\ NoUser \notin User
  /\ NoSession \notin Session
  /\ NoPrompt \notin Prompt
  /\ Workers \in Nat \ {0}
  /\ Cooldown \in Nat \ {0}
  /\ MaxTime \in Nat
  /\ MaxNames \in Nat

VARIABLES
  username,   \* session.username
  job,        \* the prompt a reader's handler has saved and not yet submitted
  named,      \* logins and logouts so far
  pc,         \* where each prompt is
  author,     \* messages.sender
  origin,     \* the session the lambda on_allowed has captured
  requester,  \* the user the limiter charges, NoUser for the empty name
  now,        \* time.monotonic() of the call of allow
  lastSeen,   \* AIRateLimiter._last_seen
  clock,
  rows,       \* AI_RESPONSE rows saved for each prompt
  reviewing,  \* the moderation pool accepts work
  pool,       \* the AI pool: "open", "closing" under its lock, "shut"
  cancelling, \* the prompt whose reply the closing thread sends
  met         \* prompts whose call of allow overlapped another of its key

names   == <<username, named>>
prompts == <<author, origin, requester, now, rows>>
limiter == <<lastSeen, clock, met>>
pools   == <<reviewing, pool, cancelling>>

aiVars == <<names, job, pc, prompts, limiter, pools>>

InAllow  == {"test", "write"}
Accepted == {"submit", "waiting", "answering", "save", "answered", "unsaved",
             "lost"}
PromptPC == {"unsent", "saved", "cut", "queued", "check", "failed", "charge",
             "refused", "rejected", "unreviewed"} \union InAllow \union Accepted

AITypeOK ==
  /\ username \in [Session -> User \union {NoUser}]
  /\ job \in [Session -> Prompt \union {NoPrompt}]
  /\ named \in 0..MaxNames
  /\ pc \in [Prompt -> PromptPC]
  /\ author \in [Prompt -> User \union {NoUser}]
  /\ origin \in [Prompt -> Session \union {NoSession}]
  /\ requester \in [Prompt -> User \union {NoUser}]
  /\ now \in [Prompt -> 0..MaxTime]
  /\ lastSeen \in [User \union {NoUser} -> -1..MaxTime]
  /\ clock \in 0..MaxTime
  /\ rows \in [Prompt -> 0..1]
  /\ reviewing \in BOOLEAN
  /\ pool \in {"open", "closing", "shut"}
  /\ cancelling \in Prompt \union {NoPrompt}
  /\ met \subseteq Prompt

AIInit ==
  /\ username = [s \in Session |-> NoUser]
  /\ job = [s \in Session |-> NoPrompt]
  /\ named = 0
  /\ pc = [p \in Prompt |-> "unsent"]
  /\ author = [p \in Prompt |-> NoUser]
  /\ origin = [p \in Prompt |-> NoSession]
  /\ requester = [p \in Prompt |-> NoUser]
  /\ now = [p \in Prompt |-> 0]
  /\ lastSeen = [u \in User \union {NoUser} |-> Never]
  /\ clock = 0
  /\ rows = [p \in Prompt |-> 0]
  /\ reviewing = TRUE
  /\ pool = "open"
  /\ cancelling = NoPrompt
  /\ met = {}

Step(p, from, to) == pc[p] = from /\ pc' = [pc EXCEPT ![p] = to]

-----------------------------------------------------------------------------
(* The reader of session s.                                                 *)

\* Login, login under another name, or logout (u = NoUser).  A login kicks the
\* connection that had the name, which keeps it in session.username.
SetName(s, u) ==
  /\ job[s] = NoPrompt
  /\ u # username[s]
  /\ named < MaxNames
  /\ named' = named + 1
  /\ username' = [username EXCEPT ![s] = u]
  /\ UNCHANGED <<job, pc, prompts, limiter, pools>>

\* group_msg saves and forwards the message, and hands session to the lambda.
SendPrompt(s, p) ==
  /\ Step(p, "unsent", "saved")
  /\ job[s] = NoPrompt
  /\ username[s] # NoUser
  /\ job' = [job EXCEPT ![s] = p]
  /\ author' = [author EXCEPT ![p] = username[s]]
  /\ origin' = [origin EXCEPT ![p] = s]
  /\ UNCHANGED <<names, requester, now, rows, limiter, pools>>

\* Submitting to a pool that was shut down raises: the sender gets an
\* "internal server error" for a message that was saved and forwarded.
SubmitReview(s) ==
  /\ job[s] # NoPrompt
  /\ Step(job[s], "saved", IF reviewing THEN "queued" ELSE "unreviewed")
  /\ job' = [job EXCEPT ![s] = NoPrompt]
  /\ UNCHANGED <<names, prompts, limiter, pools>>

\* A forward that encode_frame cannot encode (a frame over MAX_FRAME_SIZE, or a
\* lone surrogate in request_id) raises out of send, and the handler with it:
\* the prompt is in the history and the review is never submitted.
ForwardRaises(s) ==
  /\ job[s] # NoPrompt
  /\ Step(job[s], "saved", "cut")
  /\ job' = [job EXCEPT ![s] = NoPrompt]
  /\ UNCHANGED <<names, prompts, limiter, pools>>

-----------------------------------------------------------------------------
(* The review of prompt p and its callback.  A done callback may also run   *)
(* on the thread that adds it, if the future is quicker: here it always     *)
(* runs on the worker.                                                      *)

Reviewer == {"check", "charge", "submit"} \union InAllow

ReviewStarts(p) ==
  /\ Step(p, "queued", "check")
  /\ Cardinality({q \in Prompt : pc[q] \in Reviewer}) < Workers
  /\ UNCHANGED <<names, job, prompts, limiter, pools>>

\* check turns some errors of the API into a verdict of its own and lets others
\* through (an answer that ends early, or is not UTF-8): the callback logs them
\* and the message stays.
ReviewReturns(p) ==
  /\ \/ Step(p, "check", "charge")
     \/ Step(p, "check", "rejected")
     \/ Step(p, "check", "failed")
  /\ UNCHANGED <<names, job, prompts, limiter, pools>>

\* on_allowed reads session.username now, not when the message came.
ReadClock(p) ==
  LET key == username[origin[p]]
      meets == {q \in Prompt : pc[q] \in InAllow /\ requester[q] = key} IN
  /\ Step(p, "charge", "test")
  /\ requester' = [requester EXCEPT ![p] = key]
  /\ now' = [now EXCEPT ![p] = clock]
  /\ met' = IF meets = {} THEN met ELSE met \union meets \union {p}
  /\ UNCHANGED <<names, job, author, origin, rows, lastSeen, clock, pools>>

\* Mutant: a missing entry counts as 0.
WithinDefault(p) == now[p] - lastSeen[requester[p]] < Cooldown

Within(p) ==
  /\ lastSeen[requester[p]] # Never
  /\ now[p] - lastSeen[requester[p]] < Cooldown

\* Nobody holds a lock: another call may come between the test and the write.
\* Who is refused gets a warning, on the connection of the name charged.
Test(p) ==
  /\ Step(p, "test", IF Within(p) THEN "refused" ELSE "write")
  /\ UNCHANGED <<names, job, prompts, limiter, pools>>

\* Mutant: the time of the call is not kept.
WriteForgets(p) ==
  /\ Step(p, "write", "submit")
  /\ UNCHANGED <<names, job, prompts, limiter, pools>>

Write(p) ==
  /\ Step(p, "write", "submit")
  /\ lastSeen' = [lastSeen EXCEPT ![requester[p]] = now[p]]
  /\ UNCHANGED <<names, job, prompts, clock, met, pools>>

\* submit waits for the lock that the closing thread holds, then raises: the
\* prompt has used up its cooldown and is dropped.
SubmitReply(p) ==
  /\ \/ pool = "open" /\ Step(p, "submit", "waiting")
     \/ pool = "shut" /\ Step(p, "submit", "lost")
  /\ UNCHANGED <<names, job, prompts, limiter, pools>>

-----------------------------------------------------------------------------
(* The reply, on a worker of the AI pool.                                   *)

ReplyStarts(p) ==
  /\ Step(p, "waiting", "answering")
  /\ Cardinality({q \in Prompt : q # cancelling
                                 /\ pc[q] \in {"answering", "save"}}) < Workers
  /\ UNCHANGED <<names, job, prompts, limiter, pools>>

\* The API's answer, or the fallback text when it fails: there is always one.
ReplyReturns(p) ==
  /\ Step(p, "answering", "save")
  /\ UNCHANGED <<names, job, prompts, limiter, pools>>

\* Mutant: the callback of a cancelled reply waits for the pool's lock.
SaveReplyHolds(p) ==
  /\ Step(p, "save", "answered")
  /\ rows' = [rows EXCEPT ![p] = @ + 1]
  /\ UNCHANGED <<names, job, author, origin, requester, now, limiter, pools>>

\* Mutant: the fallback text is sent beside the answer.
SaveReplyBoth(p) ==
  /\ Step(p, "save", "answered")
  /\ rows' = [rows EXCEPT ![p] = @ + 2]
  /\ cancelling' = IF cancelling = p THEN NoPrompt ELSE cancelling
  /\ UNCHANGED <<names, job, author, origin, requester, now, limiter,
                 reviewing, pool>>

\* Saved, then written to the members: ChatMessages has the loop.
SaveReply(p) ==
  /\ Step(p, "save", "answered")
  /\ rows' = [rows EXCEPT ![p] = @ + 1]
  /\ cancelling' = IF cancelling = p THEN NoPrompt ELSE cancelling
  /\ UNCHANGED <<names, job, author, origin, requester, now, limiter,
                 reviewing, pool>>

\* An answer with a lone surrogate cannot be saved, and the callback ends; the
\* fallback text of a cancelled reply can.
ReplyUnsaved(p) ==
  /\ cancelling # p
  /\ Step(p, "save", "unsaved")
  /\ UNCHANGED <<names, job, prompts, limiter, pools>>

-----------------------------------------------------------------------------
(* MessageRouter.shutdown, by the thread that stops the relay.              *)

CloseReplies ==
  /\ pool = "open"
  /\ pool' = "closing"
  /\ UNCHANGED <<names, job, pc, prompts, limiter, reviewing, cancelling>>

\* Mutant: the callback of a cancelled future is not run.
CancelSilently(p) ==
  /\ pool = "closing"
  /\ cancelling = NoPrompt
  /\ Step(p, "waiting", "lost")
  /\ UNCHANGED <<names, job, prompts, limiter, pools>>

\* A cancelled future runs its callback at once, on the thread that cancels:
\* _send_ai_reply catches CancelledError and sends the fallback text.
Cancel(p) ==
  /\ pool = "closing"
  /\ cancelling = NoPrompt
  /\ Step(p, "waiting", "save")
  /\ cancelling' = p
  /\ UNCHANGED <<names, job, prompts, limiter, reviewing, pool>>

RepliesClosed ==
  /\ pool = "closing"
  /\ cancelling = NoPrompt
  /\ \A p \in Prompt : pc[p] # "waiting"
  /\ pool' = "shut"
  /\ UNCHANGED <<names, job, pc, prompts, limiter, reviewing, cancelling>>

\* The callback of a cancelled review only logs.
CloseReviews ==
  /\ pool = "shut"
  /\ reviewing
  /\ reviewing' = FALSE
  /\ pc' = [p \in Prompt |-> IF pc[p] = "queued" THEN "unreviewed" ELSE pc[p]]
  /\ UNCHANGED <<names, job, prompts, limiter, pool, cancelling>>

Shutdown ==
  \/ CloseReplies
  \/ \E p \in Prompt : Cancel(p)
  \/ RepliesClosed
  \/ CloseReviews

-----------------------------------------------------------------------------
Tick ==
  /\ clock < MaxTime
  /\ clock' = clock + 1
  /\ UNCHANGED <<names, job, pc, prompts, lastSeen, met, pools>>

Review(p) ==
  \/ ReviewStarts(p)
  \/ ReviewReturns(p)
  \/ ReadClock(p)
  \/ Test(p)
  \/ Write(p)
  \/ SubmitReply(p)

Reply(p) ==
  \/ ReplyStarts(p)
  \/ ReplyReturns(p)
  \/ SaveReply(p)
  \/ ReplyUnsaved(p)

Requests(s) ==
  \/ \E u \in User \union {NoUser} : SetName(s, u)
  \/ \E p \in Prompt : SendPrompt(s, p)

AINext ==
  \/ Tick
  \/ \E s \in Session : Requests(s) \/ SubmitReview(s) \/ ForwardRaises(s)
  \/ \E p \in Prompt : Review(p) \/ Reply(p)
  \/ Shutdown

AISpec == AIInit /\ [][AINext]_aiVars

-----------------------------------------------------------------------------
(* Properties.                                                              *)

Apart(p, q) == now[p] - now[q] >= Cooldown \/ now[q] - now[p] >= Cooldown

\* docs "@AI requests of a user in a group have a cooldown".  The limiter has
\* no lock, but only calls that overlap get around it: two
\* accepted prompts charged to one name are apart, unless one of their calls
\* of allow ran at the same time as another for that name.
CooldownUnlessOverlap ==
  \A p, q \in Prompt \ met :
    /\ p # q
    /\ pc[p] \in Accepted
    /\ pc[q] \in Accepted
    /\ requester[p] = requester[q]
    => Apart(p, q)

\* Nobody is refused without a reason: whoever is too early comes less than a
\* cooldown after a prompt that was accepted and charged to the same name; a
\* refusal does not start a new cooldown.
RefusalHasCause ==
  \A p \in Prompt : pc[p] = "refused" =>
    \E q \in Prompt :
      /\ pc[q] \in Accepted
      /\ requester[q] = requester[p]
      /\ now[p] - now[q] < Cooldown

\* docs "when the API fails the service sends its fallback to the group": an
\* accepted prompt is answered, also when the pool is shut down while it
\* waits; only one that comes after the shutdown is lost, and only an answer
\* that cannot be saved is dropped.
AcceptedIsAnswered ==
  \A p \in Prompt :
    (pc[p] = "waiting") ~>
      \/ pc[p] = "answered" /\ rows[p] = 1
      \/ pc[p] = "unsaved"

\* The three ways in which a saved prompt ends without a verdict: a forward
\* raised, the review raised, or the pool was shut down before it took it.
Unjudged(p) ==
  \/ pc[p] \in {"cut", "failed"}
  \/ ~reviewing /\ pc[p] \in {"saved", "unreviewed"}

\* README "every text is reviewed": no saved prompt is forgotten on its way to
\* a verdict, by the pool, by its shutdown or by the exit of the process; what
\* the code does not review is named in Unjudged.
SavedIsReviewed ==
  \A p \in Prompt :
    (pc[p] = "saved") ~>
      (pc[p] \in {"rejected", "refused"} \union Accepted \/ Unjudged(p))
=============================================================================
