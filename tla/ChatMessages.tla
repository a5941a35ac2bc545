---------------------------- MODULE ChatMessages ----------------------------
(***************************************************************************)
(* Messages of one conversation, sent first and reviewed afterwards, and   *)
(* their recall: the chat, recall, history and membership handlers of      *)
(* server/message_router.py, its moderation executor, and what the clients *)
(* (web/app.js, client/local_history.py) show of it all.                   *)
(*                                                                         *)
(* Connections are those of module SessionDirectory, the promise of        *)
(* UserManager.  A step of a thread is one database transaction, one look  *)
(* into the directory or one frame written; a frame counts as shown when   *)
(* written, for a connection delivers in order.                            *)
(***************************************************************************)
EXTENDS SessionDirectory, Naturals, Sequences, FiniteSets

CONSTANTS
  WebSession,  \* connections of the browser client; the others are the CLI's
  Insiders,    \* the two parties of a private chat, the first of a group
  Message,     \* text messages, and the moderation reviews of each
  NoUser, NoMessage,
  Reconnect,   \* may a user log in again on another connection?
  Workers,     \* threads of the moderation executor (ai_workers)
  MaxRequests, \* bound: history and recall requests
  MaxMoves,    \* bound: members that join or leave
  MaxLosses    \* bound: names and connections lost

ASSUME ChatAssumption ==
  /\ WebSession \subseteq Session
  /\ Insiders \subseteq User
  /\ Message \intersect Session = {}
  /\ NoUser \notin User
  /\ NoMessage \notin Message
  /\ NoSession \notin Session
  /\ Reconnect \in BOOLEAN
  /\ Workers \in Nat \ {0}
  /\ MaxRequests \in Nat
  /\ MaxMoves \in Nat
  /\ MaxLosses \in Nat

VARIABLES
  private,   \* the conversation is a private chat, not a group
  username,  \* session.username
  members,   \* the rows of group_members
  left,      \* history: users that have left the group
  author,    \* messages.sender, NoUser while there is no row
  recalled,  \* messages.recalled_by, "nobody" while recalled_at is NULL
  pc,        \* where each reader thread, and each message's review, is
  job,       \* the message a reader's handler works on
  todo,      \* users a thread has still to write to
  target,    \* what get_session returned for the next of them
  page,      \* the rows a history handler has read
  items,     \* the client's list: for each message its entries, in order
  noticed,   \* recall notices each client got, and from whom
  warned,    \* clients that got the moderation warning of each message
  asked,     \* history and recall requests so far
  moved,     \* joins and leaves so far
  lost,      \* names and connections lost so far
  cut        \* history: what an error in a send ended, and of which message

\* The directory, and the kind of conversation, which never changes.
directory == <<holder, open, evicted, private>>
tables    == <<members, left, author, recalled>>
threads   == <<pc, job, todo, target, page>>
clients   == <<items, noticed, warned>>
history   == <<asked, moved, lost, cut>>

chatVars == <<directory, username, tables, threads, clients, history>>

Thread == Session \union Message

\* A reader waits at "idle"; a review is "unsent" until it is submitted.
ReaderPC == {"idle", "save", "forward", "submit", "recall", "audience",
             "notify", "history", "reply"}
ReviewPC == {"unsent", "queued", "check", "warn", "strike", "audience",
             "notify", "done"}

ChatTypeOK ==
  /\ private \in BOOLEAN
  /\ holder \in [User -> Session \union {NoSession}]
  /\ open \subseteq Session
  /\ evicted \subseteq open
  /\ username \in [Session -> User \union {NoUser}]
  /\ members \subseteq User
  /\ left \subseteq User
  /\ author \in [Message -> User \union {NoUser}]
  /\ recalled \in [Message -> {"nobody", "sender", "server"}]
  /\ pc \in [Thread -> ReaderPC \union ReviewPC]
  /\ job \in [Session -> Message \union {NoMessage}]
  /\ todo \in [Thread -> SUBSET User]
  /\ target \in [Thread -> Session \union {NoSession}]
  /\ page \in [Session -> [Message -> {"absent", "shown", "recalled"}]]
  /\ items \in [Session -> [Message -> Seq({"shown", "recalled"})]]
  /\ noticed \in [Session -> SUBSET (Message \X {"sender", "server"})]
  /\ warned \in [Message -> SUBSET Session]
  /\ asked \in 0..MaxRequests
  /\ moved \in 0..MaxMoves
  /\ lost \in 0..MaxLosses
  /\ cut \subseteq Message \X {"forward", "warning", "notice"}

NoRows == [m \in Message |-> "absent"]

ChatInit ==
  /\ Init
  /\ private \in BOOLEAN
  /\ username = [s \in Session |-> NoUser]
  /\ members = Insiders
  /\ left = {}
  /\ author = [m \in Message |-> NoUser]
  /\ recalled = [m \in Message |-> "nobody"]
  /\ pc = [t \in Thread |-> IF t \in Session THEN "idle" ELSE "unsent"]
  /\ job = [s \in Session |-> NoMessage]
  /\ todo = [t \in Thread |-> {}]
  /\ target = [t \in Thread |-> NoSession]
  /\ page = [s \in Session |-> NoRows]
  /\ items = [s \in Session |-> [m \in Message |-> <<>>]]
  /\ noticed = [s \in Session |-> {}]
  /\ warned = [m \in Message |-> {}]
  /\ asked = 0
  /\ moved = 0
  /\ lost = 0
  /\ cut = {}

Ask == asked < MaxRequests /\ asked' = asked + 1

Step(t, from, to) == pc[t] = from /\ pc' = [pc EXCEPT ![t] = to]

-----------------------------------------------------------------------------
(* Connections come and go as SessionDirectory promises.  A connection keeps *)
(* the name of its first login; a change of name is in SessionRegistry.      *)

Login(s, u) ==
  /\ pc[s] = "idle"
  /\ username[s] = NoUser
  /\ Reconnect \/ \A other \in Session : username[other] # u
  /\ Attach(u, s)
  /\ username' = [username EXCEPT ![s] = u]
  /\ UNCHANGED <<private, tables, threads, clients, history>>

\* A logout or a removal takes the name, a removal or a failed write closes.
Departure ==
  /\ (\E u \in User : Detach(u)) \/ (\E s \in Session : s \in open /\ Close(s))
  /\ lost < MaxLosses
  /\ lost' = lost + 1
  /\ UNCHANGED <<private, username, tables, threads, clients, asked, moved,
                 cut>>

-----------------------------------------------------------------------------
(* What a client makes of the frames written to it.                         *)

Pushed(s, m) ==
  IF s \in WebSession \/ items[s][m] = <<>> THEN Append(items[s][m], "shown")
                                            ELSE items[s][m]

\* Both clients mark the first entry they find.
Struck(s, m) ==
  IF items[s][m] = <<>> THEN <<>> ELSE [items[s][m] EXCEPT ![1] = "recalled"]

\* The browser replaces its list by the page; the CLI adds what it lacks.
Loaded(s, m) ==
  LET row == IF page[s][m] = "absent" THEN <<>> ELSE <<page[s][m]>> IN
    IF s \in WebSession \/ items[s][m] = <<>> THEN row ELSE items[s][m]

Show(s, m) ==
  items' = IF s \in open THEN [items EXCEPT ![s][m] = Pushed(s, m)] ELSE items

-----------------------------------------------------------------------------
(* private_msg and group_msg.                                               *)

\* A group message goes to the members read here, its author among them.
SendCheck(s, m) ==
  /\ Step(s, "idle", "save")
  /\ username[s] \in members
  /\ author[m] = NoUser
  /\ \A other \in Session : job[other] # m
  /\ job' = [job EXCEPT ![s] = m]
  /\ todo' = [todo EXCEPT ![s] = IF private THEN members \ {username[s]}
                                            ELSE members]
  /\ UNCHANGED <<directory, username, tables, target, page, clients, history>>

SaveMessage(s) ==
  /\ Step(s, "save", "forward")
  /\ author' = [author EXCEPT ![job[s]] = username[s]]
  /\ UNCHANGED <<directory, username, members, left, recalled, job, todo,
                 target, page, clients, history>>

\* get_session for the next user of a loop; nothing to do if it returns None.
Lookup(t, u) ==
  /\ pc[t] \in {"forward", "notify"}
  /\ target[t] = NoSession
  /\ u \in todo[t]
  /\ todo' = [todo EXCEPT ![t] = @ \ {u}]
  /\ target' = [target EXCEPT ![t] = holder[u]]
  /\ UNCHANGED <<directory, username, tables, pc, job, page, clients, history>>

LoopDone(t) == todo[t] = {} /\ target[t] = NoSession

Forward(s) ==
  /\ pc[s] = "forward"
  /\ target[s] # NoSession
  /\ Show(target[s], job[s])
  /\ target' = [target EXCEPT ![s] = NoSession]
  /\ UNCHANGED <<directory, username, tables, pc, job, todo, page, noticed,
                 warned, history>>

\* encode_frame raises for a frame above MAX_FRAME_SIZE and for text that has no
\* encoding, a lone surrogate in request_id; ClientSession.send, which tests
\* `closed` first, catches OSError only.  The rest of the handler or review is
\* lost: here the forwards left, the echo and the submit.
ForwardRaises(s) ==
  /\ Step(s, "forward", "idle")
  /\ \/ target[s] \in open
     \/ private /\ LoopDone(s) /\ s \in open
  /\ cut' = cut \union {<<job[s], "forward">>}
  /\ job' = [job EXCEPT ![s] = NoMessage]
  /\ todo' = [todo EXCEPT ![s] = {}]
  /\ target' = [target EXCEPT ![s] = NoSession]
  /\ UNCHANGED <<directory, username, tables, page, clients, asked, moved,
                 lost>>

\* A private message is echoed on the connection it came from.
ForwardEnds(s) ==
  /\ Step(s, "forward", "submit")
  /\ LoopDone(s)
  /\ IF private THEN Show(s, job[s]) ELSE UNCHANGED items
  /\ UNCHANGED <<directory, username, tables, job, todo, target, page,
                 noticed, warned, history>>

\* Mutant: only messages of authors still connected are reviewed.
SubmitIfOpen(s) ==
  /\ pc[s] = "submit"
  /\ pc' = [t \in Thread |-> IF t = s THEN "idle"
                             ELSE IF t = job[s] /\ s \in open THEN "queued"
                             ELSE pc[t]]
  /\ job' = [job EXCEPT ![s] = NoMessage]
  /\ UNCHANGED <<directory, username, tables, todo, target, page, clients,
                 history>>

Submit(s) ==
  /\ pc[s] = "submit"
  /\ pc' = [pc EXCEPT ![s] = "idle", ![job[s]] = "queued"]
  /\ job' = [job EXCEPT ![s] = NoMessage]
  /\ UNCHANGED <<directory, username, tables, todo, target, page, clients,
                 history>>

-----------------------------------------------------------------------------
(* The review of message m, on a worker of the moderation executor.         *)

\* A done callback may also run on the reader that submits the review, if the
\* check is quicker: it then waits for what it here does in parallel.
ReviewStarts(m) ==
  /\ Step(m, "queued", "check")
  /\ Cardinality({n \in Message : pc[n] \in ReviewPC \ {"unsent", "queued",
                                                        "done"}}) < Workers
  /\ UNCHANGED <<directory, username, tables, job, todo, target, page,
                 clients, history>>

\* Allowed; or the check raised what ModerationService.check does not catch, and
\* the review ends without a verdict: the message stays either way.
ReviewAllows(m) ==
  /\ Step(m, "check", "done")
  /\ UNCHANGED <<directory, username, tables, job, todo, target, page,
                 clients, history>>

\* Mutant: the message is recalled without a warning.
ReviewRejectsSilently(m) ==
  /\ Step(m, "check", "strike")
  /\ UNCHANGED <<directory, username, tables, job, todo, target, page,
                 clients, history>>

ReviewRejects(m) ==
  /\ Step(m, "check", "warn")
  /\ target' = [target EXCEPT ![m] = holder[author[m]]]
  /\ UNCHANGED <<directory, username, tables, job, todo, page, clients,
                 history>>

\* Mutant: the result of get_session is not tested.
WarnUntested(m) ==
  /\ Step(m, "warn", "strike")
  /\ warned' = [warned EXCEPT ![m] = @ \union {target[m]}]
  /\ target' = [target EXCEPT ![m] = NoSession]
  /\ UNCHANGED <<directory, username, tables, job, todo, page, items,
                 noticed, history>>

Warn(m) ==
  /\ Step(m, "warn", "strike")
  /\ warned' = [warned EXCEPT ![m] = @ \union (open \intersect {target[m]})]
  /\ target' = [target EXCEPT ![m] = NoSession]
  /\ UNCHANGED <<directory, username, tables, job, todo, page, items,
                 noticed, history>>

\* The warning carries the reason and the request_id.
WarnRaises(m) ==
  /\ Step(m, "warn", "done")
  /\ target[m] \in open
  /\ cut' = cut \union {<<m, "warning">>}
  /\ target' = [target EXCEPT ![m] = NoSession]
  /\ UNCHANGED <<directory, username, tables, job, todo, page, clients, asked,
                 moved, lost>>

\* Mutant: the review ends when there is nobody to warn.
StrikeIfWarned(m) ==
  /\ Step(m, "strike", IF warned[m] = {} THEN "done" ELSE "audience")
  /\ recalled' = [recalled EXCEPT ![m] = IF warned[m] = {} THEN @
                                                          ELSE "server"]
  /\ UNCHANGED <<directory, username, members, left, author, job, todo,
                 target, page, clients, history>>

\* recall_message does not look whether the message is recalled already.
Strike(m) ==
  /\ Step(m, "strike", "audience")
  /\ recalled' = [recalled EXCEPT ![m] = "server"]
  /\ UNCHANGED <<directory, username, members, left, author, job, todo,
                 target, page, clients, history>>

-----------------------------------------------------------------------------
(* message_recall by the sender, who learned the message_id from a frame; it *)
(* may come again, and after the server's own.                              *)

RecallCheck(s, m) ==
  /\ Step(s, "idle", "recall")
  /\ items[s][m] # <<>>
  /\ author[m] = username[s]
  /\ job' = [job EXCEPT ![s] = m]
  /\ Ask
  /\ UNCHANGED <<directory, username, tables, todo, target, page, clients,
                 moved, lost, cut>>

RecallMessage(s) ==
  /\ Step(s, "recall", "audience")
  /\ recalled' = [recalled EXCEPT ![job[s]] = "sender"]
  /\ UNCHANGED <<directory, username, members, left, author, job, todo,
                 target, page, clients, history>>

-----------------------------------------------------------------------------
(* _broadcast_recall, by a reader or a review.                              *)

About(t) == IF t \in Message THEN t ELSE job[t]

By(t) == IF t \in Message THEN "server" ELSE "sender"

\* Mutant: the author is left out.
AudienceOfOthers(t) ==
  /\ Step(t, "audience", "notify")
  /\ todo' = [todo EXCEPT ![t] = members \ {author[About(t)]}]
  /\ UNCHANGED <<directory, username, tables, job, target, page, clients,
                 history>>

\* The members as they are now, not those the message was forwarded to.
Audience(t) ==
  /\ Step(t, "audience", "notify")
  /\ todo' = [todo EXCEPT ![t] = members]
  /\ UNCHANGED <<directory, username, tables, job, target, page, clients,
                 history>>

Notify(t) ==
  /\ pc[t] = "notify"
  /\ target[t] # NoSession
  /\ LET s == target[t]
         m == About(t) IN
       IF s \in open
         THEN /\ items' = [items EXCEPT ![s][m] = Struck(s, m)]
              /\ noticed' = [noticed EXCEPT ![s] = @ \union {<<m, By(t)>>}]
         ELSE UNCHANGED <<items, noticed>>
  /\ target' = [target EXCEPT ![t] = NoSession]
  /\ UNCHANGED <<directory, username, tables, pc, job, todo, page, warned,
                 history>>

\* The members not yet looked up are not told.
NotifyRaises(t) ==
  /\ Step(t, "notify", IF t \in Message THEN "done" ELSE "idle")
  /\ target[t] \in open
  /\ cut' = cut \union {<<About(t), "notice">>}
  /\ job' = [s \in Session |-> IF s = t THEN NoMessage ELSE job[s]]
  /\ todo' = [todo EXCEPT ![t] = {}]
  /\ target' = [target EXCEPT ![t] = NoSession]
  /\ UNCHANGED <<directory, username, tables, page, clients, asked, moved,
                 lost>>

NotifyEnds(t) ==
  /\ Step(t, "notify", IF t \in Message THEN "done" ELSE "idle")
  /\ LoopDone(t)
  /\ job' = [s \in Session |-> IF s = t THEN NoMessage ELSE job[s]]
  /\ UNCHANGED <<directory, username, tables, todo, target, page, clients,
                 history>>

-----------------------------------------------------------------------------
(* history_request, join_group and leave_group.                             *)

HistoryCheck(s) ==
  /\ Step(s, "idle", "history")
  /\ username[s] \in members
  /\ Ask
  /\ UNCHANGED <<directory, username, tables, job, todo, target, page,
                 clients, moved, lost, cut>>

\* _message_row blanks the rows that are recalled.
HistoryRead(s) ==
  /\ Step(s, "history", "reply")
  /\ page' = [page EXCEPT ![s] =
       [m \in Message |-> IF author[m] = NoUser THEN "absent"
                          ELSE IF recalled[m] = "nobody" THEN "shown"
                          ELSE "recalled"]]
  /\ UNCHANGED <<directory, username, tables, job, todo, target, clients,
                 history>>

HistoryReply(s) ==
  /\ Step(s, "reply", "idle")
  /\ items' = IF s \in open
                THEN [items EXCEPT ![s] = [m \in Message |-> Loaded(s, m)]]
                ELSE items
  /\ page' = [page EXCEPT ![s] = NoRows]
  /\ UNCHANGED <<directory, username, tables, job, todo, target, noticed,
                 warned, history>>

\* A page may be larger than a frame can be.
HistoryRaises(s) ==
  /\ Step(s, "reply", "idle")
  /\ s \in open
  /\ page' = [page EXCEPT ![s] = NoRows]
  /\ UNCHANGED <<directory, username, tables, job, todo, target, clients,
                 history>>

\* One database transaction each; the notices to the other members concern
\* nothing this module keeps.
Move(s) ==
  /\ pc[s] = "idle"
  /\ ~private
  /\ username[s] # NoUser
  /\ members' = IF username[s] \in members THEN members \ {username[s]}
                                           ELSE members \union {username[s]}
  /\ left' = left \union (members \ members')
  /\ moved < MaxMoves
  /\ moved' = moved + 1
  /\ UNCHANGED <<directory, username, author, recalled, threads, clients,
                 asked, lost, cut>>

-----------------------------------------------------------------------------
Requests(s) ==
  \/ \E u \in User : Login(s, u)
  \/ \E m \in Message : SendCheck(s, m) \/ RecallCheck(s, m)
  \/ HistoryCheck(s)
  \/ Move(s)

Loops(t) ==
  \/ \E u \in User : Lookup(t, u)
  \/ Audience(t)
  \/ Notify(t)
  \/ NotifyRaises(t)
  \/ NotifyEnds(t)

Handler(s) ==
  \/ SaveMessage(s)
  \/ Forward(s)
  \/ ForwardRaises(s)
  \/ ForwardEnds(s)
  \/ Submit(s)
  \/ RecallMessage(s)
  \/ HistoryRead(s)
  \/ HistoryReply(s)
  \/ HistoryRaises(s)
  \/ Loops(s)

Review(m) ==
  \/ ReviewStarts(m)
  \/ ReviewAllows(m)
  \/ ReviewRejects(m)
  \/ Warn(m)
  \/ WarnRaises(m)
  \/ Strike(m)
  \/ Loops(m)

ChatNext ==
  \/ Departure
  \/ \E s \in Session : Requests(s) \/ Handler(s)
  \/ \E m \in Message : Review(m)

ChatSpec == ChatInit /\ [][ChatNext]_chatVars

\* Threads are scheduled; nobody has to send, log in or leave.
LiveChatSpec ==
  /\ ChatSpec
  /\ \A s \in Session : WF_chatVars(Handler(s))
  /\ \A m \in Message : WF_chatVars(Review(m))

-----------------------------------------------------------------------------
(* Properties.                                                              *)

\* No handler and no review is at work.
AtRest ==
  /\ \A s \in Session : pc[s] = "idle"
  /\ \A m \in Message : pc[m] \in {"unsent", "done"}

\* The connections a recall has to reach: those of the present members.
Reachable(s) == s \in open /\ \E u \in members : holder[u] = s

Visible(s, m) == \E i \in DOMAIN items[s][m] : items[s][m][i] = "shown"


\* Whoever was given the content of a message is sent the notice of its
\* recall, however reviews, recalls, history requests, moves and departures
\* overlap, unless an error in a send ended a broadcast of it; who left and
\* came back has missed the recalls in between.  A user logs in once:
\* the runs and the theorem have Reconnect = FALSE.
NoticeFollowsContent ==
  AtRest => \A s \in Session, m \in Message :
    /\ Reachable(s)
    /\ username[s] \notin left
    /\ recalled[m] # "nobody"
    /\ <<m, "notice">> \notin cut
    /\ Visible(s, m)
    => \E by \in {"sender", "server"} : <<m, by>> \in noticed[s]

\* docs/protocol.md "the server first warns the sender, then broadcasts the
\* recall": nobody hears of a forced recall before its author's connection,
\* if it still holds the name, was warned.  It holds while a user logs in once
\* (Reconnect = FALSE): a new connection of the author may come after the
\* look-up.
WarnedFirst ==
  \A s \in Session, m \in Message :
    <<m, "server">> \in noticed[s] /\ Reachable(s) /\ username[s] = author[m]
      => s \in warned[m]

\* README "every text message of a chat is reviewed asynchronously": whatever
\* its author's connection does meanwhile, a saved message gets a review that
\* ends, with a verdict or because the check raised, unless an error in
\* the send of a forward or of the echo ended the handler before the submit.
EveryMessageIsReviewed ==
  \A m \in Message :
    (author[m] # NoUser) ~> (pc[m] = "done" \/ <<m, "forward">> \in cut)

\* A rejected message is recalled, whoever is there to be warned, unless the
\* send of the warning itself raises.
RejectedIsRecalled ==
  \A m \in Message :
    (pc[m] = "warn") ~> (recalled[m] = "server" \/ <<m, "warning">> \in cut)
=============================================================================
