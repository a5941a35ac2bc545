---------------------------- MODULE FileDelivery ----------------------------
(***************************************************************************)
(* What an uploaded file promises the people it was sent to, free of how   *)
(* the server goes about it: it becomes available once and keeps its       *)
(* content for good, or it is refused for good; a content its sender       *)
(* vouched for is the whole file; and nobody is told of a file that is not *)
(* available.                                                              *)
(***************************************************************************)
CONSTANTS
  Whole,   \* the file as its sender has it
  Nothing  \* no content

VARIABLES
  outcome,   \* the transfer's fate
  content,   \* what a download returns
  announced, \* the recipients were sent the link
  vouched    \* the sender's digest of the file was compared

vars == <<outcome, content, announced, vouched>>

Init ==
  /\ outcome = "open"
  /\ content = Nothing
  /\ announced = FALSE
  /\ vouched = FALSE

Vouch ==
  /\ outcome = "open"
  /\ vouched' \in BOOLEAN
  /\ UNCHANGED <<outcome, content, announced>>

Publish ==
  /\ outcome = "open"
  /\ outcome' = "available"
  /\ content' # Nothing
  /\ vouched => content' = Whole
  /\ UNCHANGED <<announced, vouched>>

Refuse ==
  /\ outcome = "open"
  /\ outcome' = "refused"
  /\ UNCHANGED <<content, announced, vouched>>

Announce ==
  /\ outcome = "available"
  /\ announced' = TRUE
  /\ UNCHANGED <<outcome, content, vouched>>

Next == Vouch \/ Publish \/ Refuse \/ Announce

DeliverySpec == Init /\ [][Next]_vars
=============================================================================
