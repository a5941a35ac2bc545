--------------------------- MODULE MessageChannel ---------------------------
(***************************************************************************)
(* What one direction of a framed connection promises, without bytes: the  *)
(* messages written are handled in the order of the writes, each at most   *)
(* once, and none is passed over for a later one - unless an unreadable    *)
(* one was written before that, or a handler of the receiver has raised.   *)
(***************************************************************************)
EXTENDS Naturals, Sequences

CONSTANT Message  \* records; good tells whether the receiver can read it

VARIABLES
  sent,    \* what was written
  got,     \* the messages handled, by their place in sent
  excused  \* a handler has raised

vars == <<sent, got, excused>>

\* The place of the last message of a sequence of places, 0 if there is none.
Latest(places) == IF places = <<>> THEN 0 ELSE places[Len(places)]

\* Some message up to the n-th cannot be read.
Unreadable(n) == \E j \in 1..n : ~sent[j].good

Init == sent = <<>> /\ got = <<>> /\ excused = FALSE

Send ==
  /\ \E message \in Message : sent' = Append(sent, message)
  /\ UNCHANGED <<got, excused>>

\* The i-th message is handled; its handler may raise.
Deliver(i) ==
  /\ Latest(got) < i
  /\ sent[i].good
  /\ i = Latest(got) + 1 \/ excused \/ Unreadable(i)
  /\ got' = Append(got, i)
  /\ excused' \in {excused, TRUE}
  /\ UNCHANGED sent

Next == Send \/ \E i \in 1..Len(sent) : Deliver(i)

ChannelSpec == Init /\ [][Next]_vars
=============================================================================
