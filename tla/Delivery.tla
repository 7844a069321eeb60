------------------------------- MODULE Delivery -------------------------------
(***************************************************************************)
(* What the gateway promises about the messages WhatsApp notifies          *)
(* (docs/OPERACION_PRODUCCION.md), without sockets, timers, attempts or    *)
(* requests: a notified message waits behind the earlier ones of its       *)
(* group; when its turn comes the backend gets it once and the parts of    *)
(* its answer are sent; it stops waiting only settled or as a dead letter. *)
(* GatewayQueue implements this specification.                             *)
(***************************************************************************)
EXTENDS Naturals, Sequences, SequencesExt

CONSTANTS LastMessage, GroupOf, KindOf

VARIABLES
  arrived,    \* how many messages were notified
  waiting,    \* those waiting, in the order in which they will be taken
  dead,       \* those given up
  handled,    \* those the backend accepted, in order
  ignored,    \* those of groups that belong to nobody
  sent,       \* the parts of answers the groups got
  unsure      \* whether something may have been sent without knowing it

vars == <<arrived, waiting, dead, handled, ignored, sent, unsure>>

In(seq, e) == \E i \in DOMAIN seq : seq[i] = e

\* The message whose turn it is in its group.
Turn(m) ==
  \E i \in DOMAIN waiting :
    /\ waiting[i] = m
    /\ \A j \in 1 .. i - 1 : GroupOf[waiting[j]] # GroupOf[m]

Got(m, part) == In(sent, [id |-> m, part |-> part])

Settled(m) ==
  /\ KindOf[m] = "talk" => In(handled, m) \/ m \in ignored
  /\ KindOf[m] \in {"ask", "decide"} => Got(m, "reply") \/ Got(m, "unlinked")
  /\ KindOf[m] = "decide" => Got(m, "document") \/ Got(m, "unlinked")
  /\ KindOf[m] = "link" => Got(m, "linked") \/ Got(m, "refused")

Init ==
  /\ arrived = 0
  /\ waiting = <<>> /\ dead = {}
  /\ handled = <<>> /\ ignored = {}
  /\ sent = <<>> /\ unsure = FALSE

Enters(m) ==
  /\ ~In(waiting, m)
  /\ \/ waiting' = Append(waiting, m) /\ UNCHANGED dead
     \/ dead' = dead \cup {m} /\ UNCHANGED waiting

Notify ==
  /\ arrived < LastMessage
  /\ arrived' = arrived + 1
  /\ Enters(arrived + 1)
  /\ unsure => unsure'
  /\ UNCHANGED <<handled, ignored, sent>>

\* Only a dead letter, or what may have been forgotten, is taken again.
NotifyAgain ==
  /\ \E m \in 1 .. arrived : (m \in dead \/ unsure) /\ Enters(m)
  /\ UNCHANGED <<arrived, handled, ignored, sent, unsure>>

Stays(m) == UNCHANGED <<waiting, dead>>
Removed(m) == \E i \in DOMAIN waiting : waiting[i] = m /\ waiting' = RemoveAt(waiting, i)
Leaves(m) == Settled(m)' /\ Removed(m) /\ UNCHANGED dead
Dies(m) == dead' = dead \cup {m} /\ (Removed(m) \/ UNCHANGED waiting)

\* What can happen to a message in its turn, before it stays, leaves or dies.
Handle(m) == ~In(handled, m) /\ handled' = Append(handled, m) /\ UNCHANGED <<ignored, sent>>
Ignore(m) == ignored' = ignored \cup {m} /\ UNCHANGED <<handled, sent>>
Send(m) ==
  /\ \E part \in {"reply", "document", "linked", "refused", "unlinked"} :
       /\ ~Got(m, part) \/ m \in dead \/ unsure'
       /\ sent' = Append(sent, [id |-> m, part |-> part])
  /\ UNCHANGED <<handled, ignored>>

Attend ==
  /\ \E m \in 1 .. arrived :
       /\ Turn(m)
       /\ Handle(m) \/ Ignore(m) \/ Send(m) \/ UNCHANGED <<handled, ignored, sent>>
       /\ Stays(m) \/ Leaves(m) \/ Dies(m)
  /\ unsure => unsure'
  /\ UNCHANGED arrived

\* The gateway forgets what it did.
Forget ==
  /\ unsure' = TRUE
  /\ UNCHANGED <<arrived, waiting, dead, handled, ignored, sent>>

Next == Notify \/ NotifyAgain \/ Attend \/ Forget

Spec == Init /\ [][Next]_vars
=============================================================================
