---------------------------- MODULE GatewayQueue ----------------------------
(***************************************************************************)
(* The WhatsApp gateway (gateway/src): group messages are written to a     *)
(* persistent queue, and one drain loop at a time takes them to the        *)
(* backend and brings the answers to the group.  JavaScript runs to the    *)
(* next await: an action is what happens between two awaits.  The loop     *)
(* keeps the socket it was started with, while sockets are closed and      *)
(* replaced under it; the process may be killed at any await.              *)
(*                                                                         *)
(* Time is abstract: an item whose retry delay has not passed is not ready. *)
(* The backend and WhatsApp are external: the backend accepts a message    *)
(* once, in the order of its requests, and links a group once.             *)
(***************************************************************************)
EXTENDS Integers, Sequences, FiniteSets, SequencesExt

CONSTANTS LastMessage,      \* messages 1 .. LastMessage arrive in this order
          GroupOf,          \* GroupOf[m]: the group m is written in
          KindOf,           \* KindOf[m]: what m is
          InitialLinks,     \* sets of groups that may be linked from the start
          QueueLimit,       \* MAX_PENDING_MESSAGES
          MaxAttempts,      \* MAX_PENDING_ATTEMPTS
          RecentLimit,      \* RECENT_MESSAGE_LIMIT
          FaultKinds,       \* faults explored, MaxFaults of them in a behaviour
          MaxFaults

Message == 1 .. LastMessage

\* talk: no invocation; ask: answered with a reply; decide: with a reply and a
\* document; link: "vincular CODE".
Kind == {"talk", "ask", "decide", "link"}

ASSUME GatewayAssumption ==
  /\ {LastMessage, QueueLimit, MaxAttempts, RecentLimit} \subseteq Nat \ {0}
  /\ Message \subseteq DOMAIN GroupOf
  /\ KindOf \in [Message -> Kind]
  /\ FaultKinds \subseteq {"disconnect", "logout", "crash", "repeat", "uncertain"}
  /\ MaxFaults \in Nat

VARIABLES
  arrived,    \* how many messages WhatsApp has notified
  items,      \* pending-messages.json
  dead,       \* pending-messages.dead-letter.json
  recent,     \* recentMessageIds, oldest first
  state,      \* connectionState
  sock,       \* currentSock: its number, 0 for null
  sockets,    \* sockets made so far
  drain,      \* the drain loop: its socket, its item, what it awaits
  timer,      \* pendingDrainTimer: the socket it is for, 0 for null
  handled,    \* backend: messages accepted, in order
  linked,     \* backend: groups linked
  sent,       \* WhatsApp: what the groups got
  ignored,    \* history: messages dropped because their group was not linked
  faults      \* history: the kinds of faults so far, and how many

queue == <<items, dead, recent>>
socket == <<state, sock, sockets>>
backend == <<handled, linked>>
outside == <<sent, ignored>>
vars == <<arrived, queue, socket, drain, timer, backend, outside, faults>>

Item == [id : Message, attempts : 0 .. MaxAttempts - 1, ready : BOOLEAN,
         primarySent : BOOLEAN, documentSent : BOOLEAN]
Part == {"reply", "document", "linked", "refused", "unlinked"}
Idle == [sock |-> 0, id |-> 0, step |-> "idle"]

Fault(kind) ==
  /\ kind \in FaultKinds
  /\ faults.total < MaxFaults
  /\ faults' = [kinds |-> faults.kinds \cup {kind}, total |-> faults.total + 1]

TypeOK ==
  /\ arrived \in 0 .. LastMessage
  /\ items \in Seq(Item) /\ Len(items) <= QueueLimit
  /\ \A i, j \in DOMAIN items : items[i].id = items[j].id => i = j
  /\ dead \subseteq Message
  /\ recent \in Seq(Message) /\ Len(recent) <= RecentLimit
  /\ state \in {"connecting", "connected", "reconnecting", "logged_out"}
  /\ sock \in {0, sockets}
  /\ drain.step \in {"idle", "call"} \cup Part
  /\ drain.step # "idle" => \E i \in DOMAIN items : items[i].id = drain.id
  /\ timer \in 0 .. sockets
  /\ sent \in Seq([id : Message, part : Part])

Init ==
  /\ arrived = 0
  /\ items = <<>> /\ dead = {} /\ recent = <<>>
  /\ state = "connecting" /\ sock = 1 /\ sockets = 1
  /\ drain = Idle /\ timer = 0
  /\ handled = <<>> /\ linked \in InitialLinks
  /\ sent = <<>> /\ ignored = {}
  /\ faults = [kinds |-> {}, total |-> 0]

-----------------------------------------------------------------------------
(* The queue: PersistentQueue *)

IndexOf(id) == CHOOSE i \in DOMAIN items : items[i].id = id
Queued(id) == \E i \in DOMAIN items : items[i].id = id

NewItem(id) == [id |-> id, attempts |-> 0, ready |-> TRUE,
                primarySent |-> FALSE, documentSent |-> FALSE]

Without(id) == RemoveAt(items, IndexOf(id))

\* groupHeads: the first item of every group.
Heads(q) ==
  {i \in DOMAIN q : \A j \in DOMAIN q :
     j < i => GroupOf[q[j].id] # GroupOf[q[i].id]}

ReadyHeads(q) == {i \in Heads(q) : q[i].ready}

\* nextReady
NextReady(q) == q[CHOOSE i \in ReadyHeads(q) : \A j \in ReadyHeads(q) : i <= j].id

\* rememberMessage
Remembered(id) ==
  IF id \in ToSet(recent) THEN recent
  ELSE LET all == Append(recent, id)
       IN  IF Len(all) > RecentLimit THEN Tail(all) ELSE all

-----------------------------------------------------------------------------
(* The drain loop *)

\* Mutant: nobody is left to wake the loop up.
DrainedUnscheduled(s, q, t) ==
  IF ReadyHeads(q) # {}
  THEN drain' = [sock |-> s, id |-> NextReady(q), step |-> "call"] /\ timer' = t
  ELSE drain' = Idle /\ timer' = t

\* While the socket of the loop is in use: the next item, or the finally block
\* with its schedulePendingDrain; t is the timer at that moment.
Drained(s, q, t) ==
  IF ReadyHeads(q) # {}
  THEN drain' = [sock |-> s, id |-> NextReady(q), step |-> "call"] /\ timer' = t
  ELSE drain' = Idle /\ timer' = IF q # <<>> /\ t = 0 THEN s ELSE t

\* The head of the while loop: a loop whose socket was replaced ends, and its
\* finally block schedules nothing.
Loop(s, q, t) ==
  IF s = sock /\ state = "connected"
  THEN Drained(s, q, t)
  ELSE drain' = Idle /\ timer' = t

\* drainPendingMessages(sock) for the current socket once it is connected.
TryDrain(q) ==
  IF drain.step = "idle" THEN Loop(sock, q, 0) ELSE UNCHANGED <<drain, timer>>

\* The item of the loop is done with.
Done ==
  /\ items' = Without(drain.id)
  /\ recent' = Remembered(drain.id)
  /\ UNCHANGED dead
  /\ Loop(drain.sock, Without(drain.id), timer)

\* moveToDeadLetter
GiveUp ==
  /\ items' = Without(drain.id)
  /\ dead' = dead \cup {drain.id}
  /\ UNCHANGED recent
  /\ Loop(drain.sock, Without(drain.id), timer)

\* markFailed
Again(item) == [item EXCEPT !.attempts = @ + 1, !.ready = FALSE]
MarkedFailed == [items EXCEPT ![IndexOf(drain.id)] = Again(@)]

\* Mutant: the attempt that just failed is not counted.
FailedOnceMore ==
  IF items[IndexOf(drain.id)].attempts >= MaxAttempts
  THEN GiveUp
  ELSE /\ items' = MarkedFailed
       /\ UNCHANGED <<dead, recent>>
       /\ Loop(drain.sock, MarkedFailed, timer)

\* The catch of the drain loop.
Failed ==
  IF items[IndexOf(drain.id)].attempts + 1 >= MaxAttempts
  THEN GiveUp
  ELSE /\ items' = MarkedFailed
       /\ UNCHANGED <<dead, recent>>
       /\ Loop(drain.sock, MarkedFailed, timer)

Await(step) ==
  /\ drain' = [drain EXCEPT !.step = step]
  /\ UNCHANGED <<queue, timer>>

Current == items[IndexOf(drain.id)]
Calling(kinds) == drain.step = "call" /\ KindOf[drain.id] \in kinds
Group == GroupOf[drain.id]
Live == drain.sock = sock /\ state = "connected"

\* sendAgentReply, or its beginning: what is left to send of the answer.
Deliver(id) ==
  IF KindOf[id] = "talk" THEN Done
  ELSE IF ~Live THEN Failed
  ELSE IF ~Current.primarySent THEN Await("reply")
  ELSE IF KindOf[id] = "decide" /\ ~Current.documentSent THEN Await("document")
  ELSE Done

\* sendPlainReply
PlainReply(part) == IF Current.primarySent THEN Done ELSE Await(part)

Accepts(id) == handled' = IF id \in ToSet(handled) THEN handled ELSE Append(handled, id)

\* What a request does in the backend, whether or not its answer arrives.
Requested ==
  \/ Calling({"link"}) /\ linked' = linked \cup {Group} /\ UNCHANGED handled
  \/ /\ Calling({"talk", "ask", "decide"})
     /\ Group \in linked
     /\ Accepts(drain.id)
     /\ UNCHANGED linked

\* The session of the group is known, and the backend answers.
CallAnswered ==
  /\ Calling({"talk", "ask", "decide"})
  /\ Group \in linked
  /\ Accepts(drain.id)
  /\ Deliver(drain.id)
  /\ UNCHANGED <<arrived, socket, linked, outside, faults>>

\* sessionForGroup answers 404: the group belongs to nobody.
CallUnlinked ==
  /\ Calling({"talk", "ask", "decide"})
  /\ Group \notin linked
  /\ IF KindOf[drain.id] = "talk"
     THEN ignored' = ignored \cup {drain.id} /\ Done
     ELSE UNCHANGED ignored /\ PlainReply("unlinked")
  /\ UNCHANGED <<arrived, socket, backend, sent, faults>>

\* linkPendingGroup: a code can be used once.
CallLinks ==
  /\ Calling({"link"})
  /\ IF Group \notin linked
     THEN linked' = linked \cup {Group} /\ PlainReply("linked")
     ELSE UNCHANGED linked /\ PlainReply("refused")
  /\ UNCHANGED <<arrived, socket, handled, outside, faults>>

\* A timeout or a 5xx, before or after the backend did its part.
CallFails ==
  /\ drain.step = "call"
  /\ \/ UNCHANGED backend
     \/ Requested
  /\ Failed
  /\ UNCHANGED <<arrived, socket, outside, faults>>

\* A 4xx that no retry can change.
CallRefused ==
  /\ drain.step = "call"
  /\ GiveUp
  /\ UNCHANGED <<arrived, socket, backend, outside, faults>>

Sending == drain.step \in Part
Further(item) ==
  IF drain.step = "document" THEN [item EXCEPT !.documentSent = TRUE]
  ELSE [item EXCEPT !.primarySent = TRUE]
Progress == [items EXCEPT ![IndexOf(drain.id)] = Further(@)]
Post == sent' = Append(sent, [id |-> drain.id, part |-> drain.step])

\* The promise of sendMessage resolves: markProgress, then the next part.
SendSucceeds ==
  /\ Sending
  /\ Live
  /\ Post
  /\ IF drain.step = "reply" /\ KindOf[drain.id] = "decide" /\ ~Current.documentSent
     THEN /\ items' = Progress
          /\ drain' = [drain EXCEPT !.step = "document"]
          /\ UNCHANGED <<dead, recent, timer>>
     ELSE Done
  /\ UNCHANGED <<arrived, socket, backend, ignored, faults>>

SendFails ==
  /\ Sending
  /\ Failed
  /\ UNCHANGED <<arrived, socket, backend, outside, faults>>

\* The group got it, but the socket broke before the confirmation.
SendUncertain ==
  /\ Sending
  /\ Fault("uncertain")
  /\ Post
  /\ Failed
  /\ UNCHANGED <<arrived, socket, backend, ignored>>

-----------------------------------------------------------------------------
(* Events *)

\* Mutant: a message that does not fit is forgotten.
AcceptedDropping(m) ==
  /\ UNCHANGED <<dead, recent>>
  /\ IF m \in ToSet(recent) \/ Queued(m) \/ Len(items) >= QueueLimit
     THEN UNCHANGED items
     ELSE items' = Append(items, NewItem(m))

\* The body of handleMessages for one message.
Accepted(m) ==
  /\ UNCHANGED recent
  /\ IF m \in ToSet(recent) \/ Queued(m)
     THEN UNCHANGED <<items, dead>>
     ELSE IF Len(items) >= QueueLimit
     THEN UNCHANGED items /\ dead' = dead \cup {m}
     ELSE items' = Append(items, NewItem(m)) /\ UNCHANGED dead

Receive(m) ==
  /\ state = "connected"
  /\ Accepted(m)
  /\ TryDrain(items')
  /\ UNCHANGED <<socket, backend, outside>>

ReceiveNew ==
  /\ arrived < LastMessage
  /\ arrived' = arrived + 1
  /\ Receive(arrived + 1)
  /\ UNCHANGED faults

\* WhatsApp notifies a message again.
ReceiveRepeated ==
  /\ Fault("repeat")
  /\ \E m \in 1 .. arrived : Receive(m)
  /\ UNCHANGED arrived

\* The delay of a retry passes.
TimePasses ==
  /\ \E i \in DOMAIN items :
       ~items[i].ready /\ items' = [items EXCEPT ![i].ready = TRUE]
  /\ UNCHANGED <<arrived, dead, recent, socket, drain, timer, backend, outside, faults>>

\* schedulePendingDrain's callback: a timer of a replaced socket does nothing.
TimerFires ==
  /\ timer # 0
  /\ ReadyHeads(items) # {}
  /\ IF timer = sock /\ state = "connected" /\ drain.step = "idle"
     THEN Loop(sock, items, 0)
     ELSE timer' = 0 /\ UNCHANGED drain
  /\ UNCHANGED <<arrived, queue, socket, backend, outside, faults>>

\* connection "close" of the current socket.
Disconnect ==
  /\ sock # 0
  /\ Fault("disconnect")
  /\ sock' = 0
  /\ state' = "reconnecting"
  /\ UNCHANGED <<arrived, queue, sockets, drain, timer, backend, outside>>

\* connection "close" because the phone was unlinked: nothing reconnects.
LoggedOut ==
  /\ sock # 0
  /\ Fault("logout")
  /\ sock' = 0
  /\ state' = "logged_out"
  /\ UNCHANGED <<arrived, queue, sockets, drain, timer, backend, outside>>

\* start(), after the reconnection delay.
Reconnect ==
  /\ state = "reconnecting"
  /\ sock' = sockets + 1
  /\ sockets' = sockets + 1
  /\ state' = "connecting"
  /\ UNCHANGED <<arrived, queue, drain, timer, backend, outside, faults>>

\* connection "open": drainPendingMessages, unless a loop is still running.
Open ==
  /\ state = "connecting"
  /\ state' = "connected"
  /\ IF drain.step = "idle"
     THEN Drained(sock, items, 0)
     ELSE UNCHANGED <<drain, timer>>
  /\ UNCHANGED <<arrived, queue, sock, sockets, backend, outside, faults>>

\* The process is killed and started again: what was awaited may have happened,
\* and a dead letter may be written without being taken off the queue.
Crash ==
  /\ Fault("crash")
  /\ recent' = <<>>
  /\ state' = "connecting"
  /\ sock' = sockets + 1
  /\ sockets' = sockets + 1
  /\ drain' = Idle
  /\ timer' = 0
  /\ \/ UNCHANGED <<dead, backend, sent>>
     \/ Requested /\ UNCHANGED <<dead, sent>>
     \/ Sending /\ Post /\ UNCHANGED <<dead, backend>>
     \/ drain.step # "idle" /\ dead' = dead \cup {drain.id} /\ UNCHANGED <<backend, sent>>
  /\ UNCHANGED <<arrived, items, ignored>>

Awaited ==
  \/ CallAnswered \/ CallUnlinked \/ CallLinks \/ CallFails \/ CallRefused
  \/ SendSucceeds \/ SendFails \/ SendUncertain

Next ==
  \/ Awaited
  \/ ReceiveNew \/ ReceiveRepeated
  \/ TimePasses \/ TimerFires
  \/ Disconnect \/ LoggedOut \/ Reconnect \/ Open \/ Crash

Spec == Init /\ [][Next]_vars

\* Promises settle, timers fire and sockets are reopened.
FairSpec ==
  /\ Spec
  /\ WF_vars(Awaited)
  /\ WF_vars(TimePasses)
  /\ WF_vars(TimerFires)
  /\ WF_vars(Reconnect)
  /\ WF_vars(Open)

-----------------------------------------------------------------------------
(* Properties *)

\* After a crash or an unconfirmed delivery, or once more messages arrived than
\* rememberMessage keeps.
Unsure == faults.kinds \cap {"crash", "uncertain"} # {} \/ arrived > RecentLimit

(* Whatever sockets, processes and requests are lost on the way: a cut "ya   *)
(* no pierde silenciosamente la solicitud" (OPERACION_PRODUCCION.md), a      *)
(* retry never lets a later message of the group overtake, and no part of    *)
(* an answer is sent twice while the process lives and WhatsApp confirms     *)
(* what it delivers.                                                         *)
Promised ==
  INSTANCE Delivery WITH waiting <- [i \in DOMAIN items |-> items[i].id],
                         unsure <- Unsure

DeliversInOrder == Promised!Spec

(* A group is told that its code is refused only if that message did not     *)
(* link it: "FastAPI reproduce el resultado ya guardado"                     *)
(* (OPERACION_PRODUCCION.md) instead of doing the work twice.                *)
RefusedMeansNotLinked ==
  \A m \in Message :
    [id |-> m, part |-> "refused"] \in ToSet(sent) =>
      \/ GroupOf[m] \in UNION InitialLinks
      \/ \E k \in Message : k # m /\ KindOf[k] = "link" /\ GroupOf[k] = GroupOf[m]

(* OPERACION_PRODUCCION.md: "Si FastAPI, Gemini o WhatsApp se cortan, el     *)
(* gateway reintenta con backoff".  Whatever is queued leaves the queue,     *)
(* without waiting for another message of the group.                         *)
QueueDrains == \A m \in Message : Queued(m) ~> ~Queued(m)
=============================================================================
