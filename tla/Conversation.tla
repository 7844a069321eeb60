----------------------------- MODULE Conversation -----------------------------
(***************************************************************************)
(* What the backend promises a group about its messages (README.md,        *)
(* docs/OPERACION_PRODUCCION.md), without requests, saves, crashes or      *)
(* retries: the messages are attended one after the other.  Each is        *)
(* written down at most once, what its command does happens before its     *)
(* answer and, unless the command is repeatable, at most once, the answer  *)
(* is given at most once, and a message that was written down and calls    *)
(* the agent is left behind only answered or as a dead letter.             *)
(* ChannelPipeline implements this specification.                          *)
(***************************************************************************)
EXTENDS Naturals, Sequences

CONSTANTS LastId,     \* messages 1 .. LastId are sent, in this order
          Texts,      \* records with the fields invokes and command
          Repeatable  \* commands that may be carried out again

VARIABLES
  text,           \* text[id]: the message
  conversation,   \* what the group and the agent said, in order
  effects,        \* what commands did, in order
  at,             \* the message attended
  dead            \* messages given up

vars == <<text, conversation, effects, at, dead>>

Id == 1 .. LastId

Says(kind, id) == [kind |-> kind, id |-> id]
Said(kind, id) == \E i \in DOMAIN conversation : conversation[i] = Says(kind, id)
TookEffect(id) == \E i \in DOMAIN effects : effects[i].id = id

Init ==
  /\ text \in [Id -> Texts]
  /\ conversation = <<>>
  /\ effects = <<>>
  /\ at = 1
  /\ dead = {}

\* The message is written down.
Write ==
  /\ at \in Id
  /\ ~Said("human", at)
  /\ conversation' = Append(conversation, Says("human", at))
  /\ UNCHANGED <<text, effects, at, dead>>

InCharge == at \in Id /\ Said("human", at) /\ text[at].invokes /\ ~Said("agent", at)

TakesEffect ==
  /\ text[at].command # "none"
  /\ TookEffect(at) => text[at].command \in Repeatable
  /\ effects' = Append(effects, [id |-> at, command |-> text[at].command])

Answers == conversation' = Append(conversation, Says("agent", at))

\* What was asked for is done.
Effect ==
  /\ InCharge
  /\ TakesEffect
  /\ UNCHANGED <<text, conversation, at, dead>>

Answer ==
  /\ InCharge
  /\ Answers
  /\ UNCHANGED <<text, effects, at, dead>>

\* A command whose answer is stored with what it does.
EffectAndAnswer ==
  /\ InCharge
  /\ TakesEffect
  /\ Answers
  /\ UNCHANGED <<text, at, dead>>

\* The next one.
Finish ==
  /\ at \in Id
  /\ Said("human", at) /\ text[at].invokes => Said("agent", at)
  /\ at' = at + 1
  /\ UNCHANGED <<text, conversation, effects, dead>>

GiveUp ==
  /\ at \in Id
  /\ at' = at + 1
  /\ dead' = dead \cup {at}
  /\ UNCHANGED <<text, conversation, effects>>

Next ==
  \/ Write \/ Effect \/ Answer \/ EffectAndAnswer
  \/ Finish \/ GiveUp

Spec == Init /\ [][Next]_vars
=============================================================================
