------------------------ MODULE ChannelPipeline_proofs ------------------------
(***************************************************************************)
(* The route of channel messages implements Conversation, for any number   *)
(* of messages, attempts, crashes and panel requests, and whatever the     *)
(* handlers make of the session: that part does not look into it.  The     *)
(* inductive invariant says what the stored log, the receipts and the      *)
(* running request know of each other between two saves.  Added to it, the *)
(* session stays coherent between any two saves, and a message is left     *)
(* unread only by a command that is answered in haste.                     *)
(***************************************************************************)
EXTENDS ChannelPipeline, SessionHandlers_proofs

Entries == [kind : {"human", "agent"}, id : Id]

Types ==
  /\ text \in [Id -> Texts]
  /\ log \in Seq(Entries)
  /\ carried \in Seq([id : Id, command : Command])
  /\ receipts \subseteq Id
  /\ job \in [id : 0 .. LastId, step : Step, command : Command]
  /\ head \in 1 .. LastId + 1

\* Nothing is stored of messages that were not delivered, and human messages
\* are stored in the order of their ids.
Ordered ==
  /\ \A i \in DOMAIN log : log[i].id <= head
  /\ \A i, j \in DOMAIN log :
       i < j /\ log[i].kind = "human" /\ log[j].kind = "human" => log[i].id < log[j].id

\* Every effect has a receipt, but that of a requirement.
Earned ==
  \A i \in DOMAIN carried :
    carried[i].id \in receipts \/ text[carried[i].id].command \in Requirements

\* Answers and receipts are of stored messages; a receipt is of a call.
Booked ==
  /\ \A id \in Id : Replied(id) => Stored(id)
  /\ \A id \in receipts : Stored(id) /\ text[id].invokes
  /\ Earned

\* The request in progress serves the head of the queue, which is a stored
\* call that nobody answered yet.
Working == {"command", "extract", "execute", "calculate", "confirm", "reply"}

Serving ==
  job.step # "idle" =>
    /\ job.id = head
    /\ head \in Id
    /\ job.step \in Working =>
         /\ Stored(head)
         /\ text[head].invokes
         /\ ~Replied(head)
         /\ job.command # "none" => job.command = text[head].command
    /\ job.step \in Working \ {"reply"} => head \notin receipts
    /\ job.step \in {"execute", "confirm"} => job.command # "none"
    /\ job.step = "respond" /\ Stored(head) /\ text[head].invokes => Replied(head)

IInv == Types /\ Ordered /\ Booked /\ Serving

\* What the abstract specification sees.
seen == <<text, log, carried, head, dead>>

-----------------------------------------------------------------------------
(* The log *)

LEMMA LogEntry ==
  ASSUME NEW id \in Id
  PROVE  /\ Human(id) \in Entries /\ Human(id).kind = "human" /\ Human(id).id = id
         /\ Agent(id) \in Entries /\ Agent(id).kind = "agent" /\ Agent(id).id = id
  BY DEF Human, Agent, Entries

LEMMA Appending ==
  ASSUME NEW S, NEW s \in Seq(S), NEW e \in S
  PROVE  /\ Append(s, e) \in Seq(S)
         /\ DOMAIN s = 1 .. Len(s)
         /\ DOMAIN Append(s, e) = 1 .. Len(s) + 1
         /\ Len(s) \in Nat
         /\ \A i \in 1 .. Len(s) : Append(s, e)[i] = s[i]
         /\ Append(s, e)[Len(s) + 1] = e
  OBVIOUS

\* A new entry is in the log, with the ones before it and no other.
LEMMA LogGrows ==
  ASSUME Types, NEW e \in Entries, log' = Append(log, e)
  PROVE  /\ log' \in Seq(Entries)
         /\ \A id : Stored(id)' <=> Stored(id) \/ e = Human(id)
         /\ \A id : Replied(id)' <=> Replied(id) \/ e = Agent(id)
  <1>1. /\ Append(log, e) \in Seq(Entries)
        /\ DOMAIN log = 1 .. Len(log)
        /\ DOMAIN Append(log, e) = 1 .. Len(log) + 1
        /\ Len(log) \in Nat
        /\ \A i \in 1 .. Len(log) : Append(log, e)[i] = log[i]
        /\ Append(log, e)[Len(log) + 1] = e
    <2>1. log \in Seq(Entries)
      BY DEF Types
    <2> QED BY <2>1, Appending
  <1>2. \A x : (\E i \in DOMAIN log' : log'[i] = x) <=> (\E i \in DOMAIN log : log[i] = x) \/ e = x
    BY <1>1
  <1>3. \A id : Stored(id)' <=> Stored(id) \/ e = Human(id)
    <2>1. \A id : (\E i \in DOMAIN log' : log'[i] = Human(id))
                    <=> (\E i \in DOMAIN log : log[i] = Human(id)) \/ e = Human(id)
      BY <1>2
    <2> QED BY <2>1 DEF Stored, Human
  <1>4. \A id : Replied(id)' <=> Replied(id) \/ e = Agent(id)
    <2>1. \A id : (\E i \in DOMAIN log' : log'[i] = Agent(id))
                    <=> (\E i \in DOMAIN log : log[i] = Agent(id)) \/ e = Agent(id)
      BY <1>2
    <2> QED BY <2>1 DEF Replied, Agent
  <1> QED BY <1>1, <1>3, <1>4

\* A new entry of the head, human only if the head was not stored, keeps the
\* order of the log.
LEMMA LogStaysOrdered ==
  ASSUME Types, Ordered, NEW e \in Entries, log' = Append(log, e), head' = head,
         e.id = head, e.kind = "human" => ~Stored(head)
  PROVE  Ordered'
  <1>1. /\ DOMAIN log = 1 .. Len(log)
        /\ DOMAIN Append(log, e) = 1 .. Len(log) + 1
        /\ Len(log) \in Nat
        /\ \A i \in 1 .. Len(log) : Append(log, e)[i] = log[i]
        /\ Append(log, e)[Len(log) + 1] = e
    <2>1. log \in Seq(Entries)
      BY DEF Types
    <2> QED BY <2>1, Appending
  <1>2. head \in Nat
    BY PipelineAssumption DEF Types
  <1>3. \A i \in DOMAIN log : log[i].id \in Nat
    <2>1. \A i \in DOMAIN log : log[i] \in Entries
      BY DEF Types
    <2> QED BY <2>1, PipelineAssumption DEF Entries, Id
  <1>4. \A i \in DOMAIN log : log[i].kind = "human" /\ e.kind = "human" => log[i].id < head
    <2> SUFFICES ASSUME NEW i \in DOMAIN log, log[i].kind = "human", e.kind = "human"
                 PROVE  log[i].id < head
      OBVIOUS
    <2>1. log[i] # Human(head)
      BY DEF Stored
    <2>2. log[i] \in Entries
      BY DEF Types
    <2>3. log[i].id # head
      BY <2>1, <2>2 DEF Human, Entries
    <2> QED BY <2>3, <1>2, <1>3 DEF Ordered
  <1>5. \A i \in DOMAIN log' : log'[i].id <= head'
    BY <1>1, <1>2 DEF Ordered
  <1>6. \A i, j \in DOMAIN log' :
          i < j /\ log'[i].kind = "human" /\ log'[j].kind = "human"
            => log'[i].id < log'[j].id
    <2> SUFFICES ASSUME NEW i \in DOMAIN log', NEW j \in DOMAIN log', i < j,
                        log'[i].kind = "human", log'[j].kind = "human"
                 PROVE  log'[i].id < log'[j].id
      OBVIOUS
    <2>1. i \in DOMAIN log /\ log'[i] = log[i]
      BY <1>1
    <2>2. CASE j \in DOMAIN log
      <3>1. log'[j] = log[j]
        BY <1>1, <2>2
      <3> QED BY <2>1, <2>2, <3>1 DEF Ordered
    <2>3. CASE j \notin DOMAIN log
      <3>1. log'[j] = e
        BY <1>1, <2>3
      <3> QED BY <2>1, <3>1, <1>4
    <2> QED BY <2>2, <2>3
  <1> QED BY <1>5, <1>6 DEF Ordered

\* The message whose command is carried out is the one being served.
LEMMA ServesTheHead ==
  ASSUME Types, Ordered, head \in Id, Stored(head), text[head].invokes
  PROVE  LastInvoking = head
  <1> DEFINE calls == {i \in DOMAIN log : log[i].kind = "human" /\ text[log[i].id].invokes}
  <1>1. PICK k \in DOMAIN log : log[k] = Human(head)
    BY DEF Stored
  <1>2. log[k].id = head /\ log[k].kind = "human" /\ k \in calls
    BY <1>1, LogEntry
  <1>3. DOMAIN log \subseteq Nat
    BY DEF Types
  <1>4. \A j \in calls : j <= k
    <2> SUFFICES ASSUME NEW j \in calls, ~(j <= k)
                 PROVE  FALSE
      OBVIOUS
    <2>1. k < j
      BY <1>3
    <2>2. log[k].id < log[j].id /\ log[j].id <= head
      BY <2>1, <1>2 DEF Ordered
    <2>3. log[j] \in Entries
      BY DEF Types
    <2>4. log[j].id \in Nat /\ head \in Nat
      BY <2>3, PipelineAssumption DEF Entries, Id
    <2> QED BY <2>2, <2>4, <1>2
  <1>5. \A i \in calls : (\A j \in calls : j <= i) => i = k
    BY <1>2, <1>3, <1>4
  <1>6. (CHOOSE i \in calls : \A j \in calls : j <= i) = k
    BY <1>2, <1>4, <1>5
  <1>7. LastInvoking = log[CHOOSE i \in calls : \A j \in calls : j <= i].id
    BY DEF LastInvoking
  <1> QED BY <1>2, <1>6, <1>7

\* A new effect is of the message being served.
LEMMA EffectGrows ==
  ASSUME Types, job.id = head, head \in Id, CarriedOut, Earned, UNCHANGED text,
         receipts \subseteq receipts',
         head \in receipts' \/ text[head].command \in Requirements
  PROVE  /\ carried' \in Seq([id : Id, command : Command])
         /\ Earned'
  <1> DEFINE e == [id |-> job.id, command |-> job.command]
  <1>1. e \in [id : Id, command : Command]
    BY DEF Types
  <1>2. carried \in Seq([id : Id, command : Command])
    BY DEF Types
  <1>3. carried' = Append(carried, e)
    BY DEF CarriedOut
  <1>4. e.id = head
    OBVIOUS
  <1> HIDE DEF e
  <1>5. /\ carried' \in Seq([id : Id, command : Command])
        /\ \A i \in DOMAIN carried' :
             \/ i \in DOMAIN carried /\ carried'[i] = carried[i]
             \/ carried'[i] = e
    BY <1>1, <1>2, <1>3, Appending
  <1> QED BY <1>4, <1>5 DEF Earned

-----------------------------------------------------------------------------
(* What steps of the same kind keep *)

\* The running request goes on with what is stored as it is.
LEMMA OnlyTheJob ==
  ASSUME IInv, UNCHANGED <<text, log, carried, receipts, head>>,
         job' \in [id : 0 .. LastId, step : Step, command : Command], Serving'
  PROVE  IInv'
  <1>1. Types'
    BY DEF IInv, Types
  <1>2. Ordered'
    BY DEF IInv, Ordered
  <1>3. Booked'
    BY DEF IInv, Booked, Earned, Stored, Replied
  <1> QED BY <1>1, <1>2, <1>3 DEF IInv

\* The request is over, and the queue may have moved.
LEMMA NoMoreJob ==
  ASSUME IInv, UNCHANGED <<text, log, carried, receipts>>,
         head \in Id, head' \in {head, head + 1}, job' = Idle
  PROVE  IInv'
  <1>1. head' \in 1 .. LastId + 1 /\ head \in Nat /\ head <= head'
    BY PipelineAssumption DEF Id
  <1>2. Types'
    BY <1>1, PipelineAssumption DEF IInv, Types, Idle, Step, Command
  <1>3. Ordered'
    <2>1. \A i \in DOMAIN log : log[i].id \in Nat
      <3>1. \A i \in DOMAIN log : log[i] \in Entries
        BY DEF IInv, Types
      <3> QED BY <3>1, PipelineAssumption DEF Entries, Id
    <2>2. \A i \in DOMAIN log' : log'[i].id <= head'
      BY <2>1, <1>1 DEF IInv, Ordered
    <2> QED BY <2>2 DEF IInv, Ordered
  <1>4. Booked'
    BY DEF IInv, Booked, Earned, Stored, Replied
  <1>5. Serving'
    BY DEF Serving, Idle
  <1> QED BY <1>2, <1>3, <1>4, <1>5 DEF IInv

\* An answer is stored, and the request only has to respond.
LEMMA AnswerStored ==
  ASSUME IInv, UNCHANGED <<text, head>>, head \in Id, Stored(head),
         log' = Append(log, Agent(head)),
         job' \in [id : 0 .. LastId, step : Step, command : Command],
         job'.id = head, job'.step = "respond",
         \/ UNCHANGED <<carried, receipts>>
         \/ Receipt /\ job.id = head /\ text[head].invokes
  PROVE  IInv'
  <1>1. Agent(head) \in Entries /\ Agent(head).kind = "agent" /\ Agent(head).id = head
    BY LogEntry
  <1>2. /\ log' \in Seq(Entries)
        /\ \A id : Stored(id)' <=> Stored(id) \/ Agent(head) = Human(id)
        /\ \A id : Replied(id)' <=> Replied(id) \/ Agent(head) = Agent(id)
    BY <1>1, LogGrows DEF IInv
  <1>3. Ordered'
    <2>1. Agent(head).kind # "human"
      BY <1>1
    <2> QED BY <1>1, <2>1, LogStaysOrdered DEF IInv
  <1>4. \A id : Agent(head) = Agent(id) => id = head
    BY DEF Agent
  <1>5. \A id : Agent(head) # Human(id)
    BY DEF Agent, Human
  <1>6. /\ carried' \in Seq([id : Id, command : Command])
        /\ receipts' \subseteq Id
        /\ Earned'
        /\ \A id \in receipts' : id \in receipts \/ (id = head /\ text[head].invokes)
    <2>1. CASE UNCHANGED <<carried, receipts>>
      BY <2>1 DEF IInv, Types, Booked, Earned
    <2>2. CASE Receipt /\ job.id = head /\ text[head].invokes
      <3>1. Types /\ Earned
        BY DEF IInv, Booked
      <3>2. CarriedOut /\ receipts' = receipts \cup {head}
        BY <2>2 DEF Receipt
      <3>3. carried' \in Seq([id : Id, command : Command]) /\ Earned'
        BY <2>2, <3>1, <3>2, EffectGrows
      <3> QED BY <2>2, <3>1, <3>2, <3>3 DEF Types
    <2> QED BY <2>1, <2>2
  <1>7. Types'
    BY <1>2, <1>6 DEF IInv, Types
  <1>8. Booked'
    <2>1. \A id \in Id : Replied(id)' => Stored(id)'
      BY <1>2, <1>4 DEF IInv, Booked
    <2>2. \A id \in receipts' : Stored(id)' /\ text'[id].invokes
      BY <1>2, <1>6 DEF IInv, Booked
    <2> QED BY <2>1, <2>2, <1>6 DEF Booked
  <1>9. Serving'
    <2>1. Replied(head)'
      BY <1>2
    <2> QED BY <2>1 DEF Serving, Working
  <1> QED BY <1>3, <1>7, <1>8, <1>9 DEF IInv

\* An effect may be saved before the answer, with its receipt or as a
\* requirement.
LEMMA EffectStored ==
  ASSUME IInv, UNCHANGED <<text, log, head>>, head \in Id,
         Stored(head), text[head].invokes, ~Replied(head),
         job.id = head, job' = [job EXCEPT !.step = "reply"],
         job.command # "none" => job.command = text[head].command,
         \/ UNCHANGED <<carried, receipts>>
         \/ Receipt
         \/ CarriedOut /\ UNCHANGED receipts /\ text[head].command \in Requirements
         \/ UNCHANGED carried /\ receipts' = receipts \cup {head}
  PROVE  IInv'
  <1>1. /\ carried' \in Seq([id : Id, command : Command])
        /\ Earned'
        /\ receipts \subseteq receipts' /\ receipts' \subseteq receipts \cup {head}
    <2>1. CASE /\ CarriedOut
               /\ \/ receipts' = receipts \cup {head}
                  \/ UNCHANGED receipts /\ text[head].command \in Requirements
      <3>1. Types /\ Earned
        BY DEF IInv, Booked
      <3>2. receipts \subseteq receipts' /\ receipts' \subseteq receipts \cup {head}
        BY <2>1
      <3>3. head \in receipts' \/ text[head].command \in Requirements
        BY <2>1
      <3>4. carried' \in Seq([id : Id, command : Command]) /\ Earned'
        BY <2>1, <3>1, <3>2, <3>3, EffectGrows
      <3> QED BY <3>2, <3>4
    <2>2. CASE UNCHANGED carried /\ receipts' \in {receipts, receipts \cup {head}}
      BY <2>2 DEF IInv, Types, Booked, Earned
    <2> QED BY <2>1, <2>2 DEF Receipt
  <1>2. /\ job' \in [id : 0 .. LastId, step : Step, command : Command]
        /\ job'.id = job.id /\ job'.command = job.command /\ job'.step = "reply"
    BY DEF IInv, Types, Step
  <1>3. Types'
    BY <1>1, <1>2 DEF IInv, Types
  <1>4. Ordered'
    BY DEF IInv, Ordered
  <1>5. Booked'
    BY <1>1 DEF IInv, Booked, Stored, Replied
  <1>6. Serving'
    <2>1. Stored(head)' /\ ~Replied(head)'
      BY DEF Stored, Replied
    <2> QED BY <1>2, <2>1 DEF Serving, Working
  <1> QED BY <1>3, <1>4, <1>5, <1>6 DEF IInv

-----------------------------------------------------------------------------
(* Every action keeps the invariant and is a step of Conversation *)

Implements == [Promised!Next]_Promised!vars

LEMMA Stutters ==
  ASSUME UNCHANGED seen
  PROVE  Implements
  BY DEF seen, Implements, Promised!vars

LEMMA JobGoes ==
  ASSUME Types, NEW step \in Step
  PROVE  LET next == [job EXCEPT !.step = step]
         IN  /\ next \in [id : 0 .. LastId, step : Step, command : Command]
             /\ next.id = job.id /\ next.command = job.command /\ next.step = step
  BY DEF Types

LEMMA JobStarts ==
  ASSUME NEW id \in Id, NEW step \in Step
  PROVE  LET next == [id |-> id, step |-> step, command |-> "none"]
         IN  next \in [id : 0 .. LastId, step : Step, command : Command]
  BY PipelineAssumption DEF Id, Command

LEMMA ReceiveNewStep ==
  ASSUME IInv, ReceiveNew
  PROVE  IInv' /\ Implements
  <1>1. /\ head \in Id /\ ~Stored(head)
        /\ UNCHANGED <<text, carried, receipts, head, dead>>
    BY DEF ReceiveNew, Served, queue, ghosts
  <1>2. CASE session.archived
    <2>1. UNCHANGED log /\ job' = [id |-> head, step |-> "respond", command |-> "none"]
      BY <1>2 DEF ReceiveNew, Start
    <2>2. job' \in [id : 0 .. LastId, step : Step, command : Command]
      BY <1>1, <2>1, JobStarts DEF Step
    <2>3. Serving'
      BY <1>1, <2>1 DEF Serving, Working, Stored
    <2>4. IInv'
      BY <1>1, <2>1, <2>2, <2>3, OnlyTheJob
    <2> QED BY <1>1, <2>1, <2>4, Stutters DEF seen
  <1>3. CASE ~session.archived
    <2>1. /\ log' = Append(log, Human(head))
          /\ job' = [id |-> head, command |-> "none",
                     step |-> IF text[head].invokes THEN "command" ELSE "respond"]
      BY <1>3 DEF ReceiveNew, Start
    <2>2. Human(head) \in Entries /\ Human(head).kind = "human" /\ Human(head).id = head
      BY <1>1, LogEntry
    <2>3. /\ log' \in Seq(Entries)
          /\ \A id : Stored(id)' <=> Stored(id) \/ Human(head) = Human(id)
          /\ \A id : Replied(id)' <=> Replied(id) \/ Human(head) = Agent(id)
      BY <2>1, <2>2, LogGrows DEF IInv
    <2>4. \A id : Human(head) # Agent(id)
      BY DEF Human, Agent
    <2>5. ~Replied(head) /\ head \notin receipts
      BY <1>1 DEF IInv, Booked
    <2>6. job' \in [id : 0 .. LastId, step : Step, command : Command]
      BY <1>1, <2>1, JobStarts DEF Step
    <2>7. Types'
      BY <1>1, <2>3, <2>6 DEF IInv, Types
    <2>8. Ordered'
      BY <1>1, <2>1, <2>2, LogStaysOrdered DEF IInv
    <2>9. Booked'
      <3>1. \A id : Stored(id) => Stored(id)'
        BY <2>3
      <3>2. \A id : Replied(id)' => Replied(id)
        BY <2>3, <2>4
      <3> QED BY <1>1, <3>1, <3>2 DEF IInv, Booked, Earned
    <2>10. Serving'
      <3>1. Stored(head)' /\ ~Replied(head)'
        BY <1>1, <2>3, <2>4, <2>5
      <3> QED BY <1>1, <2>1, <2>5, <3>1 DEF Serving, Working
    <2>11. Promised!Write
      <3>1. ~Promised!Said("human", head)
        BY <1>1 DEF Stored, Human, Promised!Said, Promised!Says
      <3> QED BY <1>1, <2>1, <3>1 DEF Promised!Write, Promised!Says, Promised!Id, Id, Human
    <2> QED BY <2>7, <2>8, <2>9, <2>10, <2>11 DEF IInv, Implements, Promised!Next
  <1> QED BY <1>2, <1>3

\* The answer of a stored call is an answer there.
LEMMA AnswersOnce ==
  ASSUME head \in Id, Stored(head), text[head].invokes, ~Replied(head),
         log' = Append(log, Agent(head)), UNCHANGED <<text, carried, head, dead>>
  PROVE  Promised!Answer
  <1>1. Promised!InCharge
    BY DEF Stored, Replied, Human, Agent, Promised!InCharge, Promised!Said,
           Promised!Says, Promised!Id, Id
  <1> QED BY <1>1 DEF Promised!Answer, Promised!Answers, Promised!Says, Agent

LEMMA ReceiveAgainStep ==
  ASSUME IInv, ReceiveAgain
  PROVE  IInv' /\ Implements
  <1>1. /\ head \in Id /\ Stored(head)
        /\ UNCHANGED <<text, carried, receipts, head, dead>>
    BY DEF ReceiveAgain, Served, queue, ghosts
  <1>2. CASE head \in receipts /\ ~Replied(head)
    <2>1. /\ log' = Append(log, Agent(head))
          /\ job' = [id |-> head, step |-> "respond", command |-> "none"]
      BY <1>2 DEF ReceiveAgain, Start
    <2>2. job' \in [id : 0 .. LastId, step : Step, command : Command]
      BY <1>1, <2>1, JobStarts DEF Step
    <2>3. job'.id = head /\ job'.step = "respond"
      BY <2>1
    <2>4. IInv'
      BY <1>1, <2>1, <2>2, <2>3, AnswerStored
    <2>5. text[head].invokes
      BY <1>2 DEF IInv, Booked
    <2> QED BY <1>1, <1>2, <2>1, <2>4, <2>5, AnswersOnce DEF Implements, Promised!Next
  <1>3. CASE ~(head \in receipts /\ ~Replied(head))
    <2>1. /\ UNCHANGED log
          /\ job' = [id |-> head, command |-> "none",
                     step |-> IF head \notin receipts /\ ~Replied(head)
                                 /\ text[head].invokes
                              THEN "command" ELSE "respond"]
      BY <1>3 DEF ReceiveAgain, Start
    <2>2. job' \in [id : 0 .. LastId, step : Step, command : Command]
      BY <1>1, <2>1, JobStarts DEF Step
    <2>3. Serving'
      <3>1. Stored(head)' /\ (Replied(head)' <=> Replied(head))
        BY <1>1, <2>1 DEF Stored, Replied
      <3> QED BY <1>1, <1>3, <2>1, <3>1 DEF Serving, Working
    <2>4. IInv'
      BY <1>1, <2>1, <2>2, <2>3, OnlyTheJob
    <2> QED BY <1>1, <2>1, <2>4, Stutters DEF seen
  <1> QED BY <1>2, <1>3

LEMMA ClassifyStep ==
  ASSUME IInv, Classify
  PROVE  IInv' /\ Implements
  <1>1. /\ job.step = "command" /\ job.command = "none"
        /\ UNCHANGED <<text, log, carried, receipts, head, dead>>
    BY DEF Classify, At, stored, queue, ghosts
  <1>2. /\ job.id = head /\ head \in Id /\ Stored(head) /\ text[head].invokes
        /\ ~Replied(head) /\ head \notin receipts
    BY <1>1 DEF IInv, Serving, Working
  <1>3. LastInvoking = head
    BY <1>2, ServesTheHead DEF IInv
  <1>4. text[head].command \in Command
    BY <1>2, PipelineAssumption DEF IInv, Types
  <1> DEFINE command == text[head].command
             step == After(command)
  <1>5. job' = [job EXCEPT !.command = command, !.step = step]
    BY <1>3 DEF Classify
  <1>6. step \in {"command", "reply", "extract"}
    BY DEF After
  <1> HIDE DEF step
  <1>7. /\ job' \in [id : 0 .. LastId, step : Step, command : Command]
        /\ job'.id = job.id /\ job'.step = step /\ job'.command = command
    BY <1>4, <1>5, <1>6 DEF IInv, Types, Step
  <1>8. Serving'
    <2>1. Stored(head)' /\ ~Replied(head)'
      BY <1>1, <1>2 DEF Stored, Replied
    <2> QED BY <1>1, <1>2, <1>6, <1>7, <2>1 DEF Serving, Working
  <1> QED BY <1>1, <1>7, <1>8, OnlyTheJob, Stutters DEF seen

\* Its effect is an effect there.
LEMMA TakesCharge ==
  ASSUME IInv, head \in Id, Stored(head), text[head].invokes, ~Replied(head)
  PROVE  /\ Promised!InCharge
         /\ head \notin receipts /\ Promised!TookEffect(head)
              => text[head].command \in Requirements
  BY DEF Stored, Replied, Human, Agent, Promised!InCharge, Promised!Said,
         Promised!Says, Promised!TookEffect, Promised!Id, Id, IInv, Booked, Earned

LEMMA EffectsOnce ==
  ASSUME IInv, job.step \in Working \ {"reply"}, job.command # "none", CarriedOut,
         UNCHANGED <<text, head, dead>>
  PROVE  Promised!InCharge /\ Promised!TakesEffect
  <1>1. /\ job.id = head /\ head \in Id /\ head \notin receipts
        /\ Stored(head) /\ text[head].invokes /\ ~Replied(head)
        /\ job.command = text[head].command
    BY DEF IInv, Serving, Working
  <1>2. /\ Promised!InCharge
        /\ Promised!TookEffect(head) => text[head].command \in Requirements
    BY <1>1, TakesCharge
  <1>3. carried' = Append(carried, [id |-> head, command |-> text[head].command])
    BY <1>1 DEF CarriedOut
  <1> QED BY <1>1, <1>2, <1>3 DEF Promised!TakesEffect

LEMMA ResetStep ==
  ASSUME IInv, ResetCommand
  PROVE  IInv' /\ Implements
  <1>1. /\ job.step = "command" /\ job.command = "reset" /\ Receipt
        /\ log' = Append(log, Agent(job.id))
        /\ job' = [job EXCEPT !.step = "respond"]
        /\ UNCHANGED <<text, head, dead>>
    BY DEF ResetCommand, At, Goto, queue
  <1>2. /\ job.id = head /\ head \in Id /\ Stored(head) /\ text[head].invokes
    BY <1>1 DEF IInv, Serving, Working
  <1>3. /\ job' \in [id : 0 .. LastId, step : Step, command : Command]
        /\ job'.id = head /\ job'.step = "respond"
    BY <1>1, <1>2, JobGoes DEF IInv, Step
  <1>4. IInv'
    BY <1>1, <1>2, <1>3, AnswerStored
  <1>5. Promised!InCharge /\ Promised!TakesEffect
    BY <1>1, EffectsOnce DEF Receipt, Working
  <1>6. Promised!EffectAndAnswer
    BY <1>1, <1>2, <1>5 DEF Promised!EffectAndAnswer, Promised!Answers, Promised!Says, Agent
  <1> QED BY <1>4, <1>6 DEF Implements, Promised!Next

\* A save that only changes the session, or nothing, between two steps.
LEMMA GoesOn ==
  ASSUME IInv, job.step \in Working \ {"reply"},
         NEW step \in {"reply", "calculate", "execute", "confirm"},
         job' = [job EXCEPT !.step = step],
         step \in {"execute", "confirm"} => job.command # "none",
         UNCHANGED <<text, log, carried, receipts, head, dead>>
  PROVE  IInv' /\ Implements
  <1>1. /\ job' \in [id : 0 .. LastId, step : Step, command : Command]
        /\ job'.id = job.id /\ job'.command = job.command /\ job'.step = step
    BY JobGoes DEF IInv, Step
  <1>2. Serving'
    <2>1. /\ job.id = head /\ head \in Id /\ head \notin receipts
          /\ Stored(head) /\ text[head].invokes /\ ~Replied(head)
          /\ job.command # "none" => job.command = text[head].command
      BY DEF IInv, Serving, Working
    <2>2. Stored(head)' /\ ~Replied(head)'
      BY <2>1 DEF Stored, Replied
    <2> QED BY <1>1, <2>1, <2>2 DEF Serving, Working
  <1> QED BY <1>1, <1>2, OnlyTheJob, Stutters DEF seen

LEMMA SessionSteps ==
  ASSUME IInv,
         \/ Extract \/ CalculateReply
         \/ HelpCommand \/ SummaryCommand \/ ConfirmCommand
  PROVE  IInv' /\ Implements
  <1>2. CASE Extract
    <2>1. /\ job.step = "extract"
          /\ job' = [job EXCEPT !.step = IF job.command = "none" THEN "calculate" ELSE "execute"]
          /\ UNCHANGED <<text, log, carried, receipts, head, dead>>
      BY <1>2 DEF Extract, At, Goto, queue
    <2> QED BY <2>1, GoesOn DEF Working
  <1>3. CASE CalculateReply
    BY <1>3, GoesOn DEF CalculateReply, At, Goto, queue, ghosts, Working
  <1>4. CASE HelpCommand
    BY <1>4, GoesOn DEF HelpCommand, At, Goto, stored, queue, ghosts, Working
  <1>5. CASE SummaryCommand
    BY <1>5, GoesOn DEF SummaryCommand, At, Goto, queue, ghosts, Working
  <1>6. CASE ConfirmCommand
    BY <1>6, GoesOn DEF ConfirmCommand, At, Goto, queue, ghosts, Working
  <1> QED BY <1>2, <1>3, <1>4, <1>5, <1>6

LEMMA EffectSteps ==
  ASSUME IInv, \/ CancelCommand \/ RemoveCommand \/ ConfirmFirst
               \/ RequireCommand
  PROVE  IInv' /\ Implements
  <1>1. /\ job.step \in {"execute", "confirm", "command"}
        /\ job.step = "command" => job.command # "none"
        /\ job' = [job EXCEPT !.step = "reply"]
        /\ UNCHANGED <<text, log, head, dead>>
    BY DEF CancelCommand, RemoveCommand, ConfirmFirst, RequireCommand, Requirements,
           At, Goto, queue
  <1>2. \/ UNCHANGED <<carried, receipts>>
        \/ Receipt
        \/ CarriedOut /\ UNCHANGED receipts /\ job.command \in Requirements
        \/ UNCHANGED carried /\ receipts' = receipts \cup {job.id}
    <2>1. CASE CancelCommand
      BY <2>1 DEF CancelCommand
    <2>2. CASE RemoveCommand
      BY <2>2 DEF RemoveCommand
    <2>3. CASE ConfirmFirst
      BY <2>3 DEF ConfirmFirst, Receipt, CarriedOut
    <2>4. CASE RequireCommand
      BY <2>4 DEF RequireCommand
    <2> QED BY <2>1, <2>2, <2>3, <2>4
  <1>3. /\ job.id = head /\ head \in Id /\ Stored(head) /\ text[head].invokes
        /\ ~Replied(head) /\ job.command # "none"
        /\ job.command = text[head].command
    BY <1>1 DEF IInv, Serving, Working
  <1>4. IInv'
    BY <1>1, <1>2, <1>3, EffectStored
  <1>5. CASE CarriedOut
    <2>1. Promised!InCharge /\ Promised!TakesEffect
      BY <1>1, <1>3, <1>5, EffectsOnce DEF IInv, Working
    <2> QED BY <1>1, <1>4, <2>1 DEF Promised!Effect, Implements, Promised!Next
  <1>6. CASE UNCHANGED carried
    BY <1>1, <1>4, <1>6, Stutters DEF seen
  <1> QED BY <1>2, <1>5, <1>6 DEF Receipt

LEMMA ReplyStep ==
  ASSUME IInv, Reply
  PROVE  IInv' /\ Implements
  <1>1. /\ job.step = "reply"
        /\ log' = Append(log, Agent(job.id))
        /\ job' = [job EXCEPT !.step = "respond"]
        /\ UNCHANGED <<text, carried, receipts, head, dead>>
    BY DEF Reply, At, Goto, queue, ghosts
  <1>2. /\ job.id = head /\ head \in Id /\ Stored(head) /\ text[head].invokes
        /\ ~Replied(head)
    BY <1>1 DEF IInv, Serving, Working
  <1>3. /\ job' \in [id : 0 .. LastId, step : Step, command : Command]
        /\ job'.id = head /\ job'.step = "respond"
    BY <1>1, <1>2, JobGoes DEF IInv, Step
  <1>4. IInv'
    BY <1>1, <1>2, <1>3, AnswerStored
  <1> QED BY <1>1, <1>2, <1>4, AnswersOnce DEF Implements, Promised!Next

LEMMA RespondStep ==
  ASSUME IInv, Respond
  PROVE  IInv' /\ Implements
  <1>1. /\ job.step = "respond" /\ job' = Idle /\ head' = head + 1
        /\ UNCHANGED <<text, log, carried, receipts, dead>>
    BY DEF Respond, At, Acknowledged, stored, ghosts
  <1>2. head \in Id /\ (Stored(head) /\ text[head].invokes => Replied(head))
    BY <1>1 DEF IInv, Serving
  <1>3. IInv'
    BY <1>1, <1>2, NoMoreJob
  <1>4. Promised!Finish
    BY <1>1, <1>2 DEF Promised!Finish, Promised!Id, Id, Stored, Replied, Human, Agent,
                      Promised!Said, Promised!Says
  <1> QED BY <1>3, <1>4 DEF Implements, Promised!Next

LEMMA FailingSteps ==
  ASSUME IInv, ExtractFails \/ ResponseLost \/ Crash
  PROVE  IInv' /\ Implements
  <1>1. /\ job.step # "idle" /\ job' = Idle /\ Failed
        /\ UNCHANGED <<text, log, carried, receipts>>
    BY DEF ExtractFails, ResponseLost, Crash, At, stored, ghosts
  <1>2. head \in Id
    BY <1>1 DEF IInv, Serving
  <1>3. \/ UNCHANGED <<head, dead>>
        \/ head' = head + 1 /\ dead' = dead \cup {head}
    BY <1>1 DEF Failed
  <1>4. IInv'
    BY <1>1, <1>2, <1>3, NoMoreJob
  <1>5. CASE UNCHANGED <<head, dead>>
    BY <1>1, <1>4, <1>5, Stutters DEF seen
  <1>6. CASE head' = head + 1 /\ dead' = dead \cup {head}
    <2>1. Promised!GiveUp
      BY <1>1, <1>2, <1>6 DEF Promised!GiveUp, Promised!Id, Id
    <2> QED BY <1>4, <2>1 DEF Implements, Promised!Next
  <1> QED BY <1>3, <1>5, <1>6

\* Steps that touch neither the log nor the queue nor the request.
LEMMA ElsewhereStep ==
  ASSUME IInv, UNCHANGED <<text, log, carried, receipts, job, head, dead>>
  PROVE  IInv' /\ Implements
  <1>1. job' \in [id : 0 .. LastId, step : Step, command : Command]
    BY DEF IInv, Types
  <1>2. Serving'
    BY DEF IInv, Serving, Stored, Replied
  <1> QED BY <1>1, <1>2, OnlyTheJob, Stutters DEF seen

LEMMA PanelSteps ==
  ASSUME IInv, \/ PanelConfirm \/ PanelCancel \/ PanelAddAvailability
               \/ PanelArchive \/ PanelReopen
  PROVE  IInv' /\ Implements
  <1>1. \E s : Panel(s)
    BY DEF PanelConfirm, PanelCancel, PanelAddAvailability, PanelArchive, PanelReopen
  <1>2. UNCHANGED <<text, log, carried, receipts, job, head, dead>>
    BY <1>1 DEF Panel, queue, ghosts
  <1> QED BY <1>2, ElsewhereStep

-----------------------------------------------------------------------------
LEMMA Begins ==
  ASSUME Init
  PROVE  IInv /\ Promised!Init
  <1>1. Types
    BY PipelineAssumption DEF Init, Types, Idle, Step, Command
  <1>2. Ordered /\ Booked
    BY DEF Init, Ordered, Booked, Earned, Replied
  <1>3. Serving
    BY DEF Init, Serving, Idle
  <1>4. Promised!Init
    BY DEF Init, Promised!Init, Promised!Id, Id
  <1> QED BY <1>1, <1>2, <1>3, <1>4 DEF IInv

LEMMA Steps ==
  ASSUME IInv, [Next]_vars
  PROVE  IInv' /\ Implements
  <1>1. CASE Deliver \/ Serve
    BY <1>1, ReceiveNewStep, ReceiveAgainStep, ClassifyStep, ResetStep, SessionSteps,
       EffectSteps, ReplyStep DEF Deliver, Serve
  <1>2. CASE Respond
    BY <1>2, RespondStep
  <1>3. CASE ExtractFails \/ ResponseLost \/ Crash
    BY <1>3, FailingSteps
  <1>4. CASE \/ PanelConfirm \/ PanelCancel \/ PanelAddAvailability
             \/ PanelArchive \/ PanelReopen
    BY <1>4, PanelSteps
  <1>5. CASE UNCHANGED vars
    BY <1>5, ElsewhereStep DEF vars, stored, queue, ghosts
  <1> QED BY <1>1, <1>2, <1>3, <1>4, <1>5 DEF Next

(* The route implements Conversation: whatever crashes, is lost or repeated  *)
(* between two saves of channel/messages (routes.py), a stored message is    *)
(* attended in its turn, its answer is stored at most once and after what    *)
(* its command does, and no stored call is left behind unanswered but the    *)
(* dead letters.  A command takes effect at most once, except a requirement  *)
(* (set_required, set_priority, clear_requirements): it leaves no receipt,   *)
(* and a retry may carry it out again as long as its reply is not stored.    *)
THEOREM Attends == Spec => AttendsInOrder
  <1>1. Init => IInv /\ Promised!Init
    BY Begins
  <1>2. IInv /\ [Next]_vars => IInv' /\ [Promised!Next]_Promised!vars
    BY Steps DEF Implements
  <1> QED BY <1>1, <1>2, PTL DEF Spec, AttendsInOrder, Promised!Spec

-----------------------------------------------------------------------------
(* What the route and the panel make of the session *)

\* Nothing, or what one handler makes of it.
Handled ==
  \/ session' = session
  \/ Safe(session, session') /\ Changes(session, session')

LEMMA ExtractionTyped ==
  ASSUME Types
  PROVE  LET x == Extraction(PendingIds)
         IN  DOMAIN x \subseteq Person /\ \A p \in DOMAIN x : x[p] \in Entry
  <1> DEFINE x == Extraction(PendingIds)
  <1>1. PendingIds \subseteq Id
    <2>1. \A i \in DOMAIN log : log[i] \in Entries
      BY DEF Types
    <2> QED BY <2>1 DEF PendingIds, Pending, Entries
  <1>2. \A id \in PendingIds :
          /\ DOMAIN text[id].says \subseteq Person
          /\ \A p \in DOMAIN text[id].says : text[id].says[p] \in Entry
    BY <1>1, PipelineAssumption DEF Types
  <1>3. DOMAIN x = UNION {DOMAIN text[id].says : id \in PendingIds}
    BY DEF Extraction
  <1>4. DOMAIN x \subseteq Person
    BY <1>2, <1>3
  <1>5. ASSUME NEW p \in DOMAIN x
        PROVE  x[p] \in Entry
    <2> DEFINE Of == {text[id].says[p] : id \in {i \in PendingIds : p \in DOMAIN text[i].says}}
    <2>1. x[p] = [declared |-> UNION {e.declared : e \in Of},
                  replaces |-> \E e \in Of : e.replaces,
                  implied  |-> UNION {e.implied : e \in Of},
                  removed  |-> UNION {e.removed : e \in Of}]
      BY DEF Extraction
    <2>2. Of \subseteq Entry
      BY <1>2
    <2> HIDE DEF Of, x
    <2>3. /\ UNION {e.declared : e \in Of} \in SUBSET Hour
          /\ UNION {e.implied : e \in Of} \in SUBSET Hour
          /\ UNION {e.removed : e \in Of} \in SUBSET Hour
          /\ (\E e \in Of : e.replaces) \in BOOLEAN
      <3>1. \A e \in Of : e.declared \in SUBSET Hour /\ e.implied \in SUBSET Hour
                          /\ e.removed \in SUBSET Hour
        BY <2>2 DEF Entry
      <3> QED BY <3>1
    <2> QED BY <2>1, <2>3 DEF Entry
  <1> QED BY <1>4, <1>5

LEMMA MarksTyped ==
  ASSUME NEW command, NEW r \in Participant, NEW marks \in MarksLeft(command, r)
  PROVE  marks[1] \in BOOLEAN /\ marks[2] \in Nat
  <1>1. ChatPriorities \subseteq Nat
    BY PipelineAssumption
  <1>2. r.priority \in Nat /\ r.required \in BOOLEAN
    BY DEF Participant
  <1>3. CASE command = "set_required"
    BY <1>2, <1>3 DEF MarksLeft
  <1>4. CASE command = "set_priority"
    BY <1>1, <1>2, <1>4 DEF MarksLeft
  <1>5. CASE command \notin {"set_required", "set_priority"}
    <2>1. marks = <<FALSE, 0>>
      BY <1>5 DEF MarksLeft
    <2> QED BY <2>1
  <1> QED BY <1>3, <1>4, <1>5

LEMMA RouteHandles ==
  ASSUME Types, Good(session), Deliver \/ Serve
  PROVE  Handled
  <1>1. IsSession(session) /\ IsRoster(Loaded(session).people)
    BY LoadedRoster
  <1>2. session' = Loaded(session) => Handled
    BY LoadedSafe, LoadedUntouched DEF Handled, Changes, Plain
  <1>3. session' = Calculate(session) => Handled
    BY CalculateSafe, CalculateRestates DEF Handled, Changes, Plain
  <1>4. CASE ReceiveNew \/ ReceiveAgain \/ Reply
    BY <1>2, <1>4 DEF ReceiveNew, ReceiveAgain, Reply
  <1>5. CASE Classify \/ HelpCommand
    BY <1>5 DEF Classify, HelpCommand, stored, Handled
  <1>6. CASE ResetCommand
    BY <1>6, ResetSafe, ResetRestarts DEF ResetCommand, Handled, Changes, Plain
  <1>7. CASE RequireCommand
    <2>1. CASE UNCHANGED session
      BY <2>1 DEF Handled
    <2> DEFINE people == Loaded(session).people
    <2>2. ASSUME NEW p \in DOMAIN people,
                 NEW marks \in MarksLeft(job.command, people[Bearer(people, p)]),
                 session' = ConfigureRequirements(session, p, marks[1], marks[2])
          PROVE  Handled
      <3>1. people[Bearer(people, p)] \in Participant
        <4> HIDE DEF people
        <4>1. IsRoster(people) /\ p \in Person
          BY <1>1, <2>2 DEF people, IsRoster
        <4>2. Bearer(people, p) \in DOMAIN people
          BY <2>2, <4>1, BearerType
        <4> QED BY <4>1, <4>2 DEF IsRoster
      <3> HIDE DEF people
      <3>2. marks[1] \in BOOLEAN /\ marks[2] \in Nat
        BY <2>2, <3>1, MarksTyped
      <3> QED BY <2>2, <3>2, ConfigureRequirementsSafe, ConfigureRequirementsRenews
              DEF people, Handled, Changes, Plain
    <2> HIDE DEF people
    <2> QED BY <1>7, <2>1, <2>2 DEF people, RequireCommand
  <1>8. CASE Extract
    <2> DEFINE x == Extraction(PendingIds)
    <2>1. session' = session \/ session' = MergeExtraction(session, x, FALSE)
      BY <1>8 DEF Extract
    <2>2. DOMAIN x \subseteq Person /\ \A p \in DOMAIN x : x[p] \in Entry
      BY ExtractionTyped
    <2> HIDE DEF x
    <2>3. /\ Safe(session, MergeExtraction(session, x, FALSE))
          /\ Plain(Loaded(session), MergeExtraction(session, x, FALSE))
      BY <2>2, MergeExtractionSafe, MergeExtractionPlain DEF Plain
    <2> QED BY <2>1, <2>3 DEF Handled, Changes
  <1>9. CASE CalculateReply \/ ConfirmCommand
    BY <1>3, <1>9 DEF CalculateReply, ConfirmCommand
  <1>10. CASE SummaryCommand
    BY <1>3, <1>10 DEF SummaryCommand, Handled
  <1>11. CASE CancelCommand
    BY <1>2, <1>11, CancelDecisionSafe, CancelDecisionUntouched
       DEF CancelCommand, Handled, Changes, Plain
  <1>12. CASE RemoveCommand
    <2>1. \/ session' = Loaded(session)
          \/ \E p : session' = RemoveParticipant(session, p)
      BY <1>12 DEF RemoveCommand
    <2> QED BY <1>2, <2>1, RemoveParticipantSafe, RemoveParticipantRenews
            DEF Handled, Changes, Plain
  <1>13. CASE ConfirmFirst
    <2>1. \/ session' = session
          \/ \E o, expected : session' = Confirm(session, o, expected, FALSE)
      BY <1>13 DEF ConfirmFirst
    <2> QED BY <2>1, ConfirmSafe, ConfirmChanges DEF Handled
  <1> QED BY <1>4, <1>5, <1>6, <1>7, <1>8, <1>9, <1>10, <1>11, <1>12, <1>13
      DEF Deliver, Serve

LEMMA PanelHandles ==
  ASSUME Good(session),
         \/ PanelConfirm \/ PanelCancel \/ PanelAddAvailability
         \/ PanelArchive \/ PanelReopen
  PROVE  Handled
  <1>1. CASE PanelConfirm
    BY <1>1, ConfirmSafe, ConfirmChanges DEF PanelConfirm, Panel, Handled
  <1>2. CASE PanelCancel
    BY <1>2, CancelDecisionSafe, CancelDecisionUntouched
       DEF PanelCancel, Panel, Handled, Changes, Plain
  <1>3. CASE PanelAddAvailability
    BY <1>3, AddAvailabilitySafe, AddAvailabilityRenews
       DEF PanelAddAvailability, Panel, Handled, Changes, Plain
  <1>4. CASE PanelArchive
    BY <1>4, ArchivedSafe, ArchivedUntouched
       DEF PanelArchive, Archive, Panel, Handled, Changes, Plain
  <1>5. CASE PanelReopen
    BY <1>5, ArchivedSafe, ArchivedUntouched
       DEF PanelReopen, Reopen, Panel, Handled, Changes, Plain
  <1> QED BY <1>1, <1>2, <1>3, <1>4, <1>5

LEMMA NextHandles ==
  ASSUME Types, Good(session), [Next]_vars
  PROVE  Handled
  <1>1. CASE Deliver \/ Serve
    BY <1>1, RouteHandles
  <1>2. CASE Respond \/ ExtractFails \/ ResponseLost \/ Crash \/ UNCHANGED vars
    BY <1>2 DEF Respond, ExtractFails, ResponseLost, Crash, stored, vars, Handled
  <1>3. CASE \/ PanelConfirm \/ PanelCancel \/ PanelAddAvailability
             \/ PanelArchive \/ PanelReopen
    BY <1>3, PanelHandles
  <1> QED BY <1>1, <1>2, <1>3 DEF Next

\* The session between two saves is a sound one, too.
KeptInv == IInv /\ Good(session) /\ Sound(session)

LEMMA NewSound ==
  Sound(NewSession)
  BY DEF NewSession, Sound, Backed, Informed, Covered

LEMMA KeptInductive ==
  Spec => []KeptInv
  <1>1. Init => KeptInv
    BY Begins, NewSessionGood, NewSound DEF KeptInv, Init
  <1>2. KeptInv /\ [Next]_vars => KeptInv'
    <2> SUFFICES ASSUME KeptInv, [Next]_vars
                 PROVE  KeptInv'
      OBVIOUS
    <2>1. IInv'
      BY Steps DEF KeptInv
    <2>2. Handled
      BY NextHandles DEF KeptInv, IInv
    <2>3. CASE session' = session
      BY <2>1, <2>3 DEF KeptInv
    <2>4. CASE Safe(session, session') /\ Changes(session, session')
      <3>1. Good(session') /\ IsSession(session')
        BY <2>4 DEF Safe, Good
      <3>2. Sound(session')
        BY <2>4, <3>1, ChangesSound DEF KeptInv
      <3> QED BY <2>1, <3>1, <3>2 DEF KeptInv
    <2> QED BY <2>2, <2>3, <2>4 DEF Handled
  <1> QED BY <1>1, <1>2, PTL DEF Spec

(* Between any two saves of a request, and so after a crash at any of them,  *)
(* the stored decision is coherent and, where no two people bear one name,   *)
(* covers whoever is required: no command of the route leaves half a         *)
(* decision for the next request.                                            *)
THEOREM CoherentBetweenSaves ==
  Spec => [](Coherent(session) /\ (DistinctNames => Covered(session)))
  <1>1. KeptInv => Coherent(session) /\ (DistinctNames => Covered(session))
    BY DEF KeptInv, Good, Sound
  <1> QED BY <1>1, KeptInductive, PTL

-----------------------------------------------------------------------------
(* What is left behind unread *)

LEMMA NextReads ==
  ASSUME Types, read \in [Id -> Nat], [Next]_vars
  PROVE  /\ read' \in [Id -> Nat]
         /\ \A id \in Id : read'[id] >= read[id]
         /\ UNCHANGED text
  <1>1. CASE Extract
    <2> DEFINE r == [id \in Id |-> read[id] + IF id \in PendingIds THEN 1 ELSE 0]
    <2>1. read' = r /\ UNCHANGED text
      BY <1>1 DEF Extract
    <2>2. \A id \in Id : r[id] \in Nat /\ r[id] >= read[id]
      OBVIOUS
    <2>3. r \in [Id -> Nat]
      BY <2>2
    <2> HIDE DEF r
    <2> QED BY <2>1, <2>2, <2>3
  <1>2. CASE Next /\ ~Extract
    <2>1. UNCHANGED <<text, read>>
      BY <1>2
         DEF Next, Deliver, Serve, ReceiveNew, ReceiveAgain, Classify, ResetCommand,
             RequireCommand, CalculateReply, HelpCommand, SummaryCommand,
             CancelCommand, RemoveCommand, ConfirmCommand, ConfirmFirst, Reply,
             Respond, ExtractFails, ResponseLost, Crash, PanelConfirm, PanelCancel,
             PanelAddAvailability, PanelArchive, PanelReopen, Panel, ghosts
    <2> QED BY <2>1
  <1>3. CASE UNCHANGED vars
    BY <1>3 DEF vars, ghosts
  <1> QED BY <1>1, <1>2, <1>3

AllRead == \A i \in Pending : read[log[i].id] > 0

\* From here on the command is executed, or its answer is due.
Late == {"execute", "calculate", "confirm", "reply"}

ReadInv ==
  /\ IInv
  /\ context \in 0 .. Len(log)
  /\ read \in [Id -> Nat]
  /\ UnreadOnlyInHaste
  /\ job.step \in Late \/ head \in receipts => AllRead \/ InHaste(head)

\* Only the next head is new, and it has no receipt yet.
LEMMA NextHead ==
  ASSUME IInv, head \in Id
  PROVE  head + 1 \notin receipts
  <1> SUFFICES ASSUME head + 1 \in receipts
               PROVE  FALSE
    OBVIOUS
  <1>1. Stored(head + 1) /\ head \in Nat
    BY PipelineAssumption DEF IInv, Booked, Id
  <1>2. PICK i \in DOMAIN log : log[i] = Human(head + 1)
    BY <1>1 DEF Stored
  <1>3. log[i].id = head + 1
    BY <1>2 DEF Human
  <1> QED BY <1>1, <1>3 DEF IInv, Ordered

\* A step that writes nothing into the log.
LEMMA SameLogReads ==
  ASSUME ReadInv, IInv', UNCHANGED <<text, log, context>>,
         read' \in [Id -> Nat], \A id \in Id : read'[id] >= read[id],
         job'.step \in Late \/ head' \in receipts' => AllRead' \/ InHaste(head')
  PROVE  ReadInv'
  <1>1. \A i \in DOMAIN log : log[i].id \in Id
    <2>1. \A i \in DOMAIN log : log[i] \in Entries
      BY DEF ReadInv, IInv, Types
    <2> QED BY <2>1 DEF Entries
  <1>2. Pending' = Pending
    BY DEF Pending
  <1>3. \A i \in DOMAIN log : read[log[i].id] > 0 => read'[log[i].id] > 0
    BY <1>1 DEF ReadInv
  <1>4. \A id : InHaste(id)' <=> InHaste(id)
    BY DEF InHaste
  <1>5. UnreadOnlyInHaste'
    <2>1. \A i, j : ClosedBy(i, j)' <=> ClosedBy(i, j)
      BY DEF ClosedBy
    <2> QED BY <1>2, <1>3, <1>4, <2>1 DEF ReadInv, UnreadOnlyInHaste
  <1>6. InHaste(head)' <=> InHaste(head')
    BY DEF InHaste
  <1> QED BY <1>5, <1>6 DEF ReadInv

\* An answer leaves nothing pending.
LEMMA AnswerReads ==
  ASSUME ReadInv, IInv', UNCHANGED <<text, read>>, head \in Id,
         log' = Append(log, Agent(head)),
         \/ UNCHANGED context /\ (AllRead \/ InHaste(head))
         \/ context' = Len(log) + 1
  PROVE  ReadInv'
  <1> DEFINE e == Agent(head)
  <1>1. /\ DOMAIN log = 1 .. Len(log)
        /\ DOMAIN Append(log, e) = 1 .. Len(log) + 1
        /\ Len(log) \in Nat
        /\ \A i \in 1 .. Len(log) : Append(log, e)[i] = log[i]
        /\ Append(log, e)[Len(log) + 1] = e
    <2>1. log \in Seq(Entries) /\ e \in Entries
      BY LogEntry DEF ReadInv, IInv, Types
    <2> HIDE DEF e
    <2> QED BY <2>1, Appending
  <1>2. e.kind = "agent" /\ e.id = head
    BY LogEntry
  <1> HIDE DEF e
  <1>3. log' = Append(log, e) /\ Len(log') = Len(log) + 1
    <2>1. log \in Seq(Entries)
      BY DEF ReadInv, IInv, Types
    <2> QED BY <2>1 DEF e
  <1>4. Pending' = {}
    <2>1. \A i \in DOMAIN log' : ~(Len(log) + 1 < i)
      BY <1>1, <1>3
    <2>2. Len(log) + 1 \in DOMAIN log' /\ log'[Len(log) + 1].kind = "agent"
      BY <1>1, <1>2, <1>3
    <2> QED BY <2>1, <2>2 DEF Pending
  <1>5. context' \in 0 .. Len(log')
    BY <1>1, <1>3 DEF ReadInv
  <1>6. AllRead'
    BY <1>4 DEF AllRead
  <1>7. UnreadOnlyInHaste'
    <2>1. CASE context' = Len(log) + 1
      BY <1>1, <1>3, <2>1 DEF UnreadOnlyInHaste
    <2>2. CASE UNCHANGED context /\ (AllRead \/ InHaste(head))
      <3> SUFFICES ASSUME NEW i \in DOMAIN log', log'[i].kind = "human", i > context
                   PROVE  \/ read[log'[i].id] > 0
                          \/ \E j \in DOMAIN log' : ClosedBy(i, j)' /\ InHaste(log'[j].id)
        BY <2>2 DEF UnreadOnlyInHaste, InHaste
      <3>1. i \in DOMAIN log /\ log'[i] = log[i]
        BY <1>1, <1>2, <1>3
      <3>2. CASE i \in Pending
        <4>1. CASE AllRead
          BY <3>1, <3>2, <4>1 DEF AllRead
        <4>2. CASE InHaste(head)
          <5>1. /\ Len(log) + 1 \in DOMAIN log' /\ Len(log) + 1 > i
                /\ log'[Len(log) + 1] = e
            BY <1>1, <1>3, <3>1
          <5>2. \A k \in DOMAIN log : log[k].kind = "agent" => ~(k > i)
            BY <1>1, <3>1, <3>2 DEF Pending
          <5>3. \A k \in DOMAIN log' : k > i /\ log'[k].kind = "agent" => k = Len(log) + 1
            BY <1>1, <1>3, <5>2
          <5>4. PICK j \in Nat : j = Len(log) + 1
            BY <1>1
          <5>5. ClosedBy(i, j)'
            BY <1>2, <5>1, <5>3, <5>4 DEF ClosedBy
          <5> QED BY <1>2, <4>2, <5>1, <5>4, <5>5
        <4> QED BY <2>2, <4>1, <4>2
      <3>3. CASE i \notin Pending
        <4>1. \/ read[log[i].id] > 0
              \/ \E j \in DOMAIN log : ClosedBy(i, j) /\ InHaste(log[j].id)
          BY <2>2, <3>1, <3>3 DEF ReadInv, UnreadOnlyInHaste
        <4>2. \A j \in DOMAIN log :
                /\ j \in DOMAIN log' /\ log'[j] = log[j]
                /\ ClosedBy(i, j) => ClosedBy(i, j)'
          BY <1>1, <1>3 DEF ClosedBy
        <4> QED BY <3>1, <4>1, <4>2
      <3> QED BY <3>2, <3>3
    <2> QED BY <2>1, <2>2
  <1> QED BY <1>5, <1>6, <1>7 DEF ReadInv

\* A new message is pending, and its id has no receipt.
LEMMA MessageReads ==
  ASSUME ReadInv, IInv', UNCHANGED <<text, read, context, receipts, head>>,
         head \in Id, ~Stored(head), log' = Append(log, Human(head)),
         job'.step \notin Late
  PROVE  ReadInv'
  <1> DEFINE e == Human(head)
  <1>1. /\ DOMAIN log = 1 .. Len(log)
        /\ DOMAIN Append(log, e) = 1 .. Len(log) + 1
        /\ Len(log) \in Nat
        /\ \A i \in 1 .. Len(log) : Append(log, e)[i] = log[i]
        /\ Append(log, e)[Len(log) + 1] = e
    <2>1. log \in Seq(Entries) /\ e \in Entries
      BY LogEntry DEF ReadInv, IInv, Types
    <2> HIDE DEF e
    <2> QED BY <2>1, Appending
  <1>2. e.kind = "human"
    BY LogEntry
  <1> HIDE DEF e
  <1>3. log' = Append(log, e) /\ Len(log') = Len(log) + 1
    <2>1. log \in Seq(Entries)
      BY DEF ReadInv, IInv, Types
    <2> QED BY <2>1 DEF e
  <1>4. head \notin receipts
    BY DEF ReadInv, IInv, Booked
  <1>5. \A i \in DOMAIN log : i \notin Pending' => i \notin Pending
    <2> SUFFICES ASSUME NEW i \in Pending
                 PROVE  i \in Pending'
      BY DEF Pending
    <2>1. /\ i \in DOMAIN log /\ log[i].kind = "human" /\ i > context
          /\ \A j \in DOMAIN log : log[j].kind = "agent" => j < i
      BY DEF Pending
    <2>2. i \in DOMAIN log' /\ log'[i].kind = "human" /\ i > context'
      BY <1>1, <1>3, <2>1
    <2>3. \A j \in DOMAIN log' : log'[j].kind = "agent" => j < i
      BY <1>1, <1>2, <1>3, <2>1
    <2> QED BY <2>2, <2>3 DEF Pending
  <1>6. Len(log) + 1 \in Pending'
    <2>1. /\ Len(log) + 1 \in DOMAIN log' /\ log'[Len(log) + 1].kind = "human"
          /\ Len(log) + 1 > context'
      BY <1>1, <1>2, <1>3 DEF ReadInv
    <2>2. \A j \in DOMAIN log' : log'[j].kind = "agent" => j < Len(log) + 1
      BY <1>1, <1>2, <1>3
    <2> QED BY <2>1, <2>2 DEF Pending
  <1>7. UnreadOnlyInHaste'
    <2> SUFFICES ASSUME NEW i \in DOMAIN log', log'[i].kind = "human", i > context,
                        i \notin Pending'
                 PROVE  \/ read[log'[i].id] > 0
                        \/ \E j \in DOMAIN log' : ClosedBy(i, j)' /\ InHaste(log'[j].id)
      BY DEF UnreadOnlyInHaste, InHaste
    <2>1. i \in DOMAIN log /\ log'[i] = log[i]
      BY <1>1, <1>3, <1>6
    <2>2. \/ read[log[i].id] > 0
          \/ \E j \in DOMAIN log : ClosedBy(i, j) /\ InHaste(log[j].id)
      BY <1>5, <2>1 DEF ReadInv, UnreadOnlyInHaste
    <2>3. \A j \in DOMAIN log :
            /\ j \in DOMAIN log' /\ log'[j] = log[j]
            /\ ClosedBy(i, j) => ClosedBy(i, j)'
      BY <1>1, <1>2, <1>3 DEF ClosedBy
    <2> QED BY <2>1, <2>2, <2>3
  <1>8. context' \in 0 .. Len(log')
    BY <1>1, <1>3 DEF ReadInv
  <1> QED BY <1>4, <1>7, <1>8 DEF ReadInv

LEMMA ServedHead ==
  ASSUME IInv, job.step \in Working
  PROVE  /\ job.id = head /\ head \in Id /\ Stored(head) /\ text[head].invokes
         /\ job.command # "none" => job.command = text[head].command
  BY DEF IInv, Serving, Working

LEMMA ServeReads ==
  ASSUME ReadInv, IInv', UNCHANGED text, read' \in [Id -> Nat],
         \A id \in Id : read'[id] >= read[id], Deliver \/ Serve
  PROVE  ReadInv'
  <1>1. IInv
    BY DEF ReadInv
  <1>2. ASSUME UNCHANGED <<log, context, read>>,
               job'.step \in Late \/ head' \in receipts' =>
                 \/ head' = head /\ (AllRead \/ InHaste(head))
        PROVE  ReadInv'
    <2>1. AllRead' <=> AllRead
      BY <1>2 DEF AllRead, Pending
    <2> QED BY <1>2, <2>1, SameLogReads
  <1>3. CASE ReceiveNew
    <2>1. /\ head \in Id /\ ~Stored(head) /\ job'.step \in {"command", "respond"}
          /\ UNCHANGED <<text, read, context, receipts, head>>
          /\ UNCHANGED log \/ log' = Append(log, Human(head))
      BY <1>3 DEF ReceiveNew, Served, Start, queue, ghosts
    <2>2. job'.step \notin Late
      BY <2>1 DEF Late
    <2>3. CASE UNCHANGED log
      BY <1>2, <2>1, <2>2, <2>3 DEF ReadInv
    <2>4. CASE log' = Append(log, Human(head))
      BY <1>1, <2>1, <2>2, <2>4, MessageReads
    <2> QED BY <2>1, <2>3, <2>4
  <1>4. CASE ReceiveAgain
    <2>1. /\ head \in Id /\ job'.step \in {"command", "respond"}
          /\ UNCHANGED <<text, read, context, receipts, head>>
          /\ \/ UNCHANGED log
             \/ log' = Append(log, Agent(head)) /\ head \in receipts
      BY <1>4 DEF ReceiveAgain, Served, Start, queue, ghosts
    <2>2. job'.step \notin Late
      BY <2>1 DEF Late
    <2>3. CASE UNCHANGED log
      BY <1>2, <2>1, <2>2, <2>3 DEF ReadInv
    <2>4. CASE log' = Append(log, Agent(head)) /\ head \in receipts
      BY <2>1, <2>4, AnswerReads DEF ReadInv
    <2> QED BY <2>1, <2>3, <2>4
  <1>5. CASE Classify
    <2>1. /\ job.step = "command"
          /\ UNCHANGED <<text, log, context, receipts, read, head>>
      BY <1>5 DEF Classify, At, stored, queue, ghosts
    <2>2. head \in Id /\ Stored(head) /\ text[head].invokes
      BY <1>1, <2>1, ServedHead DEF Working
    <2>3. LastInvoking = head
      BY <1>1, <2>2, ServesTheHead DEF IInv
    <2> DEFINE command == text[head].command
               step == After(command)
    <2>4. job' = [job EXCEPT !.command = command, !.step = step]
      BY <1>5, <2>3 DEF Classify
    <2>5. step \in Late => InHaste(head)
      BY DEF After, Late, InHaste
    <2> HIDE DEF command, step
    <2>6. job'.step = step
      BY <1>1, <2>4 DEF IInv, Types
    <2> QED BY <1>2, <2>1, <2>5, <2>6 DEF ReadInv
  <1>6. CASE ResetCommand
    <2>1. /\ job.step = "command"
          /\ log' = Append(log, Agent(job.id)) /\ context' = Len(log) + 1
          /\ UNCHANGED <<text, read>>
      BY <1>6 DEF ResetCommand, At
    <2>2. job.id = head /\ head \in Id
      BY <1>1, <2>1, ServedHead DEF Working
    <2> QED BY <2>1, <2>2, AnswerReads
  <1>7. CASE RequireCommand
    <2>1. /\ job.step = "command" /\ job.command \in Requirements
          /\ UNCHANGED <<log, context, receipts, read, head>>
      BY <1>7 DEF RequireCommand, At, queue
    <2>2. InHaste(head)
      BY <1>1, <2>1, ServedHead DEF Working, InHaste, Requirements
    <2> QED BY <1>2, <2>1, <2>2
  <1>8. CASE Extract
    <2>1. /\ UNCHANGED <<text, log, context>>
          /\ read' = [id \in Id |-> read[id] + IF id \in PendingIds THEN 1 ELSE 0]
      BY <1>8 DEF Extract
    <2>2. Pending' = Pending
      BY <2>1 DEF Pending
    <2>3. AllRead'
      <3> SUFFICES ASSUME NEW i \in Pending
                   PROVE  read'[log[i].id] > 0
        BY <2>1, <2>2 DEF AllRead
      <3>1. log[i] \in Entries
        BY <1>1 DEF IInv, Types, Pending
      <3>2. log[i].id \in Id /\ log[i].id \in PendingIds
        BY <3>1 DEF PendingIds, Entries
      <3>3. read[log[i].id] \in Nat
        BY <3>2 DEF ReadInv
      <3> QED BY <2>1, <3>2, <3>3
    <2> QED BY <2>1, <2>3, SameLogReads
  <1>9. CASE \/ CalculateReply \/ HelpCommand \/ SummaryCommand \/ CancelCommand
             \/ RemoveCommand \/ ConfirmCommand \/ ConfirmFirst
    <2>1. /\ job.step \in Late
          /\ UNCHANGED <<log, context, read, head>>
      BY <1>9 DEF CalculateReply, HelpCommand, SummaryCommand, CancelCommand,
                  RemoveCommand, ConfirmCommand, ConfirmFirst, At, Late, stored,
                  queue, ghosts
    <2> QED BY <1>2, <2>1 DEF ReadInv
  <1>10. CASE Reply
    <2>1. /\ job.step = "reply" /\ log' = Append(log, Agent(job.id))
          /\ UNCHANGED <<text, context, read>>
      BY <1>10 DEF Reply, At, ghosts
    <2>2. job.id = head /\ head \in Id
      BY <1>1, <2>1, ServedHead DEF Working
    <2> QED BY <2>1, <2>2, AnswerReads DEF ReadInv, Late
  <1> QED BY <1>3, <1>4, <1>5, <1>6, <1>7, <1>8, <1>9, <1>10
      DEF Deliver, Serve

LEMMA EndReads ==
  ASSUME ReadInv, IInv', UNCHANGED <<text, log, context, receipts, read>>,
         head \in Id, head' \in {head, head + 1}, job' = Idle
  PROVE  ReadInv'
  <1>1. job'.step \notin Late
    BY DEF Idle, Late
  <1>2. head' \in receipts' => head' = head
    BY NextHead DEF ReadInv
  <1>3. AllRead' <=> AllRead
    BY DEF AllRead, Pending
  <1>4. \A id \in Id : read'[id] >= read[id]
    BY DEF ReadInv
  <1> QED BY <1>1, <1>2, <1>3, <1>4, SameLogReads DEF ReadInv

LEMMA ReadStep ==
  ASSUME ReadInv, [Next]_vars
  PROVE  ReadInv'
  <1>1. IInv /\ IInv'
    BY Steps DEF ReadInv
  <1>2. /\ read' \in [Id -> Nat] /\ \A id \in Id : read'[id] >= read[id]
        /\ UNCHANGED text
    BY NextReads DEF ReadInv, IInv
  <1>3. CASE Deliver \/ Serve
    BY <1>1, <1>2, <1>3, ServeReads
  <1>4. CASE Respond \/ ExtractFails \/ ResponseLost \/ Crash
    <2>1. /\ job.step # "idle" /\ job' = Idle /\ head' \in {head, head + 1}
          /\ UNCHANGED <<text, log, context, receipts, read>>
      BY <1>4 DEF Respond, ExtractFails, ResponseLost, Crash, At, Acknowledged,
                  Failed, stored, ghosts
    <2>2. head \in Id
      BY <1>1, <2>1 DEF IInv, Serving
    <2> QED BY <1>1, <2>1, <2>2, EndReads
  <1>5. CASE \/ PanelConfirm \/ PanelCancel \/ PanelAddAvailability
             \/ PanelArchive \/ PanelReopen \/ UNCHANGED vars
    <2>1. UNCHANGED <<text, log, context, receipts, read, job, head>>
      BY <1>5 DEF PanelConfirm, PanelCancel, PanelAddAvailability, PanelArchive,
                  PanelReopen, Panel, vars, stored, queue, ghosts
    <2>2. AllRead' <=> AllRead
      BY <2>1 DEF AllRead, Pending
    <2> QED BY <1>1, <1>2, <2>1, <2>2, SameLogReads DEF ReadInv
  <1> QED BY <1>3, <1>4, <1>5 DEF Next

LEMMA ReadInductive ==
  Spec => []ReadInv
  <1>1. Init => ReadInv
    <2> SUFFICES ASSUME Init
                 PROVE  ReadInv
      OBVIOUS
    <2>1. log = <<>> /\ context = 0 /\ job = Idle /\ receipts = {}
      BY DEF Init
    <2>2. read \in [Id -> Nat]
      BY DEF Init
    <2>3. UnreadOnlyInHaste /\ context \in 0 .. Len(log)
      BY <2>1 DEF UnreadOnlyInHaste
    <2>4. job.step \notin Late /\ head \notin receipts
      BY <2>1 DEF Idle, Late
    <2> QED BY <2>2, <2>3, <2>4, Begins DEF ReadInv
  <1>2. ReadInv /\ [Next]_vars => ReadInv'
    BY ReadStep
  <1> QED BY <1>1, <1>2, PTL DEF Spec

(* Whatever the messages: one that is no longer pending was read, or the     *)
(* first reply after it answers a requirement or a question for a habitual   *)
(* hour.  These are the only commands that routes.py answers before it       *)
(* reads, so the loss that PipelineHasty finds has no other cause, crashes   *)
(* and retries included.                                                     *)
THEOREM OnlyHasteLeavesUnread == Spec => []UnreadOnlyInHaste
  <1>1. ReadInv => UnreadOnlyInHaste
    BY DEF ReadInv
  <1> QED BY <1>1, ReadInductive, PTL

(* Where nobody sends these commands, what a message that was answered says  *)
(* about people's time has been merged.                                      *)
THEOREM Reads ==
  ASSUME \A t \in Texts : t.command \notin Requirements \cup {"habitual"}
  PROVE  Spec => []AnsweredMeansRead
  <1>1. ReadInv => AnsweredMeansRead
    <2> SUFFICES ASSUME ReadInv, NEW i \in DOMAIN log,
                        log[i].kind = "human", i > context, i \notin Pending
                 PROVE  read[log[i].id] > 0
      BY DEF AnsweredMeansRead
    <2>1. \A j \in DOMAIN log : ~InHaste(log[j].id)
      <3> SUFFICES ASSUME NEW j \in DOMAIN log
                   PROVE  ~InHaste(log[j].id)
        OBVIOUS
      <3>1. log[j] \in Entries /\ text \in [Id -> Texts]
        BY DEF ReadInv, IInv, Types
      <3> QED BY <3>1 DEF InHaste, Entries
    <2> QED BY <2>1 DEF ReadInv, UnreadOnlyInHaste
  <1> QED BY <1>1, ReadInductive, PTL

-----------------------------------------------------------------------------
(* Types *)

TypeInv ==
  /\ ReadInv
  /\ Good(session)
  /\ attempts \in 0 .. MaxAttempts - 1
  /\ dead \subseteq Id

LEMMA QueueTyped ==
  ASSUME TypeInv, [Next]_vars
  PROVE  attempts' \in 0 .. MaxAttempts - 1 /\ dead' \subseteq Id
  <1>1. MaxAttempts \in Nat \ {0} /\ attempts \in 0 .. MaxAttempts - 1 /\ dead \subseteq Id
    BY PipelineAssumption DEF TypeInv
  <1>2. CASE Respond
    BY <1>1, <1>2 DEF Respond, Acknowledged
  <1>3. CASE ExtractFails \/ ResponseLost \/ Crash
    <2>1. job.step # "idle" /\ Failed
      BY <1>3 DEF ExtractFails, ResponseLost, Crash, At
    <2>2. head \in Id
      BY <2>1 DEF TypeInv, ReadInv, IInv, Serving
    <2> QED BY <1>1, <2>1, <2>2 DEF Failed
  <1>4. CASE Deliver \/ Serve
    BY <1>1, <1>4
       DEF Deliver, Serve, ReceiveNew, ReceiveAgain, Classify, ResetCommand, RequireCommand,
           Extract, CalculateReply, HelpCommand, SummaryCommand, CancelCommand,
           RemoveCommand, ConfirmCommand, ConfirmFirst, Reply, queue
  <1>5. CASE \/ PanelConfirm \/ PanelCancel \/ PanelAddAvailability
             \/ PanelArchive \/ PanelReopen \/ UNCHANGED vars
    BY <1>1, <1>5 DEF PanelConfirm, PanelCancel, PanelAddAvailability, PanelArchive,
                      PanelReopen, Panel, vars, queue
  <1> QED BY <1>2, <1>3, <1>4, <1>5 DEF Next

(* Every save of the route leaves a well-typed session: the extraction of    *)
(* several messages, the commands and the panel's requests included.         *)
THEOREM Typed == Spec => []TypeOK
  <1>1. Init => TypeInv
    <2> SUFFICES ASSUME Init
                 PROVE  TypeInv
      OBVIOUS
    <2>1. ReadInv /\ Good(session)
      <3>1. UnreadOnlyInHaste /\ context \in 0 .. Len(log) /\ read \in [Id -> Nat]
        BY DEF Init, UnreadOnlyInHaste
      <3>2. job.step \notin Late /\ head \notin receipts
        BY DEF Init, Idle, Late
      <3> QED BY <3>1, <3>2, Begins, NewSessionGood DEF Init, ReadInv
    <2>2. attempts \in 0 .. MaxAttempts - 1 /\ dead \subseteq Id
      BY PipelineAssumption DEF Init
    <2> QED BY <2>1, <2>2 DEF TypeInv
  <1>2. TypeInv /\ [Next]_vars => TypeInv'
    <2> SUFFICES ASSUME TypeInv, [Next]_vars
                 PROVE  TypeInv'
      OBVIOUS
    <2>1. ReadInv'
      BY ReadStep DEF TypeInv
    <2>2. Good(session')
      <3>1. Handled
        BY NextHandles DEF TypeInv, ReadInv, IInv
      <3> QED BY <3>1 DEF Handled, Safe, TypeInv
    <2> QED BY <2>1, <2>2, QueueTyped DEF TypeInv
  <1>3. TypeInv => TypeOK
    <2> SUFFICES ASSUME TypeInv
                 PROVE  TypeOK
      OBVIOUS
    <2>1. /\ Types /\ IsSession(session)
          /\ context \in 0 .. Len(log) /\ read \in [Id -> Nat]
          /\ attempts \in 0 .. MaxAttempts - 1 /\ dead \subseteq Id
      BY DEF TypeInv, ReadInv, IInv, Good
    <2> DEFINE Said == {Human(id) : id \in Id} \cup {Agent(id) : id \in Id}
    <2>2. log \in Seq(Said)
      <3>1. \A i \in DOMAIN log : log[i] \in Said
        <4>1. \A e \in Entries : e = Human(e.id) \/ e = Agent(e.id)
          BY DEF Entries, Human, Agent
        <4>2. \A i \in DOMAIN log : log[i] \in Entries
          BY <2>1 DEF Types
        <4>3. \A e \in Entries : e.id \in Id
          BY DEF Entries
        <4> QED BY <4>1, <4>2, <4>3
      <3>2. log \in Seq(Entries)
        BY <2>1 DEF Types
      <3> HIDE DEF Said
      <3> QED BY <3>1, <3>2
    <2> QED BY <2>1, <2>2 DEF TypeOK, Types
  <1> QED BY <1>1, <1>2, <1>3, PTL DEF Spec
=============================================================================
