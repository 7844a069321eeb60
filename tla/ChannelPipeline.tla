--------------------------- MODULE ChannelPipeline ---------------------------
(***************************************************************************)
(* POST /sessions/{id}/channel/messages: from a message of the group to    *)
(* the agent's reply.  The route holds the session's lock all along, but   *)
(* it saves the session several times: the backend may crash between two   *)
(* saves, the language model may fail, and the answer may be lost.  The    *)
(* gateway sends the messages of a group in order and repeats the first of *)
(* its queue, with the same id, until it is answered or given up; the      *)
(* panel works on the session between two requests.                        *)
(*                                                                         *)
(* The stored session is `session` (see SessionHandlers) with the fields   *)
(* `log`, `context` and `receipts`; `job` is what the running request      *)
(* keeps in memory.                                                        *)
(***************************************************************************)
EXTENDS SessionHandlers

CONSTANTS LastId,        \* messages 1 .. LastId are sent, in this order
          Texts,         \* what a message may be
          ChatPriorities,   \* priorities a message may ask for
          MaxAttempts,   \* deliveries before the gateway gives a message up
          MaxCrashes,    \* bound on backend crashes explored
          MaxPanel       \* bound on panel requests explored

Id == 1 .. LastId

\* Commands that change the marks of one participant.
Requirements == {"set_required", "set_priority", "clear_requirements"}

Command == {"none", "habitual", "reset", "help", "confirm", "cancel",
            "summary", "remove"} \cup Requirements

\* A message, as a record: `invokes`, it names the trigger word; `command`, what
\* the trigger word is followed by; `says`, what the model extracts from it.
ASSUME PipelineAssumption ==
  /\ LastId \in Nat \ {0}
  /\ \A t \in Texts :
       /\ t.invokes \in BOOLEAN
       /\ t.command \in Command
       /\ DOMAIN t.says \subseteq Person
       /\ \A p \in DOMAIN t.says : t.says[p] \in Entry
       /\ t.command # "none" => t.invokes
  /\ ChatPriorities \subseteq 0 .. 10
  /\ MaxAttempts \in Nat \ {0}
  /\ MaxCrashes \in Nat
  /\ MaxPanel \in Nat

VARIABLES
  text,       \* text[id]: the message
  session,    \* the stored session
  log,        \* channel_messages: human and agent entries
  context,    \* position of channel_context_message_id in log, 0 for None
  receipts,   \* ids of channel_command_receipts
  job,        \* the request being served: its message, its next step
  head,       \* the message at the head of the gateway's queue
  attempts,   \* failed deliveries of it
  dead,       \* messages given up by the gateway
  crashes, panel,   \* bounds
  carried,    \* history: commands whose effect was saved, in order
  read        \* history: read[id], how often id's content was merged

stored == <<session, log, context, receipts>>
queue  == <<head, attempts, dead>>
ghosts == <<carried, read>>
bounds == <<crashes, panel>>
vars == <<text, stored, job, queue, bounds, ghosts>>

Human(id) == [kind |-> "human", id |-> id]
Agent(id) == [kind |-> "agent", id |-> id]

Step == {"idle", "command", "extract", "execute", "calculate", "confirm",
         "reply", "respond"}

Idle == [id |-> 0, step |-> "idle", command |-> "none"]

TypeOK ==
  /\ text \in [Id -> Texts]
  /\ IsSession(session)
  /\ log \in Seq({Human(id) : id \in Id} \cup {Agent(id) : id \in Id})
  /\ context \in 0 .. Len(log)
  /\ receipts \subseteq Id
  /\ job \in [id : 0 .. LastId, step : Step, command : Command]
  /\ head \in 1 .. LastId + 1
  /\ attempts \in 0 .. MaxAttempts - 1
  /\ dead \subseteq Id
  /\ carried \in Seq([id : Id, command : Command])
  /\ read \in [Id -> Nat]

Init ==
  /\ text \in [Id -> Texts]
  /\ session = NewSession
  /\ log = <<>>
  /\ context = 0
  /\ receipts = {}
  /\ job = Idle
  /\ head = 1
  /\ attempts = 0
  /\ dead = {}
  /\ crashes = 0
  /\ panel = 0
  /\ carried = <<>>
  /\ read = [id \in Id |-> 0]

-----------------------------------------------------------------------------
(* What the route looks up in the stored messages *)

Replied(id) == \E i \in DOMAIN log : log[i] = Agent(id)

\* last_invoking_message: whatever message is being served.
LastInvoking ==
  LET calls == {i \in DOMAIN log : log[i].kind = "human" /\ text[log[i].id].invokes}
  IN  log[CHOOSE i \in calls : \A j \in calls : j <= i].id

\* pending_channel_messages: those after the last agent message of the round.
Pending ==
  {i \in DOMAIN log :
     /\ log[i].kind = "human"
     /\ i > context
     /\ \A j \in DOMAIN log : log[j].kind = "agent" => j < i}

PendingIds == {log[i].id : i \in Pending}

\* What the model makes of several messages of several people.
Extraction(ids) ==
  LET people == UNION {DOMAIN text[id].says : id \in ids}
      Of(p)  == {text[id].says[p] : id \in {i \in ids : p \in DOMAIN text[i].says}}
  IN  [p \in people |->
         [declared |-> UNION {e.declared : e \in Of(p)},
          replaces |-> \E e \in Of(p) : e.replaces,
          implied  |-> UNION {e.implied : e \in Of(p)},
          removed  |-> UNION {e.removed : e \in Of(p)}]]

-----------------------------------------------------------------------------
(* The gateway's side of a request *)

\* The queue's head was answered.
Acknowledged ==
  /\ head' = head + 1
  /\ attempts' = 0
  /\ UNCHANGED dead

\* Mutant: the limit is off by one.
FailedOnceMore ==
  IF attempts < MaxAttempts
  THEN attempts' = attempts + 1 /\ UNCHANGED <<head, dead>>
  ELSE head' = head + 1 /\ attempts' = 0 /\ dead' = dead \cup {head}

\* Mutant: a message given up leaves no trace.
FailedSilently ==
  IF attempts + 1 < MaxAttempts
  THEN attempts' = attempts + 1 /\ UNCHANGED <<head, dead>>
  ELSE head' = head + 1 /\ attempts' = 0 /\ UNCHANGED dead

\* It was not: the gateway tries again, or moves it to the dead letters.
Failed ==
  IF attempts + 1 < MaxAttempts
  THEN attempts' = attempts + 1 /\ UNCHANGED <<head, dead>>
  ELSE head' = head + 1 /\ attempts' = 0 /\ dead' = dead \cup {head}

-----------------------------------------------------------------------------
(* The route *)

At(step) == job.step = step
Goto(step) == job' = [job EXCEPT !.step = step]
Start(id, step) == job' = [id |-> id, step |-> step, command |-> "none"]
Served == At("idle") /\ head \in Id

Stored(id) == \E i \in DOMAIN log : log[i] = Human(id)

\* add_channel_message: an archived session neither stores nor answers.
ReceiveNew ==
  /\ Served
  /\ ~Stored(head)
  /\ session' = Loaded(session)
  /\ IF session.archived
     THEN Start(head, "respond") /\ UNCHANGED log
     ELSE /\ log' = Append(log, Human(head))
          /\ Start(head, IF text[head].invokes THEN "command" ELSE "respond")
  /\ UNCHANGED <<text, context, receipts, queue, bounds, ghosts>>

\* Mutant: a message whose command was carried out is served again.
ReceiveAgainAnyway ==
  /\ Served
  /\ Stored(head)
  /\ session' = Loaded(session)
  /\ Start(head, IF text[head].invokes /\ ~Replied(head) THEN "command" ELSE "respond")
  /\ UNCHANGED <<text, log, context, receipts, queue, bounds, ghosts>>

\* The id is known: replay_command_receipt, replay_channel_response, or resume.
ReceiveAgain ==
  /\ Served
  /\ Stored(head)
  /\ session' = Loaded(session)
  /\ log' = IF head \in receipts /\ ~Replied(head)
            THEN Append(log, Agent(head)) ELSE log
  /\ Start(head, IF head \in receipts \/ Replied(head) \/ ~text[head].invokes
                 THEN "respond" ELSE "command")
  /\ UNCHANGED <<text, context, receipts, queue, bounds, ghosts>>

CarriedOut == carried' = Append(carried, [id |-> job.id, command |-> job.command])

\* The effect of a command is saved together with its receipt.
Receipt == receipts' = receipts \cup {job.id} /\ CarriedOut

\* Mutant: commands are executed on what was read so far.
AfterHasty(command) ==
  CASE command \in Requirements \cup {"reset"} -> "command"
    [] command = "habitual"                     -> "reply"
    [] command = "none"                         -> "extract"
    [] OTHER                                    -> "execute"

\* What a command waits for: the pending messages are read before all but a
\* reset, the requirements and the question for a habitual hour.
After(command) ==
  CASE command \in Requirements \cup {"reset"} -> "command"
    [] command = "habitual"                     -> "reply"
    [] OTHER                                    -> "extract"

\* classify_channel_command, on the text of the last invoking message.
Classify ==
  /\ At("command")
  /\ job.command = "none"
  /\ LET command == text[LastInvoking].command
     IN  job' = [job EXCEPT !.command = command, !.step = After(command)]
  /\ UNCHANGED <<text, stored, queue, bounds, ghosts>>

\* reset_channel_context: state, reply, context and receipt in one save.
ResetCommand ==
  /\ At("command")
  /\ job.command = "reset"
  /\ session' = Reset(session)
  /\ log' = Append(log, Agent(job.id))
  /\ context' = Len(log) + 1
  /\ Receipt
  /\ Goto("respond")
  /\ UNCHANGED <<text, queue, bounds, read>>

\* The marks, required and priority, that a command leaves on a record.
MarksLeft(command, r) ==
  CASE command = "set_required" -> {TRUE} \X {r.priority}
    [] command = "set_priority" -> {r.required} \X ChatPriorities
    [] OTHER                    -> {<<FALSE, 0>>}

\* execute_requirement_command, for an administrator of the group; anybody
\* else, and a name that is not listed, only gets a reply.  Unlike the other
\* commands it leaves no receipt: until the reply is stored, a retry carries
\* it out again.
RequireCommand ==
  /\ At("command")
  /\ job.command \in Requirements
  /\ \/ UNCHANGED <<session, carried>>
     \/ /\ LET people == Loaded(session).people
           IN  \E p \in DOMAIN people :
                 \E marks \in MarksLeft(job.command, people[Bearer(people, p)]) :
                   session' = ConfigureRequirements(session, p, marks[1], marks[2])
        /\ CarriedOut
  /\ Goto("reply")
  /\ UNCHANGED <<text, log, context, receipts, queue, bounds, read>>

\* extract_channel_availability and merge_extraction.  With a command, an
\* extraction that brings nothing is not merged.
Extract ==
  /\ At("extract")
  /\ LET x == Extraction(PendingIds)
     IN  session' = IF job.command # "none" /\ DOMAIN x = {}
                    THEN session
                    ELSE MergeExtraction(session, x, FALSE)
  /\ read' = [id \in Id |-> read[id] + IF id \in PendingIds THEN 1 ELSE 0]
  /\ Goto(IF job.command = "none" THEN "calculate" ELSE "execute")
  /\ UNCHANGED <<text, log, context, receipts, queue, bounds, carried>>

\* LlmUnavailableError: the request ends with an error, after what was saved.
ExtractFails ==
  /\ At("extract")
  /\ job' = Idle
  /\ Failed
  /\ UNCHANGED <<text, stored, bounds, ghosts>>

\* calculate(), before the proposal is put into words.
CalculateReply ==
  /\ At("calculate")
  /\ session' = Calculate(session)
  /\ Goto("reply")
  /\ UNCHANGED <<text, log, context, receipts, queue, bounds, ghosts>>

HelpCommand ==
  /\ At("execute")
  /\ job.command = "help"
  /\ Goto("reply")
  /\ UNCHANGED <<text, stored, queue, bounds, ghosts>>

SummaryCommand ==
  /\ At("execute")
  /\ job.command = "summary"
  /\ session' = IF DOMAIN session.people # {} THEN Calculate(session) ELSE session
  /\ Goto("reply")
  /\ UNCHANGED <<text, log, context, receipts, queue, bounds, ghosts>>

CancelCommand ==
  /\ At("execute")
  /\ job.command = "cancel"
  /\ IF session.selected = {} /\ session.summary = {}
     THEN session' = Loaded(session) /\ UNCHANGED <<receipts, carried>>
     ELSE session' = CancelDecision(session) /\ Receipt
  /\ Goto("reply")
  /\ UNCHANGED <<text, log, context, queue, bounds, read>>

RemoveCommand ==
  /\ At("execute")
  /\ job.command = "remove"
  /\ \/ session' = Loaded(session) /\ UNCHANGED <<receipts, carried>>
     \/ \E p \in DOMAIN Loaded(session).people :
          session' = RemoveParticipant(session, {p}) /\ Receipt
  /\ Goto("reply")
  /\ UNCHANGED <<text, log, context, queue, bounds, read>>

ConfirmCommand ==
  /\ At("execute")
  /\ job.command = "confirm"
  /\ session' = Calculate(session)
  /\ Goto("confirm")
  /\ UNCHANGED <<text, log, context, receipts, queue, bounds, ghosts>>

\* execute_confirm_command after its own calculate(): the first option.  An
\* option that already is the decision gets a receipt and no new record.
ConfirmFirst ==
  /\ At("confirm")
  /\ LET first == {o \in session.options : o.rank = 1}
     IN  IF Blocked(session, FALSE) \/ first = {}
         THEN UNCHANGED <<session, receipts, carried>>
         ELSE /\ session' = Confirm(session, CHOOSE o \in first : TRUE,
                                    {session.revision}, FALSE)
              /\ receipts' = receipts \cup {job.id}
              /\ carried' = IF session'.history = session.history THEN carried
                            ELSE Append(carried, [id |-> job.id, command |-> job.command])
  /\ Goto("reply")
  /\ UNCHANGED <<text, log, context, queue, bounds, read>>

\* add_agent_channel_reply
Reply ==
  /\ At("reply")
  /\ session' = Loaded(session)
  /\ log' = Append(log, Agent(job.id))
  /\ Goto("respond")
  /\ UNCHANGED <<text, context, receipts, queue, bounds, ghosts>>

Respond ==
  /\ At("respond")
  /\ job' = Idle
  /\ Acknowledged
  /\ UNCHANGED <<text, stored, bounds, ghosts>>

-----------------------------------------------------------------------------
(* Failures *)

\* The gateway timed out or the connection broke: nobody hears the answer.
ResponseLost ==
  /\ At("respond")
  /\ job' = Idle
  /\ Failed
  /\ UNCHANGED <<text, stored, bounds, ghosts>>

Crash ==
  /\ ~At("idle")
  /\ crashes < MaxCrashes
  /\ crashes' = crashes + 1
  /\ job' = Idle
  /\ Failed
  /\ UNCHANGED <<text, stored, panel, ghosts>>

-----------------------------------------------------------------------------
(* The panel, between two requests of the gateway *)

Panel(s) ==
  /\ At("idle")
  /\ panel < MaxPanel
  /\ panel' = panel + 1
  /\ session' = s
  /\ UNCHANGED <<text, log, context, receipts, job, queue, crashes, ghosts>>

PanelConfirm ==
  \E o \in Loaded(session).options : Panel(Confirm(session, o, {}, FALSE))

PanelCancel == session.selected # {} /\ Panel(CancelDecision(session))

PanelAddAvailability ==
  \E p \in Person, h \in Hour : Panel(AddAvailability(session, p, {h}))

PanelArchive == Panel(Archive(session))

PanelReopen == session.archived /\ Panel(Reopen(session))

-----------------------------------------------------------------------------
\* The gateway delivers its head.
Deliver == ReceiveNew \/ ReceiveAgain

\* What the backend does for a request it has taken.
Serve ==
  \/ Classify \/ ResetCommand \/ RequireCommand
  \/ Extract \/ CalculateReply
  \/ HelpCommand \/ SummaryCommand \/ CancelCommand \/ RemoveCommand
  \/ ConfirmCommand \/ ConfirmFirst
  \/ Reply

Next ==
  \/ Deliver \/ Serve \/ Respond \/ ExtractFails
  \/ ResponseLost \/ Crash
  \/ PanelConfirm \/ PanelCancel \/ PanelAddAvailability
  \/ PanelArchive \/ PanelReopen

Spec == Init /\ [][Next]_vars

\* A request the backend has taken goes on until it ends.  Nothing is assumed
\* of the gateway, nor of the panel.
FairSpec == Spec /\ WF_vars(Serve \/ Respond \/ ExtractFails \/ ResponseLost)

-----------------------------------------------------------------------------
(* Properties *)

(* However often a message is delivered, and whatever crashes, lost answers, *)
(* model failures and panel requests fall between its saves, the stored      *)
(* session is that of an agent that attends one message after the other: it  *)
(* does what the message asks before it answers, answers once, and leaves no *)
(* stored call unanswered but the dead letters.  What it does, it does once  *)
(* (README.md: retries go on "sin duplicar decisiones"), with one exception: *)
(* a requirement leaves no receipt and is carried out again by every retry   *)
(* until its reply is stored.                                                *)
Promised ==
  INSTANCE Conversation WITH conversation <- log, effects <- carried, at <- head,
                             Repeatable <- Requirements

AttendsInOrder == Promised!Spec

(* routes.py: pending availability is merged before a command is executed,   *)
(* as the command's reply takes the messages out of the pending ones.  So a  *)
(* message that is no longer pending was read, or a reset discarded it on    *)
(* purpose, or the reply that closed it was one of those that are given in   *)
(* haste: to a requirement, and to a question for a habitual hour that       *)
(* nobody registered.                                                        *)
InHaste(id) == text[id].command \in Requirements \cup {"habitual"}

ClosedBy(i, j) ==
  /\ j > i
  /\ log[j].kind = "agent"
  /\ \A k \in DOMAIN log : k > i /\ log[k].kind = "agent" => j <= k

UnreadOnlyInHaste ==
  \A i \in DOMAIN log :
    log[i].kind = "human" /\ i > context /\ i \notin Pending =>
      \/ read[log[i].id] > 0
      \/ \E j \in DOMAIN log : ClosedBy(i, j) /\ InHaste(log[j].id)

(* No reply closes a message unread, a hasty one included.                   *)
AnsweredMeansRead ==
  \A i \in DOMAIN log :
    /\ log[i].kind = "human"
    /\ DOMAIN text[log[i].id].says # {}
    /\ i > context
    /\ i \notin Pending
    => read[log[i].id] > 0

(* OPERACION_PRODUCCION.md: the backend "reproduce el resultado ya guardado  *)
(* en vez de confirmar o extraer dos veces".                                 *)
ExtractedOnce == \A id \in Id : read[id] <= 1

(* README.md: the gateway retries "sin duplicar decisiones", and in          *)
(* OPERACION_PRODUCCION.md it repeats the result already saved.  So a retry  *)
(* that carries out a requirement again leaves the decision taken meanwhile. *)
RetryKeepsDecision ==
  [][RequireCommand /\ (\E i \in DOMAIN carried : carried[i].id = job.id)
       => session'.selected = session.selected]_vars

(* As long as the gateway goes on delivering the head of its queue, every    *)
(* message that calls the agent is answered in the conversation, or kept as  *)
(* a dead letter, whatever fails on the way.  The premise is the gateway's   *)
(* part: its queue keeps it while the connection stays (GatewayQueue), not   *)
(* after every reconnection (GatewayStall).                                  *)
KeepsDelivering == []<>(~At("idle") \/ head > LastId)

EveryCallAnswered ==
  KeepsDelivering =>
    \A id \in Id :
      Stored(id) /\ text[id].invokes ~> Replied(id) \/ id \in dead
=============================================================================
