--------------------------- MODULE CalendarEvents ---------------------------
(***************************************************************************)
(* The calendar side of a decision: the dates of                           *)
(* backend/app/services/calendar_export.py, the organisation's Google      *)
(* account of google_calendar_service.py, and what the confirm handlers of *)
(* bff/routes.py do after the decision is saved: ask whether an account is *)
(* connected, create the event over HTTP, save the session again with its  *)
(* id.  The whole of it runs under the session's lock, in one process; the *)
(* account, the clock and Google change meanwhile.                         *)
(*                                                                         *)
(* A date and time is a number of ticks since a Monday at midnight, in the *)
(* zone of the deployment.  Left out: the end of the event, its texts and  *)
(* colour, what may block a confirmation (CoordinationSession).            *)
(***************************************************************************)
EXTENDS Integers, Sequences, FiniteSets, Functions

CONSTANTS DayTicks,     \* ticks of a day
          Offered,      \* the session's options
          LinkLife,     \* STATE_TTL_SECONDS, in ticks
          Origins,      \* moments at which a behaviour may begin
          LastTick,     \* bound: the clock
          MaxDecisions, \* bound: decisions of the session
          MaxEvents,    \* bound: events created at Google
          MaxLinks      \* bound: authorisation links

DaysPerWeek == 7
Workday == 0 .. 4       \* DAY_INDEX

OptionAt == [day : Workday, tick : 0 .. DayTicks - 1, week : Nat]

ASSUME CalendarAssumption ==
  /\ DayTicks \in Nat \ {0}
  /\ Offered \subseteq OptionAt
  /\ Origins \subseteq Nat
  /\ {LinkLife, LastTick, MaxDecisions, MaxEvents, MaxLinks} \subseteq Nat

-----------------------------------------------------------------------------
(* Dates *)

DayOf(t) == t \div DayTicks
Monday(t) == DayOf(t) - (DayOf(t) % DaysPerWeek)

\* Mutant: an hour of today that has passed is still offered for today.
EventStartToday(o, t) ==
  LET date == Monday(t) + DaysPerWeek * o.week + o.day
  IN  DayTicks * (IF o.week = 0 /\ date < DayOf(t) THEN date + DaysPerWeek
                  ELSE date) + o.tick

\* event_datetimes: the weeks count from the week that contains today, and an
\* hour of this week that has passed moves to the next one.
EventStart(o, t) ==
  LET start == DayTicks * (Monday(t) + DaysPerWeek * o.week + o.day) + o.tick
  IN  IF o.week = 0 /\ start <= t THEN start + DayTicks * DaysPerWeek ELSE start

-----------------------------------------------------------------------------
VARIABLES
  now,
  shown,      \* what the last proposal told the group: options with their start
  selected,   \* selected_option: {} for None
  event,      \* selected_calendar_event: {} for None
  history,    \* decision_history
  request,    \* the confirmation that holds the session's lock
  answer,     \* what the last confirmation was answered
  account,    \* the stored credential: {} for none
  pending,    \* _pending_states: link -> expiry
  exchanging, \* callbacks between the check of their link and the save
  connected,  \* times each link has connected an account
  google      \* the events of the calendar, in order of creation; id = index

session == <<shown, selected, event, history>>
oauth == <<pending, exchanging, connected>>
vars == <<now, session, request, answer, account, oauth, google>>

Credential == {"good", "revoked", "unreadable"}
Snapshot == [option : Offered, start : Nat, id : SUBSET (1 .. MaxEvents)]
Stages == {"idle", "saved", "connected", "authorised"}
Links == 1 .. MaxLinks

TypeOK ==
  /\ now \in Nat
  /\ shown \subseteq [option : Offered, start : Nat]
  /\ selected \subseteq Offered /\ Cardinality(selected) <= 1
  /\ event \subseteq Snapshot /\ Cardinality(event) <= 1
  /\ history \in Seq(Snapshot) /\ Len(history) <= MaxDecisions
  /\ request \in [stage : Stages, created : {{}}]
       \cup [stage : {"created"}, created : {{i} : i \in 1 .. MaxEvents}]
  /\ answer \in {"none", "confirmed", "failed"}
  /\ account \subseteq Credential /\ Cardinality(account) <= 1
  /\ DOMAIN pending \subseteq Links /\ \A l \in DOMAIN pending : pending[l] \in Nat
  /\ exchanging \subseteq Links
  /\ connected \in [Links -> Nat]
  /\ google \in Seq([option : Offered, start : Nat]) /\ Len(google) <= MaxEvents

Idle == [stage |-> "idle", created |-> {}]

Init ==
  /\ now \in Origins
  /\ shown = {}
  /\ selected = {} /\ event = {} /\ history = <<>>
  /\ request = Idle /\ answer = "none"
  /\ account \in {{}, {"good"}}
  /\ pending = [l \in {} |-> 0] /\ exchanging = {}
  /\ connected = [l \in Links |-> 0]
  /\ google = <<>>

-----------------------------------------------------------------------------
(* The session *)

Tick ==
  /\ now < LastTick
  /\ now' = now + 1
  /\ UNCHANGED <<session, request, answer, account, oauth, google>>

\* A reply with the current options, each with the date it stands for now.
Show ==
  /\ request = Idle
  /\ shown' = {[option |-> o, start |-> EventStart(o, now)] : o \in Offered}
  /\ UNCHANGED <<now, selected, event, history, request, answer, account, oauth,
                 google>>

\* confirm: the option that is already decided is answered from what is stored.
Confirm(o) ==
  LET snapshot == [option |-> o, start |-> EventStart(o, now), id |-> {}]
  IN  /\ request = Idle
      /\ \/ /\ selected = {o}
            /\ UNCHANGED <<selected, event, history>>
         \/ /\ selected # {o}
            /\ Len(history) < MaxDecisions
            /\ selected' = {o}
            /\ event' = {snapshot}
            /\ history' = Append(history, snapshot)
      /\ request' = [Idle EXCEPT !.stage = "saved"]
      /\ UNCHANGED <<now, shown, answer, account, oauth, google>>

\* Mutant: the calendar event of the cancelled decision is kept.
CancelOnly ==
  /\ request = Idle
  /\ selected # {}
  /\ selected' = {}
  /\ UNCHANGED <<now, shown, event, history, request, answer, account, oauth,
                 google>>

\* cancel_decision, and every change of the schedule (clear_stale_decision):
\* nothing is told to Google.
Cancel ==
  /\ request = Idle
  /\ selected # {}
  /\ selected' = {} /\ event' = {}
  /\ UNCHANGED <<now, shown, history, request, answer, account, oauth, google>>

-----------------------------------------------------------------------------
(* After the confirmation: maybe_attach_google_calendar_event *)

Answer(a) == request' = Idle /\ answer' = a

\* is_connected
CheckAccount ==
  /\ request.stage = "saved"
  /\ IF account = {}
     THEN Answer("confirmed")
     ELSE request' = [Idle EXCEPT !.stage = "connected"] /\ UNCHANGED answer
  /\ UNCHANGED <<now, session, account, oauth, google>>

\* create_event reads the credential again and asks for an access token.  A
\* refusal of Google is caught; a lost connection, or a credential that the
\* master key does not open, is not.
Authorise ==
  /\ request.stage = "connected"
  /\ \/ account \in {{}, {"revoked"}} /\ Answer("confirmed")
     \/ account = {"unreadable"} /\ Answer("failed")
     \/ account # {} /\ account # {"unreadable"} /\ Answer("failed")
     \/ /\ account = {"good"}
        /\ request' = [Idle EXCEPT !.stage = "authorised"]
        /\ UNCHANGED answer
  /\ UNCHANGED <<now, session, account, oauth, google>>

\* The event that create_event asks for.
Asked == LET decided == CHOOSE e \in event : TRUE
         IN  [option |-> decided.option, start |-> decided.start]

\* Mutant: the event before the new one.
PreviousId == Len(google)

\* The id Google answers with.
NewId == Len(google) + 1

\* The request reaches Google or not, and so does the answer.  One that cannot
\* be read, or is an error, is caught although the event may exist.
Create ==
  /\ request.stage = "authorised"
  /\ \/ Answer("confirmed") /\ UNCHANGED google
     \/ Answer("failed") /\ UNCHANGED google
     \/ /\ Len(google) < MaxEvents
        /\ google' = Append(google, Asked)
        /\ \/ /\ request' = [stage |-> "created", created |-> {NewId}]
              /\ UNCHANGED answer
           \/ Answer("confirmed")
           \/ Answer("failed")
  /\ UNCHANGED <<now, session, account, oauth>>

\* Mutant: the first decision of the history gets the event.
AttachFirst ==
  /\ request.stage = "created"
  /\ event' = {[e EXCEPT !.id = request.created] : e \in event}
  /\ history' = IF history = <<>> THEN history
                ELSE [history EXCEPT ![1].id = request.created]
  /\ Answer("confirmed")
  /\ UNCHANGED <<now, shown, selected, account, oauth, google>>

\* attach_google_calendar_event: the decision and its copy in the history.
Attach ==
  /\ request.stage = "created"
  /\ event' = {[e EXCEPT !.id = request.created] : e \in event}
  /\ history' = IF history = <<>> THEN history
                ELSE [history EXCEPT ![Len(history)].id = request.created]
  /\ Answer("confirmed")
  /\ UNCHANGED <<now, shown, selected, account, oauth, google>>

-----------------------------------------------------------------------------
(* The account *)

\* _prune_states
Alive(links) == Restrict(links, {l \in DOMAIN links : links[l] >= now})

\* authorization_url
NewLink(l) ==
  /\ l \notin DOMAIN pending \cup exchanging
  /\ connected[l] = 0
  /\ pending' = Alive([x \in DOMAIN pending \cup {l} |->
                         IF x = l THEN now + LinkLife ELSE pending[x]])
  /\ UNCHANGED <<now, session, request, answer, account, exchanging, connected,
                 google>>

\* _consume_state removes the link before anything is asked of Google.
Taken(l) == Restrict(Alive(pending), DOMAIN Alive(pending) \ {l})

\* handle_callback, up to the exchange of the code.  Any link may come back,
\* at any time and again: one that is not pending is refused.
BeginCallback(l) ==
  /\ pending' = Taken(l)
  /\ exchanging' = IF l \in DOMAIN Alive(pending) THEN exchanging \cup {l}
                   ELSE exchanging
  /\ UNCHANGED <<now, session, request, answer, account, connected, google>>

\* ... and after it: the account is saved only with a refresh token.
FinishCallback(l) ==
  /\ l \in exchanging
  /\ exchanging' = exchanging \ {l}
  /\ \/ UNCHANGED <<account, connected>>
     \/ account' = {"good"} /\ connected' = [connected EXCEPT ![l] = @ + 1]
  /\ UNCHANGED <<now, session, request, answer, pending, google>>

Disconnect ==
  /\ account' = {}
  /\ UNCHANGED <<now, session, request, answer, oauth, google>>

\* The owner of the account withdraws the permission at Google.
Revoke ==
  /\ account = {"good"}
  /\ account' = {"revoked"}
  /\ UNCHANGED <<now, session, request, answer, oauth, google>>

\* The process restarts, perhaps with another master key.
Restart ==
  /\ request' = Idle
  /\ answer' = IF request = Idle THEN answer ELSE "none"
  /\ pending' = [l \in {} |-> 0]
  /\ exchanging' = {}
  /\ account' \in {account, {"unreadable" : c \in account}}
  /\ UNCHANGED <<now, session, connected, google>>

Next ==
  \/ Tick
  \/ Show
  \/ \E o \in Offered : Confirm(o)
  \/ Cancel
  \/ CheckAccount
  \/ Authorise
  \/ Create
  \/ Attach
  \/ \E l \in Links : NewLink(l)
  \/ \E l \in Links : BeginCallback(l)
  \/ \E l \in Links : FinishCallback(l)
  \/ Disconnect
  \/ Revoke
  \/ Restart

Spec == Init /\ [][Next]_vars

-----------------------------------------------------------------------------
(* Properties *)

Same(snapshot, e) == snapshot.option = e.option /\ snapshot.start = e.start

\* What the session calls its event is the calendar's event of the decision in
\* force, the history says the same of it, no two decisions share an event,
\* and no event stands for something that was never decided.
EventIsTheDecisions ==
  /\ \A e \in event : /\ selected = {e.option}
                      /\ history # <<>> /\ history[Len(history)] = e
  /\ \A i \in DOMAIN history : \A id \in history[i].id :
       /\ id \in DOMAIN google /\ Same(history[i], google[id])
       /\ \A j \in DOMAIN history : id \in history[j].id => j = i
  /\ \A id \in DOMAIN google : \E i \in DOMAIN history : Same(history[i], google[id])

\* A decision is dated on the weekday and hour that were chosen, ahead of the
\* moment it is taken, and no earlier week would have done.
ConfirmedAhead ==
  [][Len(history') > Len(history) =>
       LET d == history'[Len(history')]
           earlier == d.start - DayTicks * DaysPerWeek
       IN  /\ d.start > now
           /\ DayOf(d.start) % DaysPerWeek = d.option.day
           /\ d.start % DayTicks = d.option.tick
           /\ d.option.week = 0 => earlier <= now]_vars

\* A link connects at most one account, however often and whenever it returns.
LinksWorkOnce == \A l \in Links : connected[l] <= 1

\* Refuted: a decision that was saved is answered as a confirmation, whatever
\* becomes of the calendar (a lost connection to Google is not caught).
AlwaysConfirmed == answer # "failed"

\* Refuted: a decision has at most one event (a repeated confirmation creates
\* another one, and a lost answer leaves one that nobody knows).
OneEventEach ==
  Len(google) <= Len(history)

\* Refuted: the date that is decided is the date the group was shown (options
\* carry weeks counted from today, and outlive the week).
ShownIsDecided ==
  [][\A s \in shown :
       Len(history') > Len(history) /\ history'[Len(history')].option = s.option
         => history'[Len(history')].start = s.start]_vars
=============================================================================
