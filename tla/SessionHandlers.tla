--------------------------- MODULE SessionHandlers ---------------------------
(***************************************************************************)
(* What one coordination session stores, and the body of every handler of  *)
(* backend/app/services/session_service.py that changes its schedule, its  *)
(* proposal or its decision.  A handler reads the session with get(), works *)
(* on that copy and saves it once, under the session's lock: here it is an  *)
(* operator from the stored session to the one it saves.  A handler that    *)
(* answers 400, 404 or 409 has run get() only: it saves Loaded(s).          *)
(*                                                                         *)
(* Left out: messages, insights, the availability matrix (a function of the *)
(* people, recomputed with the options), titles, users and the channel.     *)
(***************************************************************************)
EXTENDS DecisionEngine, Sequences

CONSTANT Aliases   \* pairs <<p, q>>, p listed first: two channel identities
                   \* (phone number and LID) that belong to one human

Paired == {pair[1] : pair \in Aliases} \cup {pair[2] : pair \in Aliases}

ASSUME SessionAssumption ==
  /\ Aliases \subseteq Person \X Person
  /\ \A pair \in Aliases : pair[1] < pair[2]
  /\ \A a, b \in Aliases : a # b => {a[1], a[2]} \cap {b[1], b[2]} = {}

NameSet == {NameOf[p] : p \in Person}

\* A stored option.  The code's random id is the pair of `born`, the revision
\* that first published this alternative, and its hour.
Option == [born : Nat, rank : Nat, hour : Hour, with : SUBSET NameSet,
           without : SUBSET NameSet, coverage : Nat, met : BOOLEAN]

\* The sessions with a given participant list.
SessionWith(people) ==
  [people   : {people},
   members  : SUBSET Person,        \* group_participant_ids
   reported : Nat,                  \* group_participant_count
   aliases  : SUBSET Aliases,       \* evidence in channel_messages
   options  : SUBSET Option,
   missing  : BOOLEAN,              \* missing_info # []
   doubtful : BOOLEAN,              \* last_processing blocks a decision
   revision : Nat,                  \* proposal_revision
   selected : SUBSET Option,        \* selected_option: {} for None
   summary  : SUBSET Hour,          \* decision_summary
   event    : SUBSET Hour,          \* selected_calendar_event, _date
   history  : Seq(Option),          \* decision_history
   status   : {"draft", "calculated", "confirmed"},
   archived : BOOLEAN]

IsSession(s) == IsRoster(s.people) /\ s \in SessionWith(s.people)

NewSession ==
  [people |-> [p \in {} |-> 0], members |-> {}, reported |-> 0,
   aliases |-> {}, options |-> {}, missing |-> FALSE, doubtful |-> FALSE,
   revision |-> 0, selected |-> {}, summary |-> {}, event |-> {},
   history |-> <<>>, status |-> "draft", archived |-> FALSE]

GroupCount(s) == Max({s.reported, Cardinality(s.members)})

Decided(s) == s.selected # {} /\ s.summary # {}

SameId(o1, o2) == o1.born = o2.born /\ o1.hour = o2.hour

-----------------------------------------------------------------------------
(* The participant list *)

NewPerson == [avail |-> {}, required |-> FALSE, priority |-> 0,
              rosterOnly |-> FALSE]

PersonOf(people, p) == IF p \in DOMAIN people THEN people[p] ELSE NewPerson

\* find_participant and the requirements look a name up: the first listed of
\* its bearers is meant.  A name nobody bears is p's own, new record.
Namesakes(people, p) == {q \in DOMAIN people : NameOf[q] = NameOf[p]}

Bearer(people, p) ==
  IF Namesakes(people, p) = {} THEN p ELSE Min(Namesakes(people, p))

Put(people, p, r) ==
  [q \in DOMAIN people \cup {p} |-> IF q = p THEN r ELSE people[q]]

\* Mutant: the slots of the absorbed record are dropped.
MergedForgetting(people, aliases) ==
  LET absorbed == {pair \in aliases : {pair[1], pair[2]} \subseteq DOMAIN people}
  IN  [p \in DOMAIN people \ {pair[2] : pair \in absorbed} |-> people[p]]

\* merge_duplicate_participants, once the evidence has given both records the
\* same identities: the first keeps its marks, the second only its slots.
Merged(people, aliases) ==
  LET absorbed == {pair \in aliases : {pair[1], pair[2]} \subseteq DOMAIN people}
      Twin(p)  == {pair[2] : pair \in {a \in absorbed : a[1] = p}}
  IN  [p \in DOMAIN people \ {pair[2] : pair \in absorbed} |->
         [people[p] EXCEPT
            !.avail = @ \cup UNION {people[q].avail : q \in Twin(p)},
            !.rosterOnly = @ /\ \A q \in Twin(p) : people[q].rosterOnly]]

\* The code finds p under its own identity: it is listed, or no record that
\* already carries p's identities is.
Resolves(s, p) ==
  \/ p \in DOMAIN s.people
  \/ \A pair \in s.aliases :
       p \in {pair[1], pair[2]} => {pair[1], pair[2]} \cap DOMAIN s.people = {}

-----------------------------------------------------------------------------
(* get(): every handler starts with it *)

\* The current matrix cell's names replace the names of a stored option.
Relabelled(people, o) ==
  [o EXCEPT !.with = AvailableNames(people, o.hour),
            !.without = UnavailableNames(people, o.hour)]

Loaded(s) ==
  LET people  == Merged(s.people, s.aliases)
      options == {Relabelled(people, o) : o \in s.options}
      chosen  == {Relabelled(people, o) : o \in s.selected}
      history == [i \in DOMAIN s.history |-> Relabelled(people, s.history[i])]
      changed == <<people, options, chosen, history>>
                   # <<s.people, s.options, s.selected, s.history>>
  IN  [s EXCEPT !.people = people, !.options = options, !.selected = chosen,
                !.history = history,
                !.missing = IF changed THEN Missing(people, GroupCount(s)) ELSE @]

-----------------------------------------------------------------------------
(* refresh_schedule_state *)

\* What option_signature compares, with the position in the list.
Signature(o) == [rank |-> o.rank, hour |-> o.hour, with |-> o.with,
                 without |-> o.without, coverage |-> o.coverage]

Content(options) == {Signature(o) : o \in options}

SameAlternative(o1, o2) ==
  [Signature(o1) EXCEPT !.rank = 0] = [Signature(o2) EXCEPT !.rank = 0]

\* The alternatives of the matrix; one that was already offered keeps its id.
Offer(people, count, previous, revision) ==
  {[born     |-> LET old == {x \in previous : SameAlternative(x, o)}
                 IN  IF old = {} THEN revision ELSE (CHOOSE x \in old : TRUE).born,
    rank     |-> o.rank, hour |-> o.hour, with |-> o.with,
    without  |-> o.without, coverage |-> o.coverage, met |-> o.met] :
      o \in Proposal(people, count)}

\* clear_stale_decision, and the same assignments of two other handlers.
Undecided(s) == [s EXCEPT !.selected = {}, !.summary = {}, !.event = {}]

\* clear_decision is true unless the caller knows that nothing changed.
Refreshed(s, clear) ==
  LET next == Offer(s.people, GroupCount(s), s.options, s.revision + 1)
  IN  [s EXCEPT
         !.missing  = Missing(s.people, GroupCount(s)),
         !.options  = next,
         !.revision = IF Content(next) = Content(s.options) THEN @ ELSE @ + 1,
         !.selected = IF clear THEN {} ELSE @,
         !.summary  = IF clear THEN {} ELSE @,
         !.event    = IF clear THEN {} ELSE @,
         !.status   = IF clear \/ @ # "confirmed"
                      THEN IF next = {} THEN "draft" ELSE "calculated"
                      ELSE @]

-----------------------------------------------------------------------------
(* The handlers *)

WithPeople(s, people) == [s EXCEPT !.people = people]

AddParticipant(s, p) ==
  LET l == Loaded(s)
      b == Bearer(l.people, p)
  IN  Refreshed(WithPeople(l, Put(l.people, b, PersonOf(l.people, b))), TRUE)

AddAvailability(s, p, slots) ==
  LET l == Loaded(s)
      b == Bearer(l.people, p)
      r == PersonOf(l.people, b)
  IN  Refreshed(
        WithPeople(l, Put(l.people, b, [r EXCEPT !.avail = @ \cup slots])), TRUE)

Without(people, gone) == [q \in DOMAIN people \ gone |-> people[q]]

\* Mutant: the decision taken with the person survives the removal.
RemoveParticipantKeeping(s, gone) ==
  LET l == Loaded(s)
  IN  Refreshed(WithPeople(l, Without(l.people, gone)), FALSE)

\* gone: the record with the identity mentioned in the chat, or all the records
\* with the name the panel gives.
RemoveParticipant(s, gone) ==
  LET l == Loaded(s)
  IN  Refreshed(WithPeople(l, Without(l.people, gone)), TRUE)

\* Mutant: the proposal is not recomputed.
ConfigureRequirementsOnly(s, p, required, priority) ==
  LET l == Loaded(s)
      b == Bearer(l.people, p)
  IN  WithPeople(l, Put(l.people, b, [l.people[b] EXCEPT !.required = required,
                                                         !.priority = priority]))

ConfigureRequirements(s, p, required, priority) ==
  LET l == Loaded(s)
      b == Bearer(l.people, p)
      r == [l.people[b] EXCEPT !.required = required, !.priority = priority]
  IN  Refreshed(WithPeople(l, Put(l.people, b, r)), TRUE)

ChiefPriority == 10

\* Mutant: everybody else loses one point instead of being capped.
PromotedDemoting(people, p) ==
  [q \in DOMAIN people |->
     [people[q] EXCEPT !.priority = IF q = p THEN ChiefPriority ELSE @ - 1]]

\* p gets the chief's priority, everybody else less.
Promoted(people, p) ==
  [q \in DOMAIN people |->
     [people[q] EXCEPT !.priority = IF q = p THEN ChiefPriority
                                    ELSE Min({@, ChiefPriority - 1})]]

\* The marker chief_participant_id itself is read by no rule of the backend.
AssignChief(s, p) ==
  LET l == Loaded(s)
  IN  Refreshed(WithPeople(l, Promoted(l.people, p)), TRUE)

\* hydrate_participant_roster: members nobody has heard of yet.
Hydrated(people, fresh) ==
  [p \in DOMAIN people \cup fresh |->
     IF p \in fresh THEN [NewPerson EXCEPT !.rosterOnly = TRUE] ELSE people[p]]

\* window: the working hours change too.  With every declared slot inside the
\* matrix, whatever the window, that only starts a recalculation.
ConfigureChannel(s, members, reported, window) ==
  LET l     == Loaded(s)
      fresh == {p \in members : p \notin DOMAIN l.people /\ Resolves(l, p)}
      c     == WithPeople([l EXCEPT !.members = members, !.reported = reported],
                          Hydrated(l.people, fresh))
  IN  IF window \/ fresh # {} \/ <<members, reported>> # <<l.members, l.reported>>
      THEN Refreshed(c, TRUE)
      ELSE l

\* One person's part of an extraction: slots declared (replacing the old ones
\* or not), slots implied on days of which nothing is known, slots withdrawn.
Entry == [declared : SUBSET Hour, replaces : BOOLEAN,
          implied : SUBSET Hour, removed : SUBSET Hour]

Updated(r, e) ==
  LET base  == IF e.replaces THEN e.declared ELSE r.avail \cup e.declared
      known == {DayOf(h) : h \in base}
  IN  [r EXCEPT
         !.avail = (base \cup {h \in e.implied : DayOf(h) \notin known}) \ e.removed,
         !.rosterOnly = @ /\ e.declared = {} /\ ~e.replaces]

\* The replacements of an extraction are a list of names: everybody of that
\* name who declares something in it has the old slots replaced.
ByName(x, p) ==
  [x[p] EXCEPT !.replaces =
     \/ @
     \/ x[p].declared # {} /\ \E q \in Namesakes(x, p) : x[q].replaces]

\* x: a function from the records the extraction's entries land on to these.
Extracted(people, x) ==
  [p \in DOMAIN people \cup DOMAIN x |->
     IF p \in DOMAIN x THEN Updated(PersonOf(people, p), ByName(x, p))
     ELSE people[p]]

\* Mutant: a message with no schedule in it clears the decision as well.
MergeExtractionClearing(s, x, doubtful) ==
  LET l == Loaded(s)
  IN  [Refreshed(WithPeople(l, Extracted(l.people, x)), TRUE)
       EXCEPT !.doubtful = doubtful]

MergeExtraction(s, x, doubtful) ==
  LET l == Loaded(s)
  IN  [Refreshed(WithPeople(l, Extracted(l.people, x)), DOMAIN x # {})
       EXCEPT !.doubtful = doubtful]

Calculate(s) ==
  LET l == Loaded(s)
  IN  [Refreshed(l, ~Decided(l)) EXCEPT
         !.status = IF Decided(l) THEN "confirmed" ELSE "calculated"]

\* Mutant: confirmation_blockers does not look at the required people.
BlockedIgnoringRequired(s, force) ==
  s.archived \/ (s.missing /\ ~force) \/ s.doubtful

\* confirmation_blockers
Blocked(s, force) ==
  \/ s.archived
  \/ s.missing /\ ~force
  \/ s.doubtful
  \/ /\ \E p \in DOMAIN s.people : s.people[p].required
     /\ \E o \in s.options : o.rank = 1 /\ ~o.met

Closed(s, o) ==
  [s EXCEPT !.selected = {o}, !.summary = {o.hour}, !.event = {o.hour},
            !.history = Append(@, o), !.status = "confirmed"]

\* Mutant: a double click appends the decision again.
ConfirmTwice(s, o, expected, force) ==
  LET l     == Loaded(s)
      found == {x \in l.options : SameId(x, o)}
  IN  IF \/ expected \notin {{}, {l.revision}}
         \/ found = {}
         \/ Blocked(l, force)
      THEN l
      ELSE Closed(l, CHOOSE x \in found : TRUE)

\* o: the option whose id the caller sends.  expected: the revision it saw, or
\* {} when it sends none.
Confirm(s, o, expected, force) ==
  LET l     == Loaded(s)
      found == {x \in l.options : SameId(x, o)}
  IN  IF \/ expected \notin {{}, {l.revision}}
         \/ found = {}
         \/ Decided(l) /\ \E x \in l.selected : SameId(x, o)
         \/ Blocked(l, force)
      THEN l
      ELSE Closed(l, CHOOSE x \in found : TRUE)

\* Mutant: the revision code of the command is not compared.
ExecuteConfirmAnyRevision(s, position, expected, force) ==
  LET c     == Calculate(s)
      found == {o \in c.options : o.rank = position}
  IN  IF Blocked(c, force) \/ found = {}
      THEN c
      ELSE Confirm(c, CHOOSE o \in found : TRUE, {}, force)

\* execute_confirm_command: "confirmar <position> R<expected>" from the chat.
ExecuteConfirm(s, position, expected, force) ==
  LET c     == Calculate(s)
      found == {o \in c.options : o.rank = position}
  IN  IF Blocked(c, force) \/ expected \notin {{}, {c.revision}} \/ found = {}
      THEN c
      ELSE Confirm(c, CHOOSE o \in found : TRUE, {c.revision}, force)

\* Mutant: the calendar event of the cancelled decision stays.
CancelDecisionOnly(s) ==
  LET l == Loaded(s)
  IN  [l EXCEPT !.selected = {}, !.summary = {},
                !.status = IF l.options = {} THEN "draft" ELSE "calculated"]

CancelDecision(s) ==
  LET l == Loaded(s)
  IN  [Undecided(l) EXCEPT
         !.status = IF l.options = {} THEN "draft" ELSE "calculated"]

Archive(s) == [Loaded(s) EXCEPT !.archived = TRUE]

Reopen(s) == [Loaded(s) EXCEPT !.archived = FALSE]

\* Mutant: revisions restart with the new coordination, as before the ABA fix.
ResetFromZero(s) ==
  [Undecided(Loaded(s)) EXCEPT
     !.people = [p \in {} |-> 0], !.options = {}, !.missing = FALSE,
     !.doubtful = FALSE, !.revision = 0, !.status = "draft", !.archived = FALSE]

\* Mutant: the new coordination starts with an empty audit.
ResetForgetting(s) ==
  [Undecided(Loaded(s)) EXCEPT
     !.people = [p \in {} |-> 0], !.options = {}, !.missing = FALSE,
     !.doubtful = FALSE, !.revision = @ + 1, !.history = <<>>,
     !.status = "draft", !.archived = FALSE]

\* reset_channel_context
Reset(s) ==
  [Undecided(Loaded(s)) EXCEPT
     !.people = [p \in {} |-> 0], !.options = {}, !.missing = FALSE,
     !.doubtful = FALSE, !.revision = @ + 1, !.status = "draft",
     !.archived = FALSE]

\* A channel message whose sender carries both identities of one human.
HearAliases(s, pair) == [Loaded(s) EXCEPT !.aliases = @ \cup {pair}]

-----------------------------------------------------------------------------
(* What the parts of one stored session owe each other *)

\* The five fields of a decision speak of one alternative.
Coherent(s) ==
  /\ s.status = "confirmed" <=> s.selected # {}
  /\ \A o \in s.selected :
       /\ s.selected = {o}
       /\ s.history # <<>>
       /\ SameId(s.history[Len(s.history)], o)
  /\ s.summary = {o.hour : o \in s.selected}
  /\ s.event = {o.hour : o \in s.selected}

\* The options and the notice of missing data are the engine's answer.
Fresh(s) ==
  /\ Content(s.options) = Content(Proposal(s.people, GroupCount(s)))
  /\ \A o \in s.options : o.met = RequiredMet(s.people, o.hour)
  /\ s.options # {} => s.missing = Missing(s.people, GroupCount(s))
=============================================================================
