------------------------- MODULE CoordinationSession -------------------------
(***************************************************************************)
(* One coordination session shared by the panel, the chat and the gateway. *)
(* Every request takes the session's lock and runs one handler of          *)
(* SessionHandlers, so requests interleave whole.  A client remembers the  *)
(* proposal it last saw and may act on it much later: its confirmations    *)
(* race with every other change.                                           *)
(***************************************************************************)
EXTENDS SessionHandlers

CONSTANTS Clients,       \* whoever reads proposals and confirms what it saw
          Managed,       \* people whose marks a request may change
          SlotChoices,   \* sets of hours one request may add
          Priorities,    \* priorities one request may set
          Rosters,       \* group_participant_ids the gateway may report
          Reports,       \* group_participant_count it may report
          Extractions,   \* extractions the language model may return
          MaxRevision,   \* bound on proposal revisions explored
          MaxDecisions   \* bound on recorded decisions explored

ASSUME RequestAssumption ==
  /\ Managed \subseteq Person
  /\ SlotChoices \subseteq SUBSET Hour
  /\ Priorities \subseteq Nat
  /\ Rosters \subseteq SUBSET Person
  /\ Reports \subseteq Nat
  /\ \A x \in Extractions :
       /\ DOMAIN x \subseteq Person
       /\ \A p \in DOMAIN x : x[p] \in Entry
  /\ MaxRevision \in Nat
  /\ MaxDecisions \in Nat

VARIABLES session,   \* the stored session
          view       \* view[c]: the revision and the content client c last saw
vars == <<session, view>>

Glance == [revision : Nat,
           content  : SUBSET [rank : Nat, hour : Hour, with : SUBSET NameSet,
                              without : SUBSET NameSet, coverage : Nat]]

Seen(s) == [revision |-> s.revision, content |-> Content(s.options)]

TypeOK ==
  /\ IsSession(session)
  /\ view \in [Clients -> Glance]

Init ==
  /\ session = NewSession
  /\ view = [c \in Clients |-> Seen(NewSession)]

-----------------------------------------------------------------------------
(* One action per request; `view` only changes in Look. *)

Saves(s) ==
  /\ s.revision <= MaxRevision
  /\ Len(s.history) <= MaxDecisions
  /\ session' = s
  /\ UNCHANGED view

\* A panel request, a rejected request, or any read: get() and its save.
Load == Saves(Loaded(session))

\* The client reads the proposal.
Look(c) ==
  /\ session' = Loaded(session)
  /\ view' = [view EXCEPT ![c] = Seen(Loaded(session))]

AddParticipantRequest ==
  \E p \in Person \ Paired : Saves(AddParticipant(session, p))

AddAvailabilityRequest ==
  \E p \in Person \ Paired, slots \in SlotChoices :
    Saves(AddAvailability(session, p, slots))

RemoveParticipantRequest ==
  \E p \in DOMAIN Loaded(session).people :
    \E gone \in {{p}, Namesakes(Loaded(session).people, p)} :
      Saves(RemoveParticipant(session, gone))

ConfigureRequirementsRequest ==
  \E p \in Managed \cap DOMAIN Loaded(session).people, required \in BOOLEAN,
     priority \in Priorities :
    Saves(ConfigureRequirements(session, p, required, priority))

AssignChiefRequest ==
  \E p \in Managed \cap DOMAIN Loaded(session).people :
    Saves(AssignChief(session, p))

ConfigureChannelRequest ==
  \E members \in Rosters, reported \in Reports, window \in BOOLEAN :
    Saves(ConfigureChannel(session, members, reported, window))

MergeExtractionRequest ==
  \E x \in Extractions, doubtful \in BOOLEAN :
    /\ \A p \in DOMAIN x : Resolves(Loaded(session), p)
    /\ Saves(MergeExtraction(session, x, doubtful))

CalculateRequest == Saves(Calculate(session))

\* The panel sends the id of an option it shows and the revision it saw; other
\* callers of the API may leave the revision out.
ConfirmRequest ==
  \E o \in Loaded(session).options,
     expected \in {{}} \cup {{view[c].revision} : c \in Clients} :
    Saves(Confirm(session, o, expected, FALSE))

\* Positions a client may name; one more is like one that the list lacks.
Position == 1 .. Min({OptionLimit, NumHours})

\* "confirmar 2 R5": the position and the revision the client saw.
ConfirmShown(c, position, force) ==
  Saves(ExecuteConfirm(session, position, {view[c].revision}, force))

\* "confirmar 2": the position in the proposal of the moment.
ConfirmCurrent ==
  \E position \in Position, force \in BOOLEAN :
    Saves(ExecuteConfirm(session, position, {}, force))

CancelDecisionRequest ==
  /\ session.selected # {} \/ session.summary # {}
  /\ Saves(CancelDecision(session))

ArchiveRequest == Saves(Archive(session))

ReopenRequest == Saves(Reopen(session))

ResetRequest == Saves(Reset(session))

HearAliasesRequest ==
  \E pair \in Aliases : Saves(HearAliases(session, pair))

Next ==
  \/ Load
  \/ \E c \in Clients : Look(c)
  \/ AddParticipantRequest
  \/ AddAvailabilityRequest
  \/ RemoveParticipantRequest
  \/ ConfigureRequirementsRequest
  \/ AssignChiefRequest
  \/ ConfigureChannelRequest
  \/ MergeExtractionRequest
  \/ CalculateRequest
  \/ ConfirmRequest
  \/ \E c \in Clients, position \in Position, force \in BOOLEAN :
       ConfirmShown(c, position, force)
  \/ ConfirmCurrent
  \/ CancelDecisionRequest
  \/ ArchiveRequest
  \/ ReopenRequest
  \/ ResetRequest
  \/ HearAliasesRequest

Spec == Init /\ [][Next]_vars

-----------------------------------------------------------------------------
(* Properties *)

(* The five fields of a decision (option, summary, calendar event, status    *)
(* and the audit record) speak of one and the same alternative, in whatever  *)
(* order decisions were confirmed, replaced, cancelled, invalidated by new   *)
(* data or reset: the panel, the .ics file and the reply never disagree.     *)
DecisionCoherent == Coherent(session)

(* The options on offer, and the notice that data is missing, are always the *)
(* engine's answer for the current people: no handler leaves them behind.    *)
OptionsFresh == Fresh(session)

(* A standing decision is one of the options on offer: what was decided is   *)
(* withdrawn as soon as the data it rests on changes (ARQUITECTURA.md, "la   *)
(* decision se limpia y queda pendiente de reconfirmacion").                 *)
DecisionStands == session.selected \subseteq session.options

(* No decision leaves out a required person, whenever the requirement was    *)
(* set and even when the coordinator forced the confirmation.  Only where no *)
(* two people listed bear one name: the engine looks the required ones up by *)
(* name, and a namesake who can come stands in for the one who cannot        *)
(* (EngineHomonyms).                                                         *)
DecisionCoversRequired ==
  \A o \in session.selected, p \in DOMAIN session.people :
    session.people[p].required => o.hour \in session.people[p].avail

(* One revision, one proposal: revisions never decrease, not even across a   *)
(* reset, and as long as the revision stays the content of the alternatives  *)
(* stays.  So a code "R5" seen long ago is either refused or means the same. *)
RevisionMarksEveryChange ==
  [][/\ session'.revision >= session.revision
     /\ session'.revision = session.revision =>
          Content(session'.options) = Content(session.options)]_vars

(* "confirmar k Rn" closes the alternative the client saw at place k of the  *)
(* proposal n, with the same attendees, however many changes came between.   *)
ConfirmClosesWhatWasShown ==
  [][Len(session'.history) > Len(session.history) =>
       \A c \in Clients, position \in Position, force \in BOOLEAN :
         ConfirmShown(c, position, force) =>
           \E shown \in view[c].content, o \in session'.selected :
             shown.rank = position /\ shown = Signature(o)]_vars

(* A decision enters the audit history only while the session is open, its   *)
(* last interpretation is not in doubt and, unless it is forced, nobody's    *)
(* answer is missing; a repeated confirmation adds no record.                *)
DecisionsAreSound ==
  [][Len(session'.history) # Len(session.history) =>
       /\ ~session.archived
       /\ ~session.doubtful
       /\ session'.selected # {}
       /\ \A o \in session.selected, c \in session'.selected : ~SameId(o, c)
       /\ ConfirmRequest => ~Missing(session'.people, GroupCount(session'))]_vars

(* The audit history only grows: no request, not even a reset, removes,      *)
(* reorders or moves a recorded decision.                                    *)
HistoryOnlyGrows ==
  [][/\ Len(session'.history) >= Len(session.history)
     /\ \A i \in DOMAIN session.history :
          SameId(session'.history[i], session.history[i])]_vars

(* Reading, recalculating, archiving and messages that bring no schedule     *)
(* keep the decision (ARQUITECTURA.md, "Si el extractor no trae datos        *)
(* nuevos, una decision confirmada se conserva").                            *)
SilentRequest ==
  \/ Load \/ CalculateRequest \/ ArchiveRequest \/ ReopenRequest
  \/ \E doubtful \in BOOLEAN :
       Saves(MergeExtraction(session, [p \in {} |-> 0], doubtful))

DecisionSurvivesSilence ==
  [][session'.selected # session.selected => ~SilentRequest]_vars

(* The audit record of a decision is what was decided: its attendees are     *)
(* never rewritten.  reset_channel_context promises to start over "sin       *)
(* destruir el historial auditable del grupo".                               *)
AuditIsImmutable ==
  [][\A i \in DOMAIN session.history :
       session'.history[i] = session.history[i]]_vars

(* Two records that turn out to be one human are merged by the next reader,  *)
(* and nothing either of them declared is lost.                              *)
Human(p) == {p} \cup {q \in Person : <<p, q>> \in Aliases \/ <<q, p>> \in Aliases}

AnswersSurviveMerging ==
  [][Load =>
       \A p \in DOMAIN session.people :
         \E q \in Human(p) \cap DOMAIN session'.people :
           /\ session.people[p].avail \subseteq session'.people[q].avail
           /\ \A pair \in session.aliases : q # pair[2] \/ pair[1] \notin DOMAIN session'.people]_vars

(* A required person "debe estar si o si" (ARQUITECTURA.md): a human with a   *)
(* record marked as required stays required until a request changes marks,   *)
(* removes a record or resets the session.                                   *)
RequirementPersists ==
  [][\A p \in DOMAIN session.people :
       session.people[p].required =>
         \/ \E q \in Human(p) \cap DOMAIN session'.people :
              session'.people[q].required
         \/ ConfigureRequirementsRequest
         \/ RemoveParticipantRequest
         \/ ResetRequest]_vars

(* configure_participant_requirements says it clears the decision "si el     *)
(* resultado cambia": with the same options as before, the decision stands.  *)
UnchangedResultKeepsDecision ==
  [][/\ session'.selected # session.selected
     /\ Content(session'.options) = Content(session.options)
     => ~ConfigureRequirementsRequest]_vars
=============================================================================
