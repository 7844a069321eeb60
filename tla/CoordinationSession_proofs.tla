----------------------- MODULE CoordinationSession_proofs -----------------------
(***************************************************************************)
(* Proofs about CoordinationSession: what the lemmas about one handler     *)
(* (SessionHandlers_proofs) say of every request, in any order and with    *)
(* any arguments.                                                          *)
(***************************************************************************)
EXTENDS CoordinationSession, SessionHandlers_proofs

-----------------------------------------------------------------------------
(* The theorems that hold whatever identities turn out to be one *)

LEMMA SeenType ==
  ASSUME NEW s, IsSession(s)
  PROVE  Seen(s) \in Glance
<1>1. s.options \in SUBSET Option /\ s.revision \in Nat
  BY DEF IsSession, SessionWith
<1>2. \A o \in Option :
        Signature(o) \in [rank : Nat, hour : Hour, with : SUBSET NameSet,
                          without : SUBSET NameSet, coverage : Nat]
  BY DEF Signature, Option
<1>3. QED
  BY <1>1, <1>2 DEF Seen, Content, Glance

IInv == Good(session) /\ view \in [Clients -> Glance]

LEMMA SavesSafe ==
  ASSUME IInv, NEW t, Safe(session, t), Saves(t)
  PROVE  IInv' /\ Extends(session, session')
BY DEF IInv, Saves, Safe

LEMMA InitIInv ==
  ASSUME Init
  PROVE  IInv
BY NewSessionGood, SeenType DEF Init, IInv, Good

LEMMA NextIInv ==
  ASSUME IInv, Next
  PROVE  IInv' /\ Extends(session, session')
<1>1. Good(session) /\ IsSession(session) /\ IsRoster(Loaded(session).people)
  BY LoadedRoster DEF IInv
<1>2. \A p \in DOMAIN Loaded(session).people : p \in Person
  BY <1>1 DEF IsRoster
<1>3. CASE Load
  BY <1>1, <1>3, LoadedSafe, SavesSafe DEF Load
<1>4. ASSUME NEW c \in Clients, Look(c)
      PROVE  IInv' /\ Extends(session, session')
  <2>1. session' = Loaded(session) /\ Safe(session, Loaded(session))
    BY <1>1, <1>4, LoadedSafe DEF Look
  <2>2. Seen(Loaded(session)) \in Glance
    BY <1>1, LoadedRoster, SeenType
  <2>3. view' \in [Clients -> Glance]
    BY <1>4, <2>2 DEF Look, IInv
  <2>4. QED
    BY <2>1, <2>3 DEF IInv, Safe
<1>5. CASE AddParticipantRequest
  BY <1>1, <1>5, AddParticipantSafe, SavesSafe DEF AddParticipantRequest
<1>6. CASE AddAvailabilityRequest
  BY <1>1, <1>6, AddAvailabilitySafe, SavesSafe, RequestAssumption
     DEF AddAvailabilityRequest, RequestAssumption
<1>7. CASE RemoveParticipantRequest
  BY <1>1, <1>7, RemoveParticipantSafe, SavesSafe DEF RemoveParticipantRequest
<1>8. CASE ConfigureRequirementsRequest
  BY <1>1, <1>8, ConfigureRequirementsSafe, SavesSafe, RequestAssumption
     DEF ConfigureRequirementsRequest, RequestAssumption
<1>9. CASE AssignChiefRequest
  BY <1>1, <1>9, AssignChiefSafe, SavesSafe DEF AssignChiefRequest
<1>10. CASE ConfigureChannelRequest
  BY <1>1, <1>10, ConfigureChannelSafe, SavesSafe, RequestAssumption
     DEF ConfigureChannelRequest, RequestAssumption
<1>11. CASE MergeExtractionRequest
  BY <1>1, <1>11, MergeExtractionSafe, SavesSafe, RequestAssumption
     DEF MergeExtractionRequest, RequestAssumption
<1>12. CASE CalculateRequest
  BY <1>1, <1>12, CalculateSafe, SavesSafe DEF CalculateRequest
<1>13. CASE ConfirmRequest
  BY <1>1, <1>13, ConfirmSafe, SavesSafe DEF ConfirmRequest
<1>14. ASSUME NEW c \in Clients, NEW position, NEW force,
              ConfirmShown(c, position, force)
       PROVE  IInv' /\ Extends(session, session')
  BY <1>1, <1>14, ExecuteConfirmSafe, SavesSafe DEF ConfirmShown
<1>15. CASE ConfirmCurrent
  BY <1>1, <1>15, ExecuteConfirmSafe, SavesSafe DEF ConfirmCurrent
<1>16. CASE CancelDecisionRequest
  BY <1>1, <1>16, CancelDecisionSafe, SavesSafe DEF CancelDecisionRequest
<1>17. CASE ArchiveRequest
  BY <1>1, <1>17, ArchivedSafe, SavesSafe DEF ArchiveRequest, Archive
<1>18. CASE ReopenRequest
  BY <1>1, <1>18, ArchivedSafe, SavesSafe DEF ReopenRequest, Reopen
<1>19. CASE ResetRequest
  BY <1>1, <1>19, ResetSafe, SavesSafe DEF ResetRequest
<1>20. CASE HearAliasesRequest
  BY <1>1, <1>20, HearAliasesSafe, SavesSafe DEF HearAliasesRequest
<1>21. QED
  BY <1>3, <1>4, <1>5, <1>6, <1>7, <1>8, <1>9, <1>10, <1>11, <1>12, <1>13,
     <1>14, <1>15, <1>16, <1>17, <1>18, <1>19, <1>20 DEF Next

LEMMA StutterIInv ==
  ASSUME IInv, UNCHANGED vars
  PROVE  IInv' /\ Extends(session, session')
<1>1. session' = session /\ view' = view
  BY DEF vars
<1>2. Extends(session, session)
  BY SameHistoryExtends DEF IInv, Good
<1>3. QED
  BY <1>1, <1>2 DEF IInv

LEMMA Inductive ==
  Spec => []IInv
<1>1. Init => IInv
  BY InitIInv
<1>2. IInv /\ [Next]_vars => IInv'
  BY NextIInv, StutterIInv
<1>3. QED
  BY <1>1, <1>2, PTL DEF Spec

(* Every request, in any order and with any arguments, leaves a session of   *)
(* the declared shape: schemas.py's types, and nobody outside Person.        *)
THEOREM Typed ==
  Spec => []TypeOK
<1>1. IInv => TypeOK
  BY DEF IInv, Good, TypeOK
<1>2. QED
  BY <1>1, Inductive, PTL

(* Option, summary, calendar event, status and last audit record of the      *)
(* decision always agree, for any number of people, cells and clients and    *)
(* even when get() merges two records of one human (session_service.py: the  *)
(* handlers assign these five fields in eight places).                       *)
THEOREM DecisionIsCoherent ==
  Spec => []DecisionCoherent
<1>1. IInv => DecisionCoherent
  BY DEF IInv, Good, DecisionCoherent
<1>2. QED
  BY <1>1, Inductive, PTL

(* No request removes, moves or replaces a recorded decision.                *)
THEOREM HistoryGrows ==
  Spec => HistoryOnlyGrows
<1>1. IInv /\ [Next]_vars =>
        [/\ Len(session'.history) >= Len(session.history)
         /\ \A i \in DOMAIN session.history :
              SameId(session'.history[i], session.history[i])]_vars
  BY NextIInv DEF Extends
<1>2. QED
  BY <1>1, Inductive, PTL DEF Spec, HistoryOnlyGrows

-----------------------------------------------------------------------------
(* What a decision rests on, whatever identities turn out to be one *)

\* Every request makes one of the few kinds of change.
LEMMA NextChanges ==
  ASSUME IInv, Next
  PROVE  Changes(session, session')
<1>1. Good(session) /\ IsSession(session) /\ IsRoster(Loaded(session).people)
  BY LoadedRoster DEF IInv
<1>2. \A p \in DOMAIN Loaded(session).people : p \in Person
  BY <1>1 DEF IsRoster
<1>3. CASE Load \/ \E c \in Clients : Look(c)
  BY <1>3, LoadedUntouched DEF Load, Look, Saves, Changes, Plain
<1>4. CASE AddParticipantRequest
  BY <1>1, <1>4, AddParticipantRenews
     DEF AddParticipantRequest, Saves, Changes, Plain
<1>5. CASE AddAvailabilityRequest
  BY <1>1, <1>5, AddAvailabilityRenews, RequestAssumption
     DEF AddAvailabilityRequest, RequestAssumption, Saves, Changes, Plain
<1>6. CASE RemoveParticipantRequest
  BY <1>1, <1>6, RemoveParticipantRenews
     DEF RemoveParticipantRequest, Saves, Changes, Plain
<1>7. CASE ConfigureRequirementsRequest
  BY <1>1, <1>7, ConfigureRequirementsRenews, RequestAssumption
     DEF ConfigureRequirementsRequest, RequestAssumption, Saves, Changes, Plain
<1>8. CASE AssignChiefRequest
  BY <1>1, <1>8, AssignChiefRenews DEF AssignChiefRequest, Saves, Changes, Plain
<1>9. CASE ConfigureChannelRequest
  BY <1>1, <1>9, ConfigureChannelPlain, LoadedUntouched, RequestAssumption
     DEF ConfigureChannelRequest, RequestAssumption, Saves, Changes, Plain
<1>10. CASE MergeExtractionRequest
  BY <1>1, <1>10, MergeExtractionPlain, RequestAssumption
     DEF MergeExtractionRequest, RequestAssumption, Saves, Changes, Plain
<1>11. CASE CalculateRequest
  BY <1>1, <1>11, CalculateRestates DEF CalculateRequest, Saves, Changes, Plain
<1>12. CASE ConfirmRequest
  BY <1>1, <1>12, ConfirmChanges DEF ConfirmRequest, Saves
<1>13. ASSUME NEW c \in Clients, NEW position, NEW force,
              ConfirmShown(c, position, force)
       PROVE  Changes(session, session')
  BY <1>1, <1>13, ExecuteChanges DEF ConfirmShown, Saves
<1>14. CASE ConfirmCurrent
  BY <1>1, <1>14, ExecuteChanges DEF ConfirmCurrent, Saves
<1>15. CASE CancelDecisionRequest
  BY <1>1, <1>15, CancelDecisionUntouched
     DEF CancelDecisionRequest, Saves, Changes, Plain
<1>16. CASE ArchiveRequest \/ ReopenRequest
  BY <1>1, <1>16, ArchivedUntouched
     DEF ArchiveRequest, ReopenRequest, Archive, Reopen, Saves, Changes, Plain
<1>17. CASE ResetRequest
  BY <1>1, <1>17, ResetRestarts DEF ResetRequest, Saves, Changes, Plain
<1>18. CASE HearAliasesRequest
  BY <1>1, <1>18, HearAliasesUntouched DEF HearAliasesRequest, Saves, Changes, Plain
<1>19. QED
  BY <1>3, <1>4, <1>5, <1>6, <1>7, <1>8, <1>9, <1>10, <1>11, <1>12, <1>13,
     <1>14, <1>15, <1>16, <1>17, <1>18 DEF Next

LEMMA SoundInductive ==
  Spec => [](IInv /\ Sound(session))
<1>1. Init => IInv /\ Sound(session)
  BY InitIInv DEF Init, NewSession, Sound, Backed, Informed, Covered
<1>2. IInv /\ Sound(session) /\ [Next]_vars => (IInv /\ Sound(session))'
  <2> SUFFICES ASSUME IInv, Sound(session), [Next]_vars
               PROVE  (IInv /\ Sound(session))'
    OBVIOUS
  <2>1. CASE Next
    <3>1. IInv' /\ Changes(session, session')
      BY <2>1, NextIInv, NextChanges
    <3>2. IsSession(session')
      BY <3>1 DEF IInv, Good
    <3>3. Sound(session')
      BY <3>1, <3>2, ChangesSound DEF IInv
    <3>4. QED
      BY <3>1, <3>3
  <2>2. CASE UNCHANGED vars
    BY <2>2, StutterIInv DEF vars
  <2>3. QED
    BY <2>1, <2>2
<1>3. QED
  BY <1>1, <1>2, PTL DEF Spec

(* Where no two people bear one name, no decision leaves out a required      *)
(* person, whenever the requirement was set, even if the confirmation was    *)
(* forced and whatever records were merged: confirmation_blockers asks only  *)
(* the first option, and options_from_matrix never mixes options that have   *)
(* everybody required with options that lack somebody.  The hypothesis is    *)
(* needed: the handlers tell two people of one name apart                    *)
(* (find_participant), the engine does not.                                  *)
THEOREM RequiredCovered ==
  ASSUME DistinctNames
  PROVE  Spec => []DecisionCoversRequired
<1>1. IInv /\ Sound(session) => DecisionCoversRequired
  <2> SUFFICES ASSUME IInv, Sound(session),
                      NEW o \in session.selected,
                      NEW p \in DOMAIN session.people, session.people[p].required
               PROVE  o.hour \in session.people[p].avail
    BY DEF DecisionCoversRequired
  <2>1. IsRoster(session.people)
    BY DEF IInv, Good, IsSession
  <2>2. RequiredMet(session.people, o.hour)
    BY DEF Sound, Covered
  <2>3. QED
    BY <2>1, <2>2, MetMeansPresent
<1>2. QED
  BY <1>1, SoundInductive, PTL

\* A confirmation of the panel is not forced: the notice of missing data is
\* that of the people it decides for.
LEMMA ConfirmedComplete ==
  ASSUME IInv, Sound(session), ConfirmRequest,
         Len(session'.history) # Len(session.history)
  PROVE  ~Missing(session'.people, GroupCount(session'))
<1> DEFINE l == Loaded(session)
<1>1. PICK o, expected : session' = Confirm(session, o, expected, FALSE)
  BY DEF ConfirmRequest, Saves
<1>2. Sound(l) /\ Len(l.history) = Len(session.history)
  BY LoadedSound, LoadedMarks DEF IInv
<1>3. session' = l \/ Confirms(l, session', FALSE)
  BY <1>1, ConfirmDecides DEF IInv
<1> HIDE DEF l
<1>4. PICK x \in l.options : Decides(l, session', x) /\ ~Blocked(l, FALSE)
  BY <1>2, <1>3 DEF Confirms
<1>5. ~l.missing /\ l.missing = Missing(l.people, GroupCount(l))
  BY <1>2, <1>4 DEF Blocked, Sound, Informed
<1>6. QED
  BY <1>4, <1>5 DEF Decides, SameData

(* Whatever requests come in whatever order, a decision enters the audit     *)
(* only while the session is open and its last interpretation is not in      *)
(* doubt; it is never the standing decision again, and one confirmed by the  *)
(* panel has nobody's answer missing.                                        *)
THEOREM SoundDecisions ==
  Spec => DecisionsAreSound
<1>1. IInv /\ Sound(session) /\ [Next]_vars =>
        [Len(session'.history) # Len(session.history) =>
           /\ ~session.archived
           /\ ~session.doubtful
           /\ session'.selected # {}
           /\ \A o \in session.selected, c \in session'.selected : ~SameId(o, c)
           /\ ConfirmRequest => ~Missing(session'.people, GroupCount(session'))]_vars
  <2> SUFFICES ASSUME IInv, Sound(session), Next,
                      Len(session'.history) # Len(session.history)
               PROVE  /\ ~session.archived
                      /\ ~session.doubtful
                      /\ session'.selected # {}
                      /\ \A o \in session.selected, c \in session'.selected : ~SameId(o, c)
                      /\ ConfirmRequest => ~Missing(session'.people, GroupCount(session'))
    OBVIOUS
  <2>1. Changes(session, session')
    BY NextChanges
  <2>2. QED
    BY <2>1, DecisionsRecorded, ConfirmedComplete DEF IInv
<1>2. QED
  BY <1>1, SoundInductive, PTL DEF Spec, DecisionsAreSound

-----------------------------------------------------------------------------
(* Merging *)

\* A record that is absorbed leaves its slots to the one listed first.
LEMMA MergedAnswers ==
  ASSUME NEW people, IsRoster(people), NEW aliases \in SUBSET Aliases,
         NEW p \in DOMAIN people
  PROVE  \E q \in Human(p) \cap DOMAIN Merged(people, aliases) :
           /\ people[p].avail \subseteq Merged(people, aliases)[q].avail
           /\ \A pair \in aliases :
                q # pair[2] \/ pair[1] \notin DOMAIN Merged(people, aliases)
<1> DEFINE absorbed == {pair \in aliases : {pair[1], pair[2]} \subseteq DOMAIN people}
           Twin(q)  == {pair[2] : pair \in {a \in absorbed : a[1] = q}}
           More(q) == UNION {people[r].avail : r \in Twin(q)}
           Quiet(q) == people[q].rosterOnly /\ \A r \in Twin(q) : people[r].rosterOnly
           Dom == DOMAIN people \ {pair[2] : pair \in absorbed}
           merged == Merged(people, aliases)
<1>1. merged = [q \in Dom |-> [people[q] EXCEPT !.avail = @ \cup More(q),
                                                !.rosterOnly = Quiet(q)]]
  BY DEF Merged
<1>2. DOMAIN merged = Dom
  BY <1>1, Zenon
<1>3. ASSUME NEW pair \in aliases
      PROVE  /\ pair \in Aliases /\ pair[1] \in Person /\ pair[2] \in Person
             /\ pair = <<pair[1], pair[2]>> /\ pair[1] # pair[2]
             /\ \A a \in aliases : a # pair => {a[1], a[2]} \cap {pair[1], pair[2]} = {}
  <2>1. pair \in Person \X Person /\ pair[1] < pair[2]
    BY SessionAssumption DEF SessionAssumption
  <2>2. pair[1] \in Nat /\ pair[2] \in Nat
    BY <2>1, EngineAssumption DEF EngineAssumption
  <2>3. \A a \in aliases : a # pair => {a[1], a[2]} \cap {pair[1], pair[2]} = {}
    BY SessionAssumption DEF SessionAssumption
  <2>4. QED
    BY <2>1, <2>2, <2>3
<1>4. CASE p \in Dom
  <2>1. people[p].avail \subseteq merged[p].avail
    BY <1>2, <1>4, MergedKeeps
  <2>2. ASSUME NEW pair \in aliases, p = pair[2]
        PROVE  pair[1] \notin Dom
    BY <1>4, <2>2
  <2>3. p \in Human(p)
    BY DEF Human
  <2> HIDE DEF Dom, merged
  <2>4. QED
    BY <1>2, <1>4, <2>1, <2>2, <2>3 DEF merged
<1>5. CASE p \notin Dom
  <2>1. PICK pair \in absorbed : p = pair[2]
    BY <1>5
  <2> DEFINE q == pair[1]
  <2>2. pair \in aliases /\ q \in DOMAIN people
    BY <2>1
  <2>3. \A a \in aliases : q # a[2]
    BY <1>3, <2>2
  <2>4. q \in Dom
    BY <2>2, <2>3
  <2>5. q \in Human(p)
    <3>1. <<q, p>> \in Aliases /\ q \in Person
      BY <1>3, <2>1, <2>2
    <3>2. QED
      BY <3>1 DEF Human
  <2>6. people[p].avail \subseteq merged[q].avail
    <3>1. p \in Twin(q)
      BY <2>1
    <3>2. people[q] \in Participant
      BY <2>2 DEF IsRoster
    <3>3. people[p].avail \subseteq More(q)
      BY <3>1
    <3> HIDE DEF More, Quiet, Dom
    <3>4. merged[q] = [people[q] EXCEPT !.avail = @ \cup More(q),
                                        !.rosterOnly = Quiet(q)]
      BY <1>1, <2>4
    <3> HIDE DEF merged
    <3>5. QED
      BY <3>2, <3>3, <3>4 DEF Participant
  <2> HIDE DEF q, Dom, merged
  <2>7. QED
    BY <1>2, <2>3, <2>4, <2>5, <2>6 DEF merged
<1>6. QED
  BY <1>4, <1>5

(* When two records turn out to be one human, the next reader finds one      *)
(* record of that human with everything that either of them had declared     *)
(* (merge_duplicate_participants), for any people and any pairs.             *)
THEOREM AnswersMerge ==
  Spec => AnswersSurviveMerging
<1>1. IInv /\ [Next]_vars =>
        [Load =>
           \A p \in DOMAIN session.people :
             \E q \in Human(p) \cap DOMAIN session'.people :
               /\ session.people[p].avail \subseteq session'.people[q].avail
               /\ \A pair \in session.aliases :
                    q # pair[2] \/ pair[1] \notin DOMAIN session'.people]_vars
  <2> SUFFICES ASSUME IInv, Load, NEW p \in DOMAIN session.people
               PROVE  \E q \in Human(p) \cap DOMAIN session'.people :
                        /\ session.people[p].avail \subseteq session'.people[q].avail
                        /\ \A pair \in session.aliases :
                             q # pair[2] \/ pair[1] \notin DOMAIN session'.people
    OBVIOUS
  <2>1. IsSession(session)
    BY DEF IInv, Good
  <2>2. IsRoster(session.people) /\ session.aliases \in SUBSET Aliases
    BY <2>1 DEF IsSession, SessionWith
  <2>3. session'.people = Merged(session.people, session.aliases)
    BY <2>1, LoadedFields DEF Load, Saves
  <2>4. QED
    BY <2>2, <2>3, MergedAnswers
<1>2. QED
  BY <1>1, Inductive, PTL DEF Spec, AnswersSurviveMerging

-----------------------------------------------------------------------------
(* Proposals and revisions, while everybody is known by one identity.  With  *)
(* two identities the next reader merges them and publishes nothing: the     *)
(* options wait for the next change of data, so this does not hold.          *)

\* What a client saw is old, or still on offer.
Remembered ==
  \A c \in Clients :
    /\ view[c].revision <= session.revision
    /\ view[c].revision = session.revision =>
         view[c].content = Content(session.options)

SettledInv == IInv /\ Settled(session) /\ Remembered

LEMMA NewSettled ==
  Settled(NewSession)
<1>1. Content(NewSession.options) =
        Content(Proposal(NewSession.people, GroupCount(NewSession)))
  BY NobodyProposed DEF NewSession
<1>2. QED
  BY <1>1 DEF NewSession, Settled, Fresh

LEMMA SettledStep ==
  ASSUME Aliases = {}, SettledInv, [Next]_vars
  PROVE  SettledInv' /\ Marks(session, session')
<1>1. IsSession(session) /\ session.revision \in Nat
  BY DEF SettledInv, IInv, Good, IsSession, SessionWith
<1>2. CASE UNCHANGED vars
  <2>1. session' = session /\ view' = view
    BY <1>2 DEF vars
  <2>2. IInv' /\ Remembered'
    BY <1>2, <2>1, StutterIInv DEF SettledInv, Remembered
  <2>3. QED
    BY <1>1, <2>1, <2>2 DEF SettledInv, Marks
<1>3. CASE Next
  <2>1. IInv' /\ Changes(session, session')
    BY <1>3, NextIInv, NextChanges DEF SettledInv
  <2>2. IsSession(session') /\ session'.revision \in Nat
    BY <2>1 DEF IInv, Good, IsSession, SessionWith
  <2>3. Settled(session') /\ Marks(session, session')
    BY <2>1, <2>2, ChangesSettled DEF SettledInv, IInv
  <2>4. \A c \in Clients : view[c].revision \in Nat
    BY DEF SettledInv, IInv, Glance
  <2>5. ASSUME NEW c \in Clients
        PROVE  \/ view'[c] = view[c]
               \/ view'[c] = Seen(session')
    <3>1. CASE \E d \in Clients : Look(d)
      BY <3>1 DEF Look, SettledInv, IInv
    <3>2. CASE ~ \E d \in Clients : Look(d)
      <4>1. UNCHANGED view
        BY <1>3, <3>2
           DEF Next, Load, AddParticipantRequest, AddAvailabilityRequest,
               RemoveParticipantRequest, ConfigureRequirementsRequest,
               AssignChiefRequest, ConfigureChannelRequest,
               MergeExtractionRequest, CalculateRequest, ConfirmRequest,
               ConfirmShown, ConfirmCurrent, CancelDecisionRequest,
               ArchiveRequest, ReopenRequest, ResetRequest,
               HearAliasesRequest, Saves
      <4>2. QED
        BY <4>1
    <3>3. QED
      BY <3>1, <3>2
  <2>6. Remembered'
    <3> SUFFICES ASSUME NEW c \in Clients
                 PROVE  /\ view'[c].revision <= session'.revision
                        /\ view'[c].revision = session'.revision =>
                             view'[c].content = Content(session'.options)
      BY DEF Remembered
    <3>1. CASE view'[c] = Seen(session')
      BY <2>2, <3>1 DEF Seen
    <3>2. CASE view'[c] = view[c]
      BY <1>1, <2>2, <2>3, <2>4, <3>2 DEF Marks, SettledInv, Remembered
    <3>3. QED
      BY <2>5, <3>1, <3>2
  <2>7. QED
    BY <2>1, <2>3, <2>6 DEF SettledInv
<1>4. QED
  BY <1>2, <1>3

LEMMA SettledInductive ==
  ASSUME Aliases = {}
  PROVE  Spec => []SettledInv
<1>1. Init => SettledInv
  <2> SUFFICES ASSUME Init PROVE SettledInv
    OBVIOUS
  <2>1. IInv
    BY InitIInv
  <2>2. session = NewSession /\ \A c \in Clients : view[c] = Seen(NewSession)
    BY DEF Init
  <2>3. NewSession.revision \in Nat
    BY DEF NewSession
  <2>4. Remembered
    BY <2>2, <2>3 DEF Remembered, Seen
  <2>5. QED
    BY <2>1, <2>2, <2>4, NewSettled DEF SettledInv
<1>2. SettledInv /\ [Next]_vars => SettledInv'
  BY SettledStep
<1>3. QED
  BY <1>1, <1>2, PTL DEF Spec

(* After every request the options, and the notice of missing data, are the  *)
(* engine's answer for the people of that moment: every handler that touches *)
(* people ends in refresh_schedule_state, and no other one needs to.         *)
THEOREM FreshOptions ==
  ASSUME Aliases = {}
  PROVE  Spec => []OptionsFresh
<1>1. SettledInv => OptionsFresh
  BY DEF SettledInv, Settled, OptionsFresh
<1>2. QED
  BY <1>1, SettledInductive, PTL

(* A decision that stands is one of the options on offer, with its id: a     *)
(* change of data withdraws it, and a recalculation that changes nothing     *)
(* finds it again (option_signature).                                        *)
THEOREM Stands ==
  ASSUME Aliases = {}
  PROVE  Spec => []DecisionStands
<1>1. SettledInv => DecisionStands
  BY DEF SettledInv, Settled, DecisionStands
<1>2. QED
  BY <1>1, SettledInductive, PTL

(* proposal_revision never decreases, and the same revision is the same      *)
(* content, across confirmations, resets and everything else.                *)
THEOREM OneRevisionOneProposal ==
  ASSUME Aliases = {}
  PROVE  Spec => RevisionMarksEveryChange
<1>1. SettledInv /\ [Next]_vars =>
        [/\ session'.revision >= session.revision
         /\ session'.revision = session.revision =>
              Content(session'.options) = Content(session.options)]_vars
  BY SettledStep DEF Marks
<1>2. QED
  BY <1>1, SettledInductive, PTL DEF Spec, RevisionMarksEveryChange

-----------------------------------------------------------------------------
(* What a client closes, and what leaves the decision alone *)

\* A recalculation with nothing new publishes what was on offer.
LEMMA CalculateSettled ==
  ASSUME Aliases = {}, NEW s, Good(s), Settled(s)
  PROVE  /\ Good(Calculate(s)) /\ Settled(Calculate(s))
         /\ Calculate(s).selected = s.selected
         /\ Marks(s, Calculate(s))
<1> DEFINE l == Loaded(s)
           c == Calculate(s)
<1>1. Good(l) /\ Good(c) /\ IsSession(l) /\ IsSession(c)
  BY LoadedSafe, CalculateSafe DEF Safe, Good
<1>2. /\ Settled(l) /\ l.options = s.options
      /\ l.selected = s.selected /\ l.revision = s.revision
  BY LoadedSettled
<1>3. Restated(l, c)
  BY CalculateRestates
<1>4. Settled(c) /\ Marks(l, c)
  BY <1>1, <1>2, <1>3, PlainSettled DEF Plain
<1>5. c.selected = s.selected
  BY <1>2, <1>3 DEF Restated
<1>6. QED
  BY <1>1, <1>2, <1>4, <1>5 DEF Marks

LEMMA ShownCloses ==
  ASSUME Aliases = {}, SettledInv,
         NEW c \in Clients, NEW position \in Position, NEW force \in BOOLEAN,
         ConfirmShown(c, position, force),
         Len(session'.history) > Len(session.history)
  PROVE  \E shown \in view[c].content, o \in session'.selected :
           shown.rank = position /\ shown = Signature(o)
<1> DEFINE d == Calculate(session)
           l == Loaded(d)
           t == ExecuteConfirm(session, position, {view[c].revision}, force)
<1>1. session' = t
  BY DEF ConfirmShown, Saves
<1>2. Good(session) /\ Settled(session)
  BY DEF SettledInv, IInv
<1>3. Good(d) /\ Settled(d) /\ Marks(session, d)
  BY <1>2, CalculateSettled
<1>4. l.options = d.options
  BY <1>3, LoadedSettled
<1>5. Len(d.history) = Len(session.history) /\ Len(l.history) = Len(d.history)
  BY <1>2, <1>3, CalculateMarks, LoadedMarks
<1>6. Len(t.history) # Len(session.history)
  <2>1. Len(session.history) \in Nat /\ Len(session'.history) > Len(session.history)
    BY <1>2 DEF Good, IsSession, SessionWith
  <2>2. QED
    BY <2>1, <1>1
<1>7. t # d /\ t # l
  BY <1>5, <1>6
<1> HIDE DEF d, l, t
<1>8. /\ {view[c].revision} \in {{}, {d.revision}}
      /\ \E o \in d.options : \E x \in l.options :
           o.rank = position /\ SameId(x, o) /\ Decides(l, t, x)
  BY <1>2, <1>7, ExecuteConfirmChanges DEF d, l, t
<1>9. view[c].revision = d.revision
  BY <1>8
<1>10. view[c].content = Content(d.options)
  <2>1. /\ view[c].revision \in Nat /\ session.revision \in Nat
        /\ d.revision \in Nat
    BY <1>2, <1>3 DEF SettledInv, IInv, Glance, Good, IsSession, SessionWith
  <2>2. view[c].revision <= session.revision /\ d.revision >= session.revision
    BY <1>3 DEF SettledInv, Remembered, Marks
  <2>3. view[c].revision = session.revision
    BY <2>1, <2>2, <1>9
  <2>4. QED
    BY <2>3, <1>3, <1>9 DEF SettledInv, Remembered, Marks
<1>11. PICK o \in d.options, x \in l.options :
         o.rank = position /\ SameId(x, o) /\ Decides(l, t, x)
  BY <1>8
<1>12. x = o
  BY <1>3, <1>4, <1>11 DEF Settled, SameId
<1>13. Signature(o) \in view[c].content /\ o \in session'.selected
  BY <1>1, <1>10, <1>11, <1>12 DEF Content, Decides
<1>14. Signature(o).rank = position
  BY <1>11 DEF Signature
<1>15. QED
  BY <1>13, <1>14

(* "confirmar k Rn" closes what the client saw at place k of proposal n.     *)
(* execute_confirm_command recalculates first: if that publishes anything    *)
(* new the revision moves past n and the command is refused, and if it does  *)
(* not, revision n still means the content the client saw.                   *)
THEOREM ClosesWhatWasShown ==
  ASSUME Aliases = {}
  PROVE  Spec => ConfirmClosesWhatWasShown
<1>1. SettledInv /\ [Next]_vars =>
        [Len(session'.history) > Len(session.history) =>
           \A c \in Clients, position \in Position, force \in BOOLEAN :
             ConfirmShown(c, position, force) =>
               \E shown \in view[c].content, o \in session'.selected :
                 shown.rank = position /\ shown = Signature(o)]_vars
  BY ShownCloses
<1>2. QED
  BY <1>1, SettledInductive, PTL DEF Spec, ConfirmClosesWhatWasShown

LEMMA SilenceKeeps ==
  ASSUME Aliases = {}, SettledInv, SilentRequest
  PROVE  session'.selected = session.selected
<1> DEFINE l == Loaded(session)
<1>1. Good(session) /\ Settled(session)
  BY DEF SettledInv, IInv
<1>2. l.selected = session.selected
  BY <1>1, LoadedSettled
<1>3. CASE Load
  BY <1>2, <1>3 DEF Load, Saves
<1>4. CASE CalculateRequest
  BY <1>1, <1>4, CalculateSettled DEF CalculateRequest, Saves
<1>5. CASE ArchiveRequest
  <2>1. session' = [l EXCEPT !.archived = TRUE]
    BY <1>5 DEF ArchiveRequest, Archive, Saves
  <2>2. QED
    BY <1>1, <1>2, <2>1, ArchivedUntouched
<1>6. CASE ReopenRequest
  <2>1. session' = [l EXCEPT !.archived = FALSE]
    BY <1>6 DEF ReopenRequest, Reopen, Saves
  <2>2. QED
    BY <1>1, <1>2, <2>1, ArchivedUntouched
<1>7. ASSUME NEW doubtful \in BOOLEAN,
             Saves(MergeExtraction(session, [p \in {} |-> 0], doubtful))
      PROVE  session'.selected = session.selected
  <2> DEFINE x == [p \in {} |-> 0]
  <2>1. DOMAIN x = {}
    OBVIOUS
  <2>2. session' = MergeExtraction(session, x, doubtful)
    BY <1>7 DEF Saves
  <2> HIDE DEF x
  <2>3. Restated(l, session')
    BY <1>1, <2>1, <2>2, MergeExtractionPlain
  <2>4. QED
    BY <1>2, <2>3 DEF Restated
<1>8. QED
  BY <1>3, <1>4, <1>5, <1>6, <1>7 DEF SilentRequest

(* Reading, recalculating, archiving and a message without a schedule keep   *)
(* the decision.  calculate() clears it only when it was incomplete, which   *)
(* DecisionCoherent excludes.                                                *)
THEOREM SurvivesSilence ==
  ASSUME Aliases = {}
  PROVE  Spec => DecisionSurvivesSilence
<1>1. SettledInv /\ [Next]_vars =>
        [session'.selected # session.selected => ~SilentRequest]_vars
  BY SilenceKeeps
<1>2. QED
  BY <1>1, SettledInductive, PTL DEF Spec, DecisionSurvivesSilence
=============================================================================
