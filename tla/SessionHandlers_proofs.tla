------------------------- MODULE SessionHandlers_proofs -------------------------
(***************************************************************************)
(* Facts about the engine, for every roster, and about the handlers, for   *)
(* every stored session.  A handler is an operator on stored sessions, so  *)
(* what it keeps is a lemma about that operator alone: the proofs about    *)
(* the requests of CoordinationSession and about the messages of           *)
(* ChannelPipeline, which call the same handlers, cite it.                 *)
(***************************************************************************)
EXTENDS SessionHandlers, EngineCases, FiniteSetTheorems, TLAPS

-----------------------------------------------------------------------------
(* The engine: numbers *)

LEMMA MaxOfTwo ==
  ASSUME NEW a \in Nat, NEW b \in Nat
  PROVE  Max({a, b}) \in Nat
BY DEF Max

LEMMA MaxOfThree ==
  ASSUME NEW a \in Nat, NEW b \in Nat, NEW c \in Nat
  PROVE  Max({a, b, c}) \in Nat /\ Max({a, b, c}) >= c
BY DEF Max

\* A finite set keeps being finite when its elements get their names.
LEMMA NamesFinite ==
  ASSUME NEW S \in SUBSET Person
  PROVE  /\ IsFiniteSet({NameOf[p] : p \in S})
         /\ Cardinality({NameOf[p] : p \in S}) \in Nat
<1>1. IsFiniteSet(S)
  BY EngineAssumption, FS_Subset DEF EngineAssumption
<1>2. [p \in S |-> NameOf[p]] \in Surjection(S, {NameOf[p] : p \in S})
  BY DEF Surjection
<1>3. IsFiniteSet({NameOf[p] : p \in S})
  BY <1>1, <1>2, FS_Surjection
<1>4. QED
  BY <1>3, FS_CardinalityType

LEMMA ListedFinite ==
  ASSUME NEW people, IsRoster(people)
  PROVE  Cardinality(DOMAIN people) \in Nat
BY EngineAssumption, FS_Subset, FS_CardinalityType DEF EngineAssumption, IsRoster

LEMMA PercentType ==
  ASSUME NEW a \in Nat, NEW b \in Nat, b >= 1
  PROVE  Percent(a, b) \in Nat
<1>1. (100 * a) \div b \in Nat /\ (100 * a) % b \in Nat
  OBVIOUS
<1>2. QED
  BY <1>1 DEF Percent

LEMMA CoverageType ==
  ASSUME NEW people, IsRoster(people), NEW count \in Nat, NEW h
  PROVE  Coverage(people, count, h) \in Nat
<1>1. Cardinality(AvailableNames(people, h)) \in Nat
  <2>1. {q \in DOMAIN people : h \in people[q].avail} \in SUBSET Person
    BY DEF IsRoster
  <2>2. QED
    BY <2>1, NamesFinite DEF AvailableNames
<1>2. Expected(people, count) \in Nat /\ Expected(people, count) >= 1
  BY ListedFinite, MaxOfThree DEF Expected
<1>3. QED
  BY <1>1, <1>2, PercentType DEF Coverage

LEMMA CellsFinite ==
  ASSUME NEW S \in SUBSET Hour
  PROVE  IsFiniteSet(S) /\ Cardinality(S) \in Nat
<1>1. IsFiniteSet(Hour)
  BY EngineAssumption, FS_Interval DEF EngineAssumption, Hour
<1>2. IsFiniteSet(S)
  BY <1>1, FS_Subset
<1>3. QED
  BY <1>2, FS_CardinalityType

LEMMA RepresentativesAreHours ==
  ASSUME NEW people
  PROVE  Representatives(people) \subseteq Hour
BY DEF Representatives, Pool, Scorable

\* A list has an end: every non-empty set of people has a first and a last one.
LEMMA EndsExist ==
  ASSUME NEW S \in SUBSET Person, S # {}
  PROVE  /\ \E p \in S : \A q \in S : q <= p
         /\ \E p \in S : \A q \in S : p <= q
<1> DEFINE Above(p) == {q \in S : p < q}
           Below(p) == {q \in S : q < p}
           R == StrictSubsetOrdering(S)
<1>1. S \subseteq Int
  BY EngineAssumption DEF EngineAssumption
<1>2. FiniteSubsetsOf(S) = SUBSET S
  BY EngineAssumption, FS_Subset DEF EngineAssumption, FiniteSubsetsOf
<1>3. IsWellFoundedOn(R, SUBSET S)
  BY <1>2, FS_StrictSubsetOrderingWellFounded
<1>4. \E p \in S : \A q \in S : q <= p
  <2> DEFINE Sets == {Above(p) : p \in S}
  <2>1. Sets \subseteq SUBSET S /\ Sets # {}
    OBVIOUS
  <2>2. PICK x \in Sets : \A y \in Sets : ~ (<<y, x>> \in R)
    <3> HIDE DEF Sets, R
    <3> QED BY <1>3, <2>1, WFMin
  <2>3. PICK p \in S : x = Above(p)
    OBVIOUS
  <2>4. ASSUME NEW q \in S, p < q PROVE FALSE
    <3>1. Above(q) \subseteq Above(p) /\ q \in Above(p) /\ q \notin Above(q)
      <4>1. p \in Int /\ q \in Int /\ (\A r \in S : r \in Int)
        BY <1>1
      <4>2. \A r \in S : q < r => p < r
        BY <2>4, <4>1
      <4>3. ~(q < q)
        BY <4>1
      <4>4. QED
        BY <2>4, <4>2, <4>3
    <3>2. <<Above(q), Above(p)>> \in R
      BY <3>1 DEF StrictSubsetOrdering
    <3>3. Above(q) \in Sets
      OBVIOUS
    <3> HIDE DEF R, Sets, Above
    <3>4. QED
      BY <2>2, <2>3, <3>2, <3>3
  <2>5. QED
    BY <1>1, <2>4
<1>5. \E p \in S : \A q \in S : p <= q
  <2> DEFINE Sets == {Below(p) : p \in S}
  <2>1. Sets \subseteq SUBSET S /\ Sets # {}
    OBVIOUS
  <2>2. PICK x \in Sets : \A y \in Sets : ~ (<<y, x>> \in R)
    <3> HIDE DEF Sets, R
    <3> QED BY <1>3, <2>1, WFMin
  <2>3. PICK p \in S : x = Below(p)
    OBVIOUS
  <2>4. ASSUME NEW q \in S, q < p PROVE FALSE
    <3>1. Below(q) \subseteq Below(p) /\ q \in Below(p) /\ q \notin Below(q)
      <4>1. p \in Int /\ q \in Int /\ (\A r \in S : r \in Int)
        BY <1>1
      <4>2. \A r \in S : r < q => r < p
        BY <2>4, <4>1
      <4>3. ~(q < q)
        BY <4>1
      <4>4. QED
        BY <2>4, <4>2, <4>3
    <3>2. <<Below(q), Below(p)>> \in R
      BY <3>1 DEF StrictSubsetOrdering
    <3>3. Below(q) \in Sets
      OBVIOUS
    <3> HIDE DEF R, Sets, Below
    <3>4. QED
      BY <2>2, <2>3, <3>2, <3>3
  <2>5. QED
    BY <1>1, <2>4
<1>6. QED
  BY <1>4, <1>5

LEMMA ScoreType ==
  ASSUME NEW people, IsRoster(people), NEW h \in Hour
  PROVE  WeightedScore(people, h) \in Nat
<1> DEFINE Names1 == AvailableNames(people, h)
           f == [n \in Names1 |-> {n} \X (1 .. WeightOf(people, n))]
           Blocks == {{n} \X (1 .. WeightOf(people, n)) : n \in Names1}
<1>1. ASSUME NEW n \in Names1
      PROVE  WeightOf(people, n) \in Nat
  <2> DEFINE bearers == {q \in DOMAIN people : NameOf[q] = n}
             last == CHOOSE r \in bearers : \A q \in bearers : q <= r
  <2>1. bearers # {} /\ bearers \in SUBSET Person
    BY <1>1 DEF AvailableNames, IsRoster
  <2>2. last \in bearers
    <3> HIDE DEF bearers
    <3> QED BY <2>1, EndsExist
  <2>3. people[last].priority \in Nat
    BY <2>2 DEF IsRoster, Participant
  <2>4. WeightOf(people, n)
          = IF people[last].priority > 0 THEN people[last].priority ELSE 1
    BY DEF WeightOf
  <2> HIDE DEF last
  <2>5. QED
    BY <2>3, <2>4
<1>2. IsFiniteSet(Names1)
  <2>1. {q \in DOMAIN people : h \in people[q].avail} \in SUBSET Person
    BY DEF IsRoster
  <2>2. QED
    BY <2>1, NamesFinite DEF AvailableNames
<1>3. IsFiniteSet(Blocks)
  <2>1. f \in Surjection(Names1, Blocks)
    BY DEF Surjection
  <2>2. QED
    BY <2>1, <1>2, FS_Surjection
<1>4. \A B \in Blocks : IsFiniteSet(B)
  <2>1. SUFFICES ASSUME NEW n \in Names1
                 PROVE  IsFiniteSet({n} \X (1 .. WeightOf(people, n)))
    OBVIOUS
  <2>2. IsFiniteSet({n})
    BY FS_Singleton
  <2>3. WeightOf(people, n) \in Int
    BY <1>1
  <2>4. IsFiniteSet(1 .. WeightOf(people, n))
    BY <2>3, FS_Interval
  <2>5. QED
    BY <2>2, <2>4, FS_Product
<1>5. IsFiniteSet(UNION Blocks)
  BY <1>3, <1>4, FS_UNION
<1>6. QED
  BY <1>5, FS_CardinalityType DEF WeightedScore

\* The ranking is a strict order on the cells.
LEMMA PrecedesTransitive ==
  ASSUME NEW people, IsRoster(people),
         NEW a \in Hour, NEW b \in Hour, NEW c \in Hour,
         Precedes(people, a, b), Precedes(people, b, c)
  PROVE  Precedes(people, a, c)
<1>1. /\ WeightedScore(people, a) \in Nat
      /\ WeightedScore(people, b) \in Nat
      /\ WeightedScore(people, c) \in Nat
  BY ScoreType
<1>2. a \in Int /\ b \in Int /\ c \in Int
  BY DEF Hour
<1>3. QED
  BY <1>1, <1>2 DEF Precedes

LEMMA PrecedesIrreflexive ==
  ASSUME NEW people, IsRoster(people), NEW a \in Hour
  PROVE  ~Precedes(people, a, a)
BY ScoreType DEF Precedes, Hour

LEMMA RankType ==
  ASSUME NEW people, NEW cells \in SUBSET Hour, NEW h
  PROVE  RankOf(people, cells, h) \in Nat
<1>1. {g \in cells : Precedes(people, g, h)} \in SUBSET Hour
  OBVIOUS
<1>2. QED
  BY <1>1, CellsFinite DEF RankOf

\* Some cell is ranked first.
LEMMA FirstExists ==
  ASSUME NEW people, IsRoster(people),
         NEW cells \in SUBSET Hour, cells # {}
  PROVE  \E h \in cells : RankOf(people, cells, h) = 1
<1> DEFINE Before(h) == {g \in cells : Precedes(people, g, h)}
           Heads == {Before(h) : h \in cells}
           R == StrictSubsetOrdering(cells)
<1>1. IsWellFoundedOn(R, FiniteSubsetsOf(cells))
  BY FS_StrictSubsetOrderingWellFounded
<1>2. Heads \subseteq FiniteSubsetsOf(cells) /\ Heads # {}
  BY CellsFinite DEF FiniteSubsetsOf
<1>3. PICK x \in Heads : \A y \in Heads : ~ (<<y, x>> \in R)
  <2> HIDE DEF Heads, R
  <2> QED
    BY <1>1, <1>2, WFMin
<1>4. PICK h \in cells : x = Before(h)
  OBVIOUS
<1>5. Before(h) = {}
  <2>1. SUFFICES ASSUME NEW g \in Before(h) PROVE FALSE
    OBVIOUS
  <2>2. Before(g) \subseteq Before(h)
    BY PrecedesTransitive
  <2>3. g \notin Before(g)
    BY PrecedesIrreflexive
  <2>4. <<Before(g), Before(h)>> \in R
    BY <2>1, <2>2, <2>3 DEF StrictSubsetOrdering
  <2>5. QED
    BY <2>4, <1>3, <1>4
<1>6. Cardinality(Before(h)) = 0
  BY <1>5, FS_EmptySet
<1>7. RankOf(people, cells, h) = 1 + Cardinality(Before(h))
  BY DEF RankOf
<1>8. QED
  BY <1>6, <1>7

-----------------------------------------------------------------------------
(* The list of options *)

LEMMA OptionShape ==
  ASSUME NEW people, NEW count, NEW o \in Proposal(people, count)
  PROVE  /\ o.hour \in Representatives(people)
         /\ o = [rank     |-> RankOf(people, Representatives(people), o.hour),
                 hour     |-> o.hour,
                 with     |-> AvailableNames(people, o.hour),
                 without  |-> UnavailableNames(people, o.hour),
                 coverage |-> Coverage(people, count, o.hour),
                 met      |-> RequiredMet(people, o.hour)]
<1> DEFINE cells == Representatives(people)
           place == [h \in cells |-> RankOf(people, cells, h)]
<1>1. PICK h \in cells :
        o = [rank     |-> place[h],
             hour     |-> h,
             with     |-> AvailableNames(people, h),
             without  |-> UnavailableNames(people, h),
             coverage |-> Coverage(people, count, h),
             met      |-> RequiredMet(people, h)]
  BY Zenon DEF Proposal
<1>2. place[h] = RankOf(people, cells, h)
  OBVIOUS
<1>3. QED
  BY <1>1, <1>2

LEMMA OptionInPool ==
  ASSUME NEW people, NEW count, NEW o \in Proposal(people, count)
  PROVE  o.hour \in Pool(people) /\ o.met = RequiredMet(people, o.hour)
<1>1. o.hour \in Representatives(people) /\ o.met = RequiredMet(people, o.hour)
  BY OptionShape
<1>2. QED
  BY <1>1 DEF Representatives

LEMMA ProposalType ==
  ASSUME NEW people, IsRoster(people), NEW count \in Nat,
         NEW o \in Proposal(people, count)
  PROVE  /\ o.rank \in Nat
         /\ o.hour \in Hour
         /\ o.coverage \in Nat
         /\ o.met \in BOOLEAN
<1>1. o.hour \in Hour
  BY OptionShape, RepresentativesAreHours
<1>2. RankOf(people, Representatives(people), o.hour) \in Nat
  BY RepresentativesAreHours, RankType
<1>3. Coverage(people, count, o.hour) \in Nat
  BY CoverageType
<1>4. RequiredMet(people, o.hour) \in BOOLEAN
  BY DEF RequiredMet
<1>5. QED
  BY <1>1, <1>2, <1>3, <1>4, OptionShape

\* An option is determined by its hour.
LEMMA OneOptionPerHour ==
  ASSUME NEW people, NEW count,
         NEW o1 \in Proposal(people, count), NEW o2 \in Proposal(people, count),
         o1.hour = o2.hour
  PROVE  o1 = o2
BY OptionShape

\* A non-empty list has a first option.
LEMMA FirstOption ==
  ASSUME NEW people, IsRoster(people), NEW count,
         Proposal(people, count) # {}
  PROVE  \E o \in Proposal(people, count) : o.rank = 1
<1> DEFINE cells == Representatives(people)
<1>1. cells # {}
  BY DEF Proposal
<1>2. PICK h \in cells : RankOf(people, cells, h) = 1
  BY <1>1, RepresentativesAreHours, FirstExists
<1> DEFINE o == [rank     |-> RankOf(people, cells, h),
                 hour     |-> h,
                 with     |-> AvailableNames(people, h),
                 without  |-> UnavailableNames(people, h),
                 coverage |-> Coverage(people, count, h),
                 met      |-> RequiredMet(people, h)]
<1>3. h \in {g \in cells : RankOf(people, cells, g) <= OptionLimit}
  BY <1>2 DEF OptionLimit
<1>4. o \in Proposal(people, count)
  BY <1>3 DEF Proposal
<1>5. o.rank = 1
  BY <1>2
<1>6. QED
  BY <1>4, <1>5

\* The requirement divides the lists, never the options of one list: either
\* all of them have every required person or none does.
LEMMA AllOrNoneMet ==
  ASSUME NEW people, NEW count,
         NEW o1 \in Proposal(people, count), NEW o2 \in Proposal(people, count)
  PROVE  o1.met = o2.met
<1>1. /\ o1.hour \in Pool(people) /\ o1.met = RequiredMet(people, o1.hour)
      /\ o2.hour \in Pool(people) /\ o2.met = RequiredMet(people, o2.hour)
  BY OptionInPool
<1>2. QED
  BY <1>1 DEF Pool, RequiredMet

\* An option said to include the required people includes every one of them.
LEMMA MetMeansPresent ==
  ASSUME NEW people, IsRoster(people), DistinctNames, NEW h,
         RequiredMet(people, h),
         NEW p \in DOMAIN people, people[p].required
  PROVE  h \in people[p].avail
BY DEF RequiredMet, RequiredNames, AvailableNames, DistinctNames, IsRoster

(* The fallback list, without some required person, is only offered when no  *)
(* cell at all has everybody required (options_from_matrix; ARQUITECTURA.md: *)
(* "Si existe al menos una opcion que cubre a todos los requeridos, SOLO se  *)
(* recomiendan esas").                                                       *)
THEOREM OnlyCoveringOptions ==
  ASSUME NEW people, IsRoster(people), DistinctNames, NEW count \in Nat,
         NEW h \in Hour, AvailableNames(people, h) # {},
         \A p \in DOMAIN people : people[p].required => h \in people[p].avail
  PROVE  \A o \in Proposal(people, count), p \in DOMAIN people :
           people[p].required => o.hour \in people[p].avail
<1>1. RequiredMet(people, h)
  BY DEF RequiredMet, RequiredNames, AvailableNames
<1>2. h \in Scorable(people)
  BY DEF Scorable
<1>3. SUFFICES ASSUME NEW o \in Proposal(people, count)
               PROVE  RequiredMet(people, o.hour)
  BY MetMeansPresent
<1>4. o.hour \in Pool(people)
  BY OptionInPool
<1>5. QED
  BY <1>1, <1>2, <1>4 DEF Pool

-----------------------------------------------------------------------------
(* Types *)

LEMMA GroupCountType ==
  ASSUME NEW s, IsSession(s)
  PROVE  GroupCount(s) \in Nat
<1>1. s.reported \in Nat /\ s.members \in SUBSET Person
  BY DEF IsSession, SessionWith
<1>2. Cardinality(s.members) \in Nat
  BY <1>1, EngineAssumption, FS_Subset, FS_CardinalityType DEF EngineAssumption
<1>3. QED
  BY <1>1, <1>2, MaxOfTwo DEF GroupCount

LEMMA LabelType ==
  ASSUME NEW people, IsRoster(people), NEW h
  PROVE  /\ AvailableNames(people, h) \in SUBSET NameSet
         /\ UnavailableNames(people, h) \in SUBSET NameSet
BY DEF AvailableNames, UnavailableNames, Names, NameSet, IsRoster

LEMMA OfferType ==
  ASSUME NEW people, IsRoster(people), NEW count \in Nat,
         NEW previous \in SUBSET Option, NEW revision \in Nat
  PROVE  Offer(people, count, previous, revision) \in SUBSET Option
<1> DEFINE Old(o) == {x \in previous : SameAlternative(x, o)}
           Born(o) == IF Old(o) = {} THEN revision
                      ELSE (CHOOSE x \in Old(o) : TRUE).born
<1>1. SUFFICES ASSUME NEW o \in Proposal(people, count)
               PROVE  [born |-> Born(o), rank |-> o.rank, hour |-> o.hour,
                       with |-> o.with, without |-> o.without,
                       coverage |-> o.coverage, met |-> o.met] \in Option
  BY DEF Offer
<1>2. Born(o) \in Nat
  BY DEF Option
<1>3. o.with \in SUBSET NameSet /\ o.without \in SUBSET NameSet
  BY OptionShape, LabelType
<1>4. QED
  BY <1>2, <1>3, ProposalType DEF Option

LEMMA MissingType ==
  ASSUME NEW people, NEW count
  PROVE  Missing(people, count) \in BOOLEAN
BY DEF Missing

LEMMA RefreshedFields ==
  ASSUME NEW s, IsSession(s), NEW clear \in BOOLEAN
  PROVE  LET r == Refreshed(s, clear)
             next == Offer(s.people, GroupCount(s), s.options, s.revision + 1)
         IN  /\ r.people = s.people /\ r.members = s.members
             /\ r.reported = s.reported /\ r.aliases = s.aliases
             /\ r.doubtful = s.doubtful /\ r.archived = s.archived
             /\ r.history = s.history
             /\ r.options = next
             /\ r.missing = Missing(s.people, GroupCount(s))
             /\ r.revision = IF Content(next) = Content(s.options)
                             THEN s.revision ELSE s.revision + 1
             /\ r.selected = IF clear THEN {} ELSE s.selected
             /\ r.summary = IF clear THEN {} ELSE s.summary
             /\ r.event = IF clear THEN {} ELSE s.event
             /\ r.status = IF clear \/ s.status # "confirmed"
                           THEN IF next = {} THEN "draft" ELSE "calculated"
                           ELSE s.status
BY DEF Refreshed, IsSession, SessionWith

LEMMA RefreshedType ==
  ASSUME NEW s, IsSession(s), NEW clear \in BOOLEAN
  PROVE  IsSession(Refreshed(s, clear))
<1> DEFINE r    == Refreshed(s, clear)
           next == Offer(s.people, GroupCount(s), s.options, s.revision + 1)
           miss == Missing(s.people, GroupCount(s))
           rev  == IF Content(next) = Content(s.options)
                   THEN s.revision ELSE s.revision + 1
           sel  == IF clear THEN {} ELSE s.selected
           sum  == IF clear THEN {} ELSE s.summary
           ev   == IF clear THEN {} ELSE s.event
           stat == IF clear \/ s.status # "confirmed"
                   THEN IF next = {} THEN "draft" ELSE "calculated"
                   ELSE s.status
<1>1. next \in SUBSET Option
  BY OfferType, GroupCountType DEF IsSession, SessionWith
<1>2. miss \in BOOLEAN
  BY MissingType
<1>3. /\ rev \in Nat /\ sel \in SUBSET Option /\ sum \in SUBSET Hour
      /\ ev \in SUBSET Hour /\ stat \in {"draft", "calculated", "confirmed"}
  BY DEF IsSession, SessionWith
<1>4. r = [s EXCEPT !.missing = miss, !.options = next, !.revision = rev,
                    !.selected = sel, !.summary = sum, !.event = ev,
                    !.status = stat]
  BY DEF Refreshed, IsSession, SessionWith
<1> HIDE DEF next, miss, rev, sel, sum, ev, stat, r
<1>5. r \in SessionWith(s.people)
  BY <1>1, <1>2, <1>3, <1>4 DEF IsSession, SessionWith
<1>6. r.people = s.people
  BY <1>5 DEF SessionWith
<1>7. QED
  BY <1>5, <1>6 DEF IsSession, r

LEMMA RelabelledShape ==
  ASSUME NEW people, IsRoster(people), NEW o \in Option
  PROVE  LET r == Relabelled(people, o)
         IN  /\ r \in Option
             /\ r.born = o.born /\ r.hour = o.hour /\ r.rank = o.rank
             /\ r.coverage = o.coverage /\ r.met = o.met
             /\ r.with = AvailableNames(people, o.hour)
             /\ r.without = UnavailableNames(people, o.hour)
<1>1. /\ AvailableNames(people, o.hour) \in SUBSET NameSet
      /\ UnavailableNames(people, o.hour) \in SUBSET NameSet
  BY LabelType
<1>2. QED
  BY <1>1 DEF Relabelled, Option

LEMMA MergedType ==
  ASSUME NEW people, IsRoster(people), NEW aliases \in SUBSET Aliases
  PROVE  IsRoster(Merged(people, aliases))
<1> DEFINE absorbed == {pair \in aliases : {pair[1], pair[2]} \subseteq DOMAIN people}
           Twin(p)  == {pair[2] : pair \in {a \in absorbed : a[1] = p}}
           Rec(p) == [people[p] EXCEPT
            !.avail = @ \cup UNION {people[q].avail : q \in Twin(p)},
            !.rosterOnly = @ /\ \A q \in Twin(p) : people[q].rosterOnly]
           Dom == DOMAIN people \ {pair[2] : pair \in absorbed}
<1>1. Merged(people, aliases) = [p \in Dom |-> Rec(p)]
  BY DEF Merged
<1>2. ASSUME NEW p \in Dom PROVE Rec(p) \in Participant
  <2>1. people[p] \in Participant
    BY DEF IsRoster
  <2>2. \A q \in Twin(p) : people[q] \in Participant
    BY DEF IsRoster
  <2>3. UNION {people[q].avail : q \in Twin(p)} \in SUBSET Hour
    BY <2>2 DEF Participant
  <2>4. (\A q \in Twin(p) : people[q].rosterOnly) \in BOOLEAN
    OBVIOUS
  <2> HIDE DEF Twin
  <2>5. QED
    BY <2>1, <2>3, <2>4 DEF Participant
<1>3. Dom \subseteq Person
  BY DEF IsRoster
<1> HIDE DEF Dom, Rec
<1>4. QED
  BY <1>1, <1>2, <1>3 DEF IsRoster

LEMMA LoadedFields ==
  ASSUME NEW s, IsSession(s)
  PROVE  LET l == Loaded(s)
             people == Merged(s.people, s.aliases)
         IN  /\ l.people = people
             /\ l.options = {Relabelled(people, o) : o \in s.options}
             /\ l.selected = {Relabelled(people, o) : o \in s.selected}
             /\ l.history = [i \in DOMAIN s.history |-> Relabelled(people, s.history[i])]
             /\ l.missing \in {s.missing, Missing(people, GroupCount(s))}
             /\ l.members = s.members /\ l.reported = s.reported
             /\ l.aliases = s.aliases /\ l.doubtful = s.doubtful
             /\ l.revision = s.revision /\ l.summary = s.summary
             /\ l.event = s.event /\ l.status = s.status
             /\ l.archived = s.archived
<1> DEFINE people  == Merged(s.people, s.aliases)
           options == {Relabelled(people, o) : o \in s.options}
           chosen  == {Relabelled(people, o) : o \in s.selected}
           history == [i \in DOMAIN s.history |-> Relabelled(people, s.history[i])]
           changed == <<people, options, chosen, history>>
                        # <<s.people, s.options, s.selected, s.history>>
           miss    == IF changed THEN Missing(people, GroupCount(s)) ELSE s.missing
<1>1. Loaded(s) = [s EXCEPT !.people = people, !.options = options,
                            !.selected = chosen, !.history = history,
                            !.missing = miss]
  BY DEF Loaded, IsSession, SessionWith
<1>2. miss \in {s.missing, Missing(people, GroupCount(s))}
  OBVIOUS
<1> HIDE DEF people, options, chosen, history, miss
<1>3. QED
  BY <1>1, <1>2 DEF IsSession, SessionWith, people, options, chosen, history

LEMMA LoadedType ==
  ASSUME NEW s, IsSession(s)
  PROVE  IsSession(Loaded(s))
<1> DEFINE people  == Merged(s.people, s.aliases)
           options == {Relabelled(people, o) : o \in s.options}
           chosen  == {Relabelled(people, o) : o \in s.selected}
           history == [i \in DOMAIN s.history |-> Relabelled(people, s.history[i])]
           changed == <<people, options, chosen, history>>
                        # <<s.people, s.options, s.selected, s.history>>
           miss    == IF changed THEN Missing(people, GroupCount(s)) ELSE s.missing
<1>1. Loaded(s) = [s EXCEPT !.people = people, !.options = options,
                            !.selected = chosen, !.history = history,
                            !.missing = miss]
  BY DEF Loaded, IsSession, SessionWith
<1>2. IsRoster(people)
  BY MergedType DEF IsSession, SessionWith
<1>3. options \in SUBSET Option /\ chosen \in SUBSET Option
  BY <1>2, RelabelledShape DEF IsSession, SessionWith
<1>4. history \in Seq(Option)
  <2>1. s.history \in Seq(Option)
    BY DEF IsSession, SessionWith
  <2>2. \A i \in DOMAIN s.history : Relabelled(people, s.history[i]) \in Option
    BY <1>2, <2>1, RelabelledShape
  <2>3. DOMAIN s.history = 1 .. Len(s.history) /\ Len(s.history) \in Nat
    BY <2>1
  <2> HIDE DEF people
  <2>4. QED
    BY <2>2, <2>3
<1>5. miss \in BOOLEAN
  BY MissingType DEF IsSession, SessionWith
<1> HIDE DEF people, options, chosen, history, miss
<1>6. Loaded(s) \in SessionWith(people)
  BY <1>1, <1>3, <1>4, <1>5, ZenonT(30) DEF IsSession, SessionWith
<1>7. Loaded(s).people = people
  BY <1>6 DEF SessionWith
<1>8. QED
  BY <1>2, <1>6, <1>7 DEF IsSession

\* A session whose people were replaced.
LEMMA PeopleChange ==
  ASSUME NEW l, IsSession(l), NEW people, IsRoster(people)
  PROVE  LET c == WithPeople(l, people)
         IN  /\ IsSession(c)
             /\ c.people = people
             /\ c.members = l.members /\ c.reported = l.reported
             /\ c.options = l.options /\ c.revision = l.revision
             /\ c.history = l.history /\ c.selected = l.selected
             /\ c.summary = l.summary /\ c.event = l.event
             /\ c.status = l.status /\ c.missing = l.missing
             /\ c.archived = l.archived /\ c.doubtful = l.doubtful
<1> DEFINE c == WithPeople(l, people)
<1>1. c \in SessionWith(people)
  BY DEF IsSession, SessionWith, WithPeople
<1>2. c.people = people
  BY <1>1 DEF SessionWith
<1>3. QED
  BY <1>1, <1>2 DEF IsSession, SessionWith, WithPeople

-----------------------------------------------------------------------------
(* What every handler preserves, whatever identities turn out to be one *)

Good(s) == IsSession(s) /\ Coherent(s)

\* Every decision recorded in s is recorded in t, at its place.
Extends(s, t) ==
  /\ Len(t.history) >= Len(s.history)
  /\ \A i \in DOMAIN s.history : SameId(t.history[i], s.history[i])

LEMMA ExtendsTransitive ==
  ASSUME NEW r, NEW s, NEW t, IsSession(r), IsSession(s), IsSession(t),
         Extends(r, s), Extends(s, t)
  PROVE  Extends(r, t)
<1>1. /\ r.history \in Seq(Option) /\ s.history \in Seq(Option)
      /\ t.history \in Seq(Option)
  BY DEF IsSession, SessionWith
<1>2. DOMAIN r.history \subseteq DOMAIN s.history
  BY <1>1 DEF Extends
<1>3. QED
  BY <1>1, <1>2 DEF Extends, SameId

LEMMA LoadedGood ==
  ASSUME NEW s, Good(s)
  PROVE  Good(Loaded(s)) /\ Extends(s, Loaded(s))
<1> DEFINE l == Loaded(s)
           people == Merged(s.people, s.aliases)
           Rel(o) == Relabelled(people, o)
<1>1. IsSession(s) /\ IsSession(l) /\ Coherent(s)
  BY LoadedType DEF Good
<1>2. /\ l.selected = {Rel(o) : o \in s.selected}
      /\ l.history = [i \in DOMAIN s.history |-> Rel(s.history[i])]
      /\ l.status = s.status /\ l.summary = s.summary /\ l.event = s.event
  BY <1>1, LoadedFields
<1>3. IsRoster(people)
  BY <1>1, MergedType DEF IsSession, SessionWith
<1>4. /\ s.history \in Seq(Option) /\ s.selected \in SUBSET Option
  BY <1>1 DEF IsSession, SessionWith
<1>5. \A o \in Option : Rel(o).born = o.born /\ Rel(o).hour = o.hour
  BY <1>3, RelabelledShape
<1> HIDE DEF l, people, Rel
<1>6. /\ DOMAIN l.history = DOMAIN s.history
      /\ \A i \in DOMAIN s.history : SameId(l.history[i], s.history[i])
  BY <1>2, <1>4, <1>5 DEF SameId
<1>7. Len(l.history) = Len(s.history)
  BY <1>1, <1>6 DEF IsSession, SessionWith
<1>8. Extends(s, l)
  BY <1>4, <1>6, <1>7 DEF Extends
<1>9. Coherent(l)
  <2>1. l.status = "confirmed" <=> l.selected # {}
    BY <1>1, <1>2 DEF Coherent
  <2>2. {o.hour : o \in l.selected} = {o.hour : o \in s.selected}
    BY <1>2, <1>4, <1>5
  <2>3. ASSUME NEW c \in l.selected
        PROVE  /\ l.selected = {c} /\ l.history # <<>>
               /\ SameId(l.history[Len(l.history)], c)
    <3>1. PICK o \in s.selected : c = Rel(o)
      BY <1>2
    <3>2. /\ s.selected = {o} /\ s.history # <<>>
          /\ SameId(s.history[Len(s.history)], o)
      BY <1>1 DEF Coherent
    <3>3. l.selected = {c}
      BY <1>2, <3>1, <3>2
    <3>4. Len(s.history) \in DOMAIN s.history
      BY <1>4, <3>2
    <3>5. SameId(c, o)
      BY <1>4, <1>5, <3>1 DEF SameId
    <3>6. QED
      BY <1>4, <1>6, <1>7, <3>2, <3>3, <3>4, <3>5 DEF SameId
  <2>4. QED
    BY <1>1, <1>2, <2>1, <2>2, <2>3 DEF Coherent
<1>10. QED
  BY <1>1, <1>8, <1>9 DEF Good, l

LEMMA SameHistoryExtends ==
  ASSUME NEW s, IsSession(s), NEW t, t.history = s.history
  PROVE  Extends(s, t)
BY DEF Extends, SameId, IsSession, SessionWith

\* clear_decision: nothing is left to contradict.
LEMMA RefreshedClearGood ==
  ASSUME NEW s, IsSession(s)
  PROVE  Good(Refreshed(s, TRUE)) /\ Extends(s, Refreshed(s, TRUE))
<1> DEFINE r == Refreshed(s, TRUE)
<1>1. /\ r.history = s.history
      /\ r.selected = {} /\ r.summary = {} /\ r.event = {}
      /\ r.status # "confirmed"
  BY RefreshedFields
<1>2. IsSession(r)
  BY RefreshedType
<1>3. Coherent(r)
  BY <1>1 DEF Coherent
<1>4. QED
  BY <1>1, <1>2, <1>3, SameHistoryExtends DEF Good

LEMMA RefreshedKeepGood ==
  ASSUME NEW s, Good(s)
  PROVE  Good(Refreshed(s, FALSE)) /\ Extends(s, Refreshed(s, FALSE))
<1> DEFINE r == Refreshed(s, FALSE)
<1>1. IsSession(s)
  BY DEF Good
<1>2. /\ r.history = s.history /\ r.selected = s.selected
      /\ r.summary = s.summary /\ r.event = s.event
      /\ r.status = "confirmed" <=> s.status = "confirmed"
  <2>1. /\ r.history = s.history /\ r.selected = s.selected
        /\ r.summary = s.summary /\ r.event = s.event
    BY <1>1, RefreshedFields, Zenon
  <2> DEFINE next == Offer(s.people, GroupCount(s), s.options, s.revision + 1)
             open == IF next = {} THEN "draft" ELSE "calculated"
  <2>2. r.status = IF FALSE \/ s.status # "confirmed" THEN open ELSE s.status
    BY <1>1, RefreshedFields, Zenon
  <2> HIDE DEF next
  <2> HIDE DEF r
  <2>3. QED
    BY <2>1, <2>2
<1>3. IsSession(r)
  BY <1>1, RefreshedType
<1> HIDE DEF r
<1>4. Coherent(r)
  BY <1>2 DEF Coherent, Good
<1>5. QED
  BY <1>1, <1>2, <1>3, <1>4, SameHistoryExtends DEF Good, r

LEMMA GoodIsSession ==
  ASSUME NEW s, Good(s)
  PROVE  IsSession(s)
BY DEF Good

\* The handlers that replace people and recompute.
LEMMA PeopleHandlerGood ==
  ASSUME NEW s, IsSession(s), NEW l, Good(l), Extends(s, l),
         NEW people, IsRoster(people)
  PROVE  LET t == Refreshed(WithPeople(l, people), TRUE)
         IN  Good(t) /\ Extends(s, t)
<1> DEFINE c == WithPeople(l, people)
<1>1. IsSession(c) /\ c.history = l.history
  BY GoodIsSession, PeopleChange
<1> HIDE DEF c
<1>2. Good(Refreshed(c, TRUE)) /\ Extends(c, Refreshed(c, TRUE))
  BY <1>1, RefreshedClearGood
<1>3. Extends(s, c)
  BY <1>1 DEF Extends
<1>4. Extends(s, Refreshed(c, TRUE))
  BY <1>1, <1>2, <1>3, GoodIsSession, ExtendsTransitive
<1>5. QED
  BY <1>2, <1>4 DEF c
-----------------------------------------------------------------------------
(* Participant lists *)

LEMMA RosterRecord ==
  ASSUME NEW people, IsRoster(people), NEW p
  PROVE  PersonOf(people, p) \in Participant
BY DEF PersonOf, NewPerson, Participant, IsRoster

LEMMA PutRoster ==
  ASSUME NEW people, IsRoster(people), NEW p \in Person, NEW r \in Participant
  PROVE  IsRoster(Put(people, p, r))
BY DEF Put, IsRoster

\* A name means a person: a listed one, as soon as somebody bears it.
LEMMA BearerType ==
  ASSUME NEW people, IsRoster(people), NEW p \in Person
  PROVE  /\ Bearer(people, p) \in Person
         /\ p \in DOMAIN people => Bearer(people, p) \in DOMAIN people
<1> DEFINE N == Namesakes(people, p)
<1>1. N \in SUBSET Person /\ N \subseteq DOMAIN people
      /\ (p \in DOMAIN people => p \in N)
  BY DEF Namesakes, IsRoster
<1>2. Bearer(people, p) = IF N = {} THEN p ELSE Min(N)
  BY DEF Bearer
<1> HIDE DEF N
<1>3. N # {} => Min(N) \in N
  BY <1>1, EndsExist DEF Min
<1>4. QED
  BY <1>1, <1>2, <1>3

LEMMA WithoutRoster ==
  ASSUME NEW people, IsRoster(people), NEW gone
  PROVE  IsRoster(Without(people, gone))
BY DEF Without, IsRoster

LEMMA EmptyRoster ==
  IsRoster([p \in {} |-> 0])
BY DEF IsRoster

LEMMA PromotedRoster ==
  ASSUME NEW people, IsRoster(people), NEW p
  PROVE  IsRoster(Promoted(people, p))
<1> DEFINE Top(q) == IF q = p THEN ChiefPriority
                     ELSE Min({people[q].priority, ChiefPriority - 1})
<1>1. ASSUME NEW q \in DOMAIN people
      PROVE  [people[q] EXCEPT !.priority = Top(q)] \in Participant
  <2>1. people[q] \in Participant
    BY DEF IsRoster
  <2>2. people[q].priority \in Nat
    BY <2>1 DEF Participant
  <2>3. ASSUME NEW a \in Nat PROVE Min({a, 9}) \in Nat
    BY DEF Min
  <2>4. Top(q) \in Nat
    BY <2>2, <2>3 DEF ChiefPriority
  <2> HIDE DEF Top
  <2>5. QED
    BY <2>1, <2>4 DEF Participant
<1>2. Promoted(people, p) = [q \in DOMAIN people |->
                               [people[q] EXCEPT !.priority = Top(q)]]
  BY DEF Promoted
<1> HIDE DEF Top
<1>3. QED
  BY <1>1, <1>2 DEF IsRoster

LEMMA HydratedRoster ==
  ASSUME NEW people, IsRoster(people), NEW fresh \in SUBSET Person
  PROVE  IsRoster(Hydrated(people, fresh))
BY DEF Hydrated, NewPerson, Participant, IsRoster

LEMMA UpdatedType ==
  ASSUME NEW r \in Participant, NEW e \in Entry
  PROVE  Updated(r, e) \in Participant
BY DEF Updated, Participant, Entry

LEMMA ExtractedRoster ==
  ASSUME NEW people, IsRoster(people), NEW x,
         DOMAIN x \subseteq Person, \A p \in DOMAIN x : x[p] \in Entry
  PROVE  IsRoster(Extracted(people, x))
<1>1. \A p \in DOMAIN x : ByName(x, p) \in Entry
  BY DEF ByName, Entry
<1>2. \A p \in DOMAIN x :
        Updated(PersonOf(people, p), ByName(x, p)) \in Participant
  BY <1>1, RosterRecord, UpdatedType
<1>3. QED
  BY <1>2 DEF Extracted, IsRoster

-----------------------------------------------------------------------------
(* Every handler turns good sessions into good ones and extends the history *)

Safe(s, t) == Good(t) /\ Extends(s, t)

LEMMA LoadedRoster ==
  ASSUME NEW s, Good(s)
  PROVE  /\ IsSession(s) /\ IsSession(Loaded(s)) /\ IsRoster(Loaded(s).people)
         /\ Good(Loaded(s)) /\ Extends(s, Loaded(s))
BY LoadedGood DEF Good, IsSession

LEMMA AddParticipantSafe ==
  ASSUME NEW s, Good(s), NEW p \in Person
  PROVE  Safe(s, AddParticipant(s, p))
BY LoadedRoster, BearerType, RosterRecord, PutRoster, PeopleHandlerGood
   DEF AddParticipant, Safe

LEMMA AddAvailabilitySafe ==
  ASSUME NEW s, Good(s), NEW p \in Person, NEW slots \in SUBSET Hour
  PROVE  Safe(s, AddAvailability(s, p, slots))
<1> DEFINE b == Bearer(Loaded(s).people, p)
           r == PersonOf(Loaded(s).people, b)
           n == [r EXCEPT !.avail = @ \cup slots]
<1>1. r \in Participant /\ b \in Person
  BY LoadedRoster, RosterRecord, BearerType
<1>2. n \in Participant
  BY <1>1 DEF Participant
<1> HIDE DEF n, r, b
<1>3. IsRoster(Put(Loaded(s).people, b, n))
  BY <1>1, <1>2, LoadedRoster, PutRoster
<1>4. QED
  BY <1>3, LoadedRoster, PeopleHandlerGood DEF AddAvailability, Safe, n, r, b

LEMMA RemoveParticipantSafe ==
  ASSUME NEW s, Good(s), NEW gone
  PROVE  Safe(s, RemoveParticipant(s, gone))
BY LoadedRoster, WithoutRoster, PeopleHandlerGood DEF RemoveParticipant, Safe

LEMMA ConfigureRequirementsSafe ==
  ASSUME NEW s, Good(s), NEW p \in DOMAIN Loaded(s).people,
         NEW required \in BOOLEAN, NEW priority \in Nat
  PROVE  Safe(s, ConfigureRequirements(s, p, required, priority))
<1> DEFINE b == Bearer(Loaded(s).people, p)
           r == Loaded(s).people[b]
           n == [r EXCEPT !.required = required, !.priority = priority]
<1>1. r \in Participant /\ b \in Person
  BY LoadedRoster, BearerType DEF IsRoster
<1>2. n \in Participant
  BY <1>1 DEF Participant
<1> HIDE DEF n, r, b
<1>3. IsRoster(Put(Loaded(s).people, b, n))
  BY <1>1, <1>2, LoadedRoster, PutRoster
<1>4. QED
  BY <1>3, LoadedRoster, PeopleHandlerGood DEF ConfigureRequirements, Safe, n, r, b

LEMMA AssignChiefSafe ==
  ASSUME NEW s, Good(s), NEW p
  PROVE  Safe(s, AssignChief(s, p))
BY LoadedRoster, PromotedRoster, PeopleHandlerGood DEF AssignChief, Safe

LEMMA ChannelFacts ==
  ASSUME NEW l, Good(l), NEW members \in SUBSET Person, NEW reported \in Nat
  PROVE  LET m == [l EXCEPT !.members = members, !.reported = reported]
         IN  Good(m) /\ Extends(l, m)
<1> DEFINE m == [l EXCEPT !.members = members, !.reported = reported]
<1>1. IsSession(l)
  BY DEF Good
<1>2. /\ m.history = l.history /\ m.selected = l.selected
      /\ m.summary = l.summary /\ m.event = l.event /\ m.status = l.status
      /\ m.people = l.people /\ m \in SessionWith(l.people)
  BY <1>1 DEF IsSession, SessionWith
<1> HIDE DEF m
<1>3. IsSession(m) /\ Coherent(m)
  BY <1>1, <1>2 DEF IsSession, Coherent, Good
<1>4. QED
  BY <1>1, <1>2, <1>3, SameHistoryExtends DEF Good, m

LEMMA ConfigureChannelSafe ==
  ASSUME NEW s, Good(s), NEW members \in SUBSET Person, NEW reported \in Nat,
         NEW window \in BOOLEAN
  PROVE  Safe(s, ConfigureChannel(s, members, reported, window))
<1> DEFINE l     == Loaded(s)
           fresh == {p \in members : p \notin DOMAIN l.people /\ Resolves(l, p)}
           m     == [l EXCEPT !.members = members, !.reported = reported]
           t     == Refreshed(WithPeople(m, Hydrated(l.people, fresh)), TRUE)
<1>1. Good(l) /\ Extends(s, l) /\ IsSession(s) /\ IsSession(l) /\ IsRoster(l.people)
  BY LoadedRoster
<1>2. ConfigureChannel(s, members, reported, window) \in {t, l}
  BY DEF ConfigureChannel
<1>3. IsRoster(Hydrated(l.people, fresh))
  BY <1>1, HydratedRoster
<1> HIDE DEF l, fresh
<1>4. Good(m) /\ Extends(l, m)
  BY <1>1, ChannelFacts
<1> HIDE DEF m
<1>5. Extends(s, m)
  BY <1>1, <1>4, GoodIsSession, ExtendsTransitive
<1>6. Good(t) /\ Extends(s, t)
  BY <1>1, <1>3, <1>4, <1>5, PeopleHandlerGood
<1>7. QED
  BY <1>1, <1>2, <1>6 DEF Safe

\* Marking the last interpretation as doubtful, or not, decides nothing.
LEMMA DoubtSafe ==
  ASSUME NEW s, IsSession(s), NEW r, Good(r), Extends(s, r), NEW doubtful \in BOOLEAN
  PROVE  Safe(s, [r EXCEPT !.doubtful = doubtful])
<1> DEFINE d == [r EXCEPT !.doubtful = doubtful]
<1>1. IsSession(r)
  BY DEF Good
<1>2. /\ d.history = r.history /\ d.selected = r.selected
      /\ d.summary = r.summary /\ d.event = r.event /\ d.status = r.status
      /\ d.people = r.people /\ d \in SessionWith(r.people)
  BY <1>1 DEF IsSession, SessionWith
<1> HIDE DEF d
<1>3. IsSession(d) /\ Coherent(d)
  BY <1>1, <1>2 DEF IsSession, Coherent, Good
<1>4. QED
  BY <1>2, <1>3 DEF Safe, Good, Extends, d

\* refresh_schedule_state with either value of clear_decision.
LEMMA RefreshedSafe ==
  ASSUME NEW l, Good(l), NEW clear \in BOOLEAN
  PROVE  Safe(l, Refreshed(l, clear))
<1>1. CASE clear = TRUE
  BY <1>1, GoodIsSession, RefreshedClearGood DEF Safe
<1>2. CASE clear = FALSE
  BY <1>2, RefreshedKeepGood DEF Safe
<1>3. QED
  BY <1>1, <1>2

LEMMA PeopleKept ==
  ASSUME NEW l, Good(l), NEW people, IsRoster(people)
  PROVE  Safe(l, WithPeople(l, people))
<1> DEFINE c == WithPeople(l, people)
<1>1. IsSession(l)
  BY DEF Good
<1>2. /\ c.history = l.history /\ c.selected = l.selected
      /\ c.summary = l.summary /\ c.event = l.event /\ c.status = l.status
      /\ IsSession(c)
  BY <1>1, PeopleChange
<1> HIDE DEF c
<1>3. Coherent(c)
  BY <1>2 DEF Coherent, Good
<1>4. QED
  BY <1>1, <1>2, <1>3, SameHistoryExtends DEF Safe, Good, c

LEMMA SafeTransitive ==
  ASSUME NEW r, IsSession(r), NEW s, NEW t, Safe(r, s), Safe(s, t)
  PROVE  Safe(r, t)
BY ExtendsTransitive DEF Safe, Good

LEMMA LoadedSafe ==
  ASSUME NEW s, Good(s)
  PROVE  Safe(s, Loaded(s))
BY LoadedGood DEF Safe

LEMMA MergeExtractionSafe ==
  ASSUME NEW s, Good(s), NEW x, DOMAIN x \subseteq Person,
         \A p \in DOMAIN x : x[p] \in Entry, NEW doubtful \in BOOLEAN
  PROVE  Safe(s, MergeExtraction(s, x, doubtful))
<1> DEFINE l == Loaded(s)
           c == WithPeople(l, Extracted(l.people, x))
           r == Refreshed(c, DOMAIN x # {})
<1>1. Good(l) /\ Safe(s, l) /\ IsSession(s) /\ IsSession(l) /\ IsRoster(l.people)
  BY LoadedRoster, LoadedSafe
<1>2. IsRoster(Extracted(l.people, x))
  BY <1>1, ExtractedRoster
<1> HIDE DEF l
<1>3. Safe(l, c)
  BY <1>1, <1>2, PeopleKept
<1> HIDE DEF c
<1>4. Safe(c, r)
  BY <1>3, RefreshedSafe DEF Safe
<1> HIDE DEF r
<1>5. Safe(s, r)
  BY <1>1, <1>3, <1>4, SafeTransitive DEF Safe, Good
<1>6. Safe(s, [r EXCEPT !.doubtful = doubtful])
  BY <1>1, <1>5, DoubtSafe DEF Safe
<1>7. QED
  BY <1>6 DEF MergeExtraction, r, c, l

LEMMA DecidedIsConfirmed ==
  ASSUME NEW l, Good(l)
  PROVE  Decided(l) <=> l.status = "confirmed"
<1>1. l.selected # {} => \E o \in l.selected : o.hour \in l.summary
  BY DEF Good, Coherent
<1>2. QED
  BY <1>1 DEF Good, Coherent, Decided

LEMMA CalculateFields ==
  ASSUME NEW s, Good(s)
  PROVE  LET l == Loaded(s)
             r == Refreshed(l, ~Decided(l))
             c == Calculate(s)
         IN  /\ IsSession(c)
             /\ c.people = r.people /\ c.members = r.members
             /\ c.reported = r.reported /\ c.aliases = r.aliases
             /\ c.options = r.options /\ c.missing = r.missing
             /\ c.doubtful = r.doubtful /\ c.revision = r.revision
             /\ c.selected = r.selected /\ c.summary = r.summary
             /\ c.event = r.event /\ c.history = r.history
             /\ c.archived = r.archived
             /\ c.status = IF Decided(l) THEN "confirmed" ELSE "calculated"
<1> DEFINE l == Loaded(s)
           r == Refreshed(l, ~Decided(l))
           status == IF Decided(l) THEN "confirmed" ELSE "calculated"
<1>1. Good(l)
  BY LoadedGood
<1> HIDE DEF l
<1>2. IsSession(r)
  BY <1>1, RefreshedSafe DEF Safe, Good
<1>3. Calculate(s) = [r EXCEPT !.status = status]
  BY DEF Calculate, l
<1>4. status \in {"draft", "calculated", "confirmed"}
  OBVIOUS
<1> HIDE DEF r, status
<1>5. QED
  BY <1>2, <1>3, <1>4 DEF IsSession, SessionWith, l, r, status

LEMMA CalculateSafe ==
  ASSUME NEW s, Good(s)
  PROVE  Safe(s, Calculate(s))
<1> DEFINE l == Loaded(s)
           r == Refreshed(l, ~Decided(l))
           c == Calculate(s)
<1>1. Good(l) /\ Safe(s, l) /\ IsSession(s) /\ IsSession(l)
  BY LoadedRoster, LoadedSafe
<1>2. /\ IsSession(c) /\ c.history = r.history
      /\ c.selected = r.selected /\ c.summary = r.summary /\ c.event = r.event
      /\ c.status = IF Decided(l) THEN "confirmed" ELSE "calculated"
  BY CalculateFields
<1>3. Decided(l) <=> l.status = "confirmed"
  BY <1>1, DecidedIsConfirmed
<1> HIDE DEF l
<1>4. Safe(l, r)
  BY <1>1, RefreshedSafe
<1>5. r.status = "confirmed" <=> Decided(l)
  <2>1. CASE Decided(l)
    <3>1. r = Refreshed(l, FALSE)
      BY <2>1
    <3>2. QED
      BY <1>1, <1>3, <2>1, <3>1, RefreshedFields, ZenonT(30)
  <2>2. CASE ~Decided(l)
    <3>1. r = Refreshed(l, TRUE)
      BY <2>2
    <3>2. QED
      BY <1>1, <2>2, <3>1, RefreshedFields
  <2>3. QED
    BY <2>1, <2>2
<1> HIDE DEF r, c
<1>6. Coherent(r)
  BY <1>4 DEF Safe, Good
<1>7. c.status = "confirmed" <=> r.status = "confirmed"
  BY <1>2, <1>5
<1>8. Coherent(c)
  BY <1>2, <1>6, <1>7 DEF Coherent
<1>9. Extends(s, r)
  BY <1>1, <1>4, SafeTransitive DEF Safe
<1>10. QED
  BY <1>2, <1>8, <1>9 DEF Safe, Good, Extends, c

LEMMA ClosedFields ==
  ASSUME NEW s, IsSession(s), NEW o \in Option
  PROVE  LET c == Closed(s, o)
         IN  /\ IsSession(c)
             /\ c.people = s.people /\ c.members = s.members
             /\ c.reported = s.reported /\ c.aliases = s.aliases
             /\ c.options = s.options /\ c.missing = s.missing
             /\ c.doubtful = s.doubtful /\ c.revision = s.revision
             /\ c.archived = s.archived
             /\ c.selected = {o} /\ c.summary = {o.hour} /\ c.event = {o.hour}
             /\ c.history = Append(s.history, o) /\ c.status = "confirmed"
<1>1. Append(s.history, o) \in Seq(Option)
  BY DEF IsSession, SessionWith
<1>2. o.hour \in Hour
  BY DEF Option
<1>3. QED
  BY <1>1, <1>2 DEF Closed, IsSession, SessionWith

LEMMA ClosedSafe ==
  ASSUME NEW s, IsSession(s), NEW o \in Option
  PROVE  Safe(s, Closed(s, o))
<1> DEFINE c == Closed(s, o)
<1>1. /\ IsSession(c) /\ c.selected = {o} /\ c.summary = {o.hour}
      /\ c.event = {o.hour} /\ c.history = Append(s.history, o)
      /\ c.status = "confirmed"
  BY ClosedFields
<1>2. s.history \in Seq(Option)
  BY DEF IsSession, SessionWith
<1> HIDE DEF c
<1>3. /\ Len(c.history) = Len(s.history) + 1
      /\ c.history[Len(c.history)] = o
      /\ c.history # <<>>
  BY <1>1, <1>2
<1>4. \A i \in DOMAIN s.history : c.history[i] = s.history[i]
  BY <1>1, <1>2
<1>5. Coherent(c)
  BY <1>1, <1>3 DEF Coherent, SameId
<1>6. Extends(s, c)
  BY <1>2, <1>3, <1>4 DEF Extends, SameId
<1>7. QED
  BY <1>1, <1>5, <1>6 DEF Safe, Good, c

\* A confirmation is refused, or closes one of the loaded options.
LEMMA ConfirmCases ==
  ASSUME NEW s, NEW o, NEW expected, NEW force
  PROVE  LET l == Loaded(s)
             t == Confirm(s, o, expected, force)
         IN  \/ t = l
             \/ /\ ~Blocked(l, force)
                /\ expected \in {{}, {l.revision}}
                /\ ~(Decided(l) /\ \E x \in l.selected : SameId(x, o))
                /\ \E x \in l.options : SameId(x, o) /\ t = Closed(l, x)
BY DEF Confirm

LEMMA ConfirmSafe ==
  ASSUME NEW s, Good(s), NEW o, NEW expected, NEW force
  PROVE  Safe(s, Confirm(s, o, expected, force))
<1> DEFINE l == Loaded(s)
           t == Confirm(s, o, expected, force)
<1>1. Good(l) /\ Safe(s, l) /\ IsSession(s) /\ IsSession(l)
  BY LoadedRoster, LoadedSafe
<1>2. t = l \/ \E x \in l.options : t = Closed(l, x)
  BY ConfirmCases
<1> HIDE DEF l, t
<1>3. l.options \subseteq Option
  BY <1>1 DEF IsSession, SessionWith
<1>4. CASE t = l
  BY <1>1, <1>4 DEF t
<1>5. CASE \E x \in l.options : t = Closed(l, x)
  BY <1>1, <1>3, <1>5, ClosedSafe, SafeTransitive DEF t
<1>6. QED
  BY <1>2, <1>4, <1>5

\* The chat's command recalculates first, then confirms or stops there.
LEMMA ExecuteConfirmSafe ==
  ASSUME NEW s, Good(s), NEW position, NEW expected, NEW force
  PROVE  Safe(s, ExecuteConfirm(s, position, expected, force))
<1> DEFINE c == Calculate(s)
           t == ExecuteConfirm(s, position, expected, force)
<1>1. Safe(s, c) /\ IsSession(s)
  BY CalculateSafe DEF Good
<1>2. t = c \/ \E o : t = Confirm(c, o, {c.revision}, force)
  BY DEF ExecuteConfirm
<1> HIDE DEF c, t
<1>3. CASE t = c
  BY <1>1, <1>3 DEF t
<1>4. CASE \E o : t = Confirm(c, o, {c.revision}, force)
  BY <1>1, <1>4, ConfirmSafe, SafeTransitive DEF Safe, t
<1>5. QED
  BY <1>2, <1>3, <1>4

\* Handlers that only assign fields of the decision.
LEMMA UndecidedSafe ==
  ASSUME NEW s, IsSession(s), NEW t, IsSession(t),
         t.history = s.history, t.selected = {}, t.summary = {}, t.event = {},
         t.status # "confirmed"
  PROVE  Safe(s, t)
<1>1. Coherent(t)
  BY DEF Coherent
<1>2. QED
  BY <1>1, SameHistoryExtends DEF Safe, Good

LEMMA CancelDecisionSafe ==
  ASSUME NEW s, Good(s)
  PROVE  Safe(s, CancelDecision(s))
<1> DEFINE l == Loaded(s)
           status == IF l.options = {} THEN "draft" ELSE "calculated"
           t == [l EXCEPT !.selected = {}, !.summary = {}, !.event = {},
                          !.status = status]
<1>1. Safe(s, l) /\ IsSession(s) /\ IsSession(l)
  BY LoadedRoster, LoadedSafe
<1>2. CancelDecision(s) = t
  BY <1>1 DEF CancelDecision, Undecided, IsSession, SessionWith
<1>3. status \in {"draft", "calculated"}
  OBVIOUS
<1> HIDE DEF l, status
<1>4. /\ IsSession(t) /\ t.history = l.history /\ t.selected = {}
      /\ t.summary = {} /\ t.event = {} /\ t.status # "confirmed"
  BY <1>1, <1>3 DEF IsSession, SessionWith
<1> HIDE DEF t
<1>5. Safe(l, t)
  BY <1>1, <1>4, UndecidedSafe
<1>6. QED
  BY <1>1, <1>2, <1>5, SafeTransitive

LEMMA ArchivedSafe ==
  ASSUME NEW s, Good(s), NEW archived \in BOOLEAN
  PROVE  Safe(s, [Loaded(s) EXCEPT !.archived = archived])
<1> DEFINE l == Loaded(s)
           t == [l EXCEPT !.archived = archived]
<1>1. Good(l) /\ Safe(s, l) /\ IsSession(s) /\ IsSession(l)
  BY LoadedRoster, LoadedSafe
<1> HIDE DEF l
<1>2. /\ IsSession(t) /\ t.history = l.history /\ t.selected = l.selected
      /\ t.summary = l.summary /\ t.event = l.event /\ t.status = l.status
  BY <1>1 DEF IsSession, SessionWith
<1> HIDE DEF t
<1>3. Coherent(t)
  BY <1>1, <1>2 DEF Good, Coherent
<1>4. Safe(l, t)
  BY <1>1, <1>2, <1>3, SameHistoryExtends DEF Safe, Good
<1>5. QED
  BY <1>1, <1>4, SafeTransitive DEF t, l

LEMMA ResetSafe ==
  ASSUME NEW s, Good(s)
  PROVE  Safe(s, Reset(s))
<1> DEFINE l == Loaded(s)
           none == [p \in {} |-> 0]
           t == [l EXCEPT !.selected = {}, !.summary = {}, !.event = {},
                          !.people = none, !.options = {}, !.missing = FALSE,
                          !.doubtful = FALSE, !.revision = l.revision + 1,
                          !.status = "draft", !.archived = FALSE]
<1>1. Safe(s, l) /\ IsSession(s) /\ IsSession(l)
  BY LoadedRoster, LoadedSafe
<1>2. Reset(s) = t
  BY <1>1 DEF Reset, Undecided, IsSession, SessionWith
<1>3. IsRoster(none)
  BY EmptyRoster
<1> DEFINE m == WithPeople(l, none)
           next == l.revision + 1
           u == [m EXCEPT !.selected = {}, !.summary = {}, !.event = {},
                          !.options = {}, !.missing = FALSE, !.doubtful = FALSE,
                          !.revision = next, !.status = "draft",
                          !.archived = FALSE]
<1> HIDE DEF l, none
<1>4. t = u
  BY <1>1 DEF WithPeople, IsSession, SessionWith
<1>5. IsSession(m) /\ m.people = none /\ m.history = l.history
  BY <1>1, <1>3, PeopleChange
<1>6. next \in Nat
  BY <1>1 DEF IsSession, SessionWith
<1> HIDE DEF m, next
<1>7. /\ u \in SessionWith(none) /\ u.people = none
      /\ u.history = l.history /\ u.selected = {}
      /\ u.summary = {} /\ u.event = {} /\ u.status # "confirmed"
  BY <1>5, <1>6 DEF IsSession, SessionWith
<1> HIDE DEF t, u
<1>8. IsSession(t)
  BY <1>3, <1>7, <1>4 DEF IsSession
<1>9. Safe(l, t)
  BY <1>1, <1>7, <1>8, <1>4, UndecidedSafe
<1>10. QED
  BY <1>1, <1>2, <1>9, SafeTransitive

LEMMA HearAliasesSafe ==
  ASSUME NEW s, Good(s), NEW pair \in Aliases
  PROVE  Safe(s, HearAliases(s, pair))
<1> DEFINE l == Loaded(s)
           t == [l EXCEPT !.aliases = l.aliases \cup {pair}]
<1>1. Good(l) /\ Safe(s, l) /\ IsSession(s) /\ IsSession(l)
  BY LoadedRoster, LoadedSafe
<1>2. HearAliases(s, pair) = t
  BY DEF HearAliases
<1> HIDE DEF l
<1>3. /\ IsSession(t) /\ t.history = l.history /\ t.selected = l.selected
      /\ t.summary = l.summary /\ t.event = l.event /\ t.status = l.status
  BY <1>1 DEF IsSession, SessionWith
<1> HIDE DEF t
<1>4. Coherent(t)
  BY <1>1, <1>3 DEF Good, Coherent
<1>5. Safe(l, t)
  BY <1>1, <1>3, <1>4, SameHistoryExtends DEF Safe, Good
<1>6. QED
  BY <1>1, <1>2, <1>5, SafeTransitive

LEMMA NewSessionGood ==
  Good(NewSession)
<1>1. IsRoster(NewSession.people)
  BY EmptyRoster DEF NewSession
<1>2. NewSession \in SessionWith(NewSession.people)
  BY DEF NewSession, SessionWith
<1>3. Coherent(NewSession)
  BY DEF NewSession, Coherent
<1>4. QED
  BY <1>1, <1>2, <1>3 DEF Good, IsSession

-----------------------------------------------------------------------------
(* The few kinds of change that the handlers make of the session they loaded *)

SameData(l, t) == t.people = l.people /\ GroupCount(t) = GroupCount(l)

\* The proposal of t was computed from its own people after that of l.
Computed(l, t) ==
  /\ t.options = Offer(t.people, GroupCount(t), l.options, l.revision + 1)
  /\ t.missing = Missing(t.people, GroupCount(t))
  /\ t.revision = IF Content(t.options) = Content(l.options)
                  THEN l.revision ELSE l.revision + 1
  /\ t.history = l.history

\* New data: the decision is withdrawn.
Renewed(l, t) == Computed(l, t) /\ t.selected = {}

\* The same data: the decision stands.
Restated(l, t) == Computed(l, t) /\ SameData(l, t) /\ t.selected = l.selected

\* Nothing of the proposal changes; the decision may be cancelled.
Untouched(l, t) ==
  /\ SameData(l, t)
  /\ t.options = l.options /\ t.missing = l.missing
  /\ t.revision = l.revision /\ t.history = l.history
  /\ t.selected \in {l.selected, {}}

\* A new coordination.
Restarted(l, t) ==
  /\ t.people = [p \in {} |-> 0] /\ t.options = {} /\ t.selected = {}
  /\ t.revision = l.revision + 1 /\ t.history = l.history

\* Option x is decided.
Decides(l, t, x) ==
  /\ SameData(l, t)
  /\ t.options = l.options /\ t.missing = l.missing
  /\ t.revision = l.revision
  /\ t.history = Append(l.history, x)
  /\ x \in l.options
  /\ t.selected = {x}

Plain(l, t) ==
  \/ Renewed(l, t)
  \/ Restated(l, t)
  \/ Untouched(l, t)
  \/ Restarted(l, t)

LEMMA SameCount ==
  ASSUME NEW l, NEW t, t.members = l.members, t.reported = l.reported
  PROVE  GroupCount(t) = GroupCount(l)
BY DEF GroupCount

LEMMA RefreshedComputed ==
  ASSUME NEW l, IsSession(l), NEW clear \in BOOLEAN
  PROVE  LET r == Refreshed(l, clear)
         IN  /\ Computed(l, r) /\ SameData(l, r)
             /\ r.selected = IF clear THEN {} ELSE l.selected
<1> DEFINE r == Refreshed(l, clear)
           next == Offer(l.people, GroupCount(l), l.options, l.revision + 1)
<1>1. /\ r.people = l.people /\ r.members = l.members /\ r.reported = l.reported
      /\ r.history = l.history /\ r.options = next
      /\ r.missing = Missing(l.people, GroupCount(l))
      /\ r.revision = IF Content(next) = Content(l.options)
                      THEN l.revision ELSE l.revision + 1
      /\ r.selected = IF clear THEN {} ELSE l.selected
  BY RefreshedFields
<1> HIDE DEF r
<1>2. GroupCount(r) = GroupCount(l)
  BY <1>1, SameCount
<1>3. QED
  BY <1>1, <1>2 DEF Computed, SameData, r

\* A handler that replaces the people and recomputes.
LEMMA PeopleRenewed ==
  ASSUME NEW l, IsSession(l), NEW people, IsRoster(people)
  PROVE  Renewed(l, Refreshed(WithPeople(l, people), TRUE))
<1> DEFINE c == WithPeople(l, people)
           r == Refreshed(c, TRUE)
<1>1. /\ IsSession(c) /\ c.options = l.options /\ c.revision = l.revision
      /\ c.history = l.history
  BY PeopleChange
<1> HIDE DEF c
<1>2. Computed(c, r) /\ r.selected = {}
  BY <1>1, RefreshedComputed
<1> HIDE DEF r
<1>3. Renewed(l, r)
  BY <1>1, <1>2 DEF Computed, Renewed
<1>4. QED
  BY <1>3 DEF r, c

LEMMA AddParticipantRenews ==
  ASSUME NEW s, Good(s), NEW p \in Person
  PROVE  Renewed(Loaded(s), AddParticipant(s, p))
BY LoadedRoster, BearerType, RosterRecord, PutRoster, PeopleRenewed
   DEF AddParticipant

LEMMA AddAvailabilityRenews ==
  ASSUME NEW s, Good(s), NEW p \in Person, NEW slots \in SUBSET Hour
  PROVE  Renewed(Loaded(s), AddAvailability(s, p, slots))
<1> DEFINE b == Bearer(Loaded(s).people, p)
           r == PersonOf(Loaded(s).people, b)
           n == [r EXCEPT !.avail = @ \cup slots]
<1>1. r \in Participant /\ b \in Person
  BY LoadedRoster, RosterRecord, BearerType
<1>2. n \in Participant
  BY <1>1 DEF Participant
<1> HIDE DEF n, r, b
<1>3. IsRoster(Put(Loaded(s).people, b, n))
  BY <1>1, <1>2, LoadedRoster, PutRoster
<1>4. QED
  BY <1>3, LoadedRoster, PeopleRenewed DEF AddAvailability, n, r, b

LEMMA RemoveParticipantRenews ==
  ASSUME NEW s, Good(s), NEW gone
  PROVE  Renewed(Loaded(s), RemoveParticipant(s, gone))
BY LoadedRoster, WithoutRoster, PeopleRenewed DEF RemoveParticipant

LEMMA ConfigureRequirementsRenews ==
  ASSUME NEW s, Good(s), NEW p \in DOMAIN Loaded(s).people,
         NEW required \in BOOLEAN, NEW priority \in Nat
  PROVE  Renewed(Loaded(s), ConfigureRequirements(s, p, required, priority))
<1> DEFINE b == Bearer(Loaded(s).people, p)
           r == Loaded(s).people[b]
           n == [r EXCEPT !.required = required, !.priority = priority]
<1>1. r \in Participant /\ b \in Person
  BY LoadedRoster, BearerType DEF IsRoster
<1>2. n \in Participant
  BY <1>1 DEF Participant
<1> HIDE DEF n, r, b
<1>3. IsRoster(Put(Loaded(s).people, b, n))
  BY <1>1, <1>2, LoadedRoster, PutRoster
<1>4. QED
  BY <1>3, LoadedRoster, PeopleRenewed DEF ConfigureRequirements, n, r, b

LEMMA AssignChiefRenews ==
  ASSUME NEW s, Good(s), NEW p
  PROVE  Renewed(Loaded(s), AssignChief(s, p))
BY LoadedRoster, PromotedRoster, PeopleRenewed DEF AssignChief

LEMMA LoadedUntouched ==
  ASSUME NEW l
  PROVE  Untouched(l, l)
BY DEF Untouched, SameData

\* A step that assigns none of the fields a plain change speaks of.
LEMMA PlainFields ==
  ASSUME NEW l, NEW m, NEW t,
         m.people = l.people, m.members = l.members, m.reported = l.reported,
         m.options = l.options, m.missing = l.missing, m.revision = l.revision,
         m.history = l.history, m.selected = l.selected
  PROVE  /\ Untouched(l, m)
         /\ Renewed(m, t) => Renewed(l, t)
         /\ Renewed(t, l) => Renewed(t, m)
         /\ Restated(t, l) => Restated(t, m)
         /\ Untouched(t, l) => Untouched(t, m)
<1>1. SameData(l, m) /\ GroupCount(m) = GroupCount(l)
  BY SameCount DEF SameData
<1>2. QED
  BY <1>1 DEF Untouched, Renewed, Restated, Computed, SameData

LEMMA ConfigureChannelPlain ==
  ASSUME NEW s, Good(s), NEW members \in SUBSET Person, NEW reported \in Nat,
         NEW window \in BOOLEAN
  PROVE  LET t == ConfigureChannel(s, members, reported, window)
         IN  Renewed(Loaded(s), t) \/ t = Loaded(s)
<1> DEFINE l     == Loaded(s)
           fresh == {p \in members : p \notin DOMAIN l.people /\ Resolves(l, p)}
           m     == [l EXCEPT !.members = members, !.reported = reported]
           t     == Refreshed(WithPeople(m, Hydrated(l.people, fresh)), TRUE)
<1>1. Good(l) /\ IsSession(l) /\ IsRoster(l.people)
  BY LoadedRoster
<1>2. ConfigureChannel(s, members, reported, window) \in {t, l}
  BY DEF ConfigureChannel
<1>3. IsRoster(Hydrated(l.people, fresh))
  BY <1>1, HydratedRoster
<1> HIDE DEF l, fresh
<1>4. IsSession(m)
  BY <1>1, ChannelFacts DEF Good
<1>5. m.options = l.options /\ m.revision = l.revision /\ m.history = l.history
  BY <1>1 DEF IsSession, SessionWith
<1> HIDE DEF m
<1>6. Renewed(m, t)
  BY <1>3, <1>4, PeopleRenewed
<1> HIDE DEF t
<1>7. Renewed(l, t)
  BY <1>5, <1>6 DEF Renewed, Computed
<1>8. QED
  BY <1>2, <1>7 DEF l

LEMMA NothingExtracted ==
  ASSUME NEW people, IsRoster(people), NEW x, DOMAIN x = {}
  PROVE  Extracted(people, x) = people
<1>1. Extracted(people, x) = [p \in DOMAIN people |-> people[p]]
  BY DEF Extracted
<1>2. QED
  BY <1>1 DEF IsRoster

\* A message with data renews the proposal, one without restates it.
LEMMA MergeExtractionPlain ==
  ASSUME NEW s, Good(s), NEW x, DOMAIN x \subseteq Person,
         \A p \in DOMAIN x : x[p] \in Entry, NEW doubtful \in BOOLEAN
  PROVE  LET t == MergeExtraction(s, x, doubtful)
         IN  /\ DOMAIN x # {} => Renewed(Loaded(s), t)
             /\ DOMAIN x = {} => Restated(Loaded(s), t)
<1> DEFINE l == Loaded(s)
           c == WithPeople(l, Extracted(l.people, x))
           clear == DOMAIN x # {}
           r == Refreshed(c, clear)
           t == [r EXCEPT !.doubtful = doubtful]
<1>1. IsSession(l) /\ IsRoster(l.people)
  BY LoadedRoster
<1>2. IsRoster(Extracted(l.people, x)) /\ clear \in BOOLEAN
  BY <1>1, ExtractedRoster
<1>3. DOMAIN x = {} => Extracted(l.people, x) = l.people
  BY <1>1, NothingExtracted
<1>4. MergeExtraction(s, x, doubtful) = t
  BY DEF MergeExtraction
<1> HIDE DEF l
<1>5. /\ IsSession(c) /\ c.people = Extracted(l.people, x)
      /\ c.members = l.members /\ c.reported = l.reported
      /\ c.options = l.options /\ c.revision = l.revision
      /\ c.history = l.history /\ c.selected = l.selected
  BY <1>1, <1>2, PeopleChange
<1> HIDE DEF c
<1>6. /\ Computed(c, r) /\ SameData(c, r)
      /\ r.selected = IF clear THEN {} ELSE c.selected
  BY <1>2, <1>5, RefreshedComputed
<1>7. IsSession(r)
  BY <1>2, <1>5, RefreshedType
<1> HIDE DEF r
<1>8. Computed(l, r)
  BY <1>5, <1>6 DEF Computed
<1>9. DOMAIN x # {} => Renewed(l, r)
  BY <1>6, <1>8 DEF Renewed
<1>10. DOMAIN x = {} => Restated(l, r)
  <2>1. GroupCount(c) = GroupCount(l)
    BY <1>5, SameCount
  <2>2. QED
    BY <1>3, <1>5, <1>6, <1>8, <2>1 DEF Restated, SameData
<1>11. /\ t.people = r.people /\ t.members = r.members /\ t.reported = r.reported
       /\ t.options = r.options /\ t.missing = r.missing
       /\ t.revision = r.revision /\ t.history = r.history
       /\ t.selected = r.selected
  BY <1>7 DEF IsSession, SessionWith
<1> HIDE DEF t
<1>12. QED
  BY <1>4, <1>9, <1>10, <1>11, PlainFields DEF l

LEMMA UndecidedHasNone ==
  ASSUME NEW l, Good(l)
  PROVE  ~Decided(l) <=> l.selected = {}
BY DecidedIsConfirmed DEF Good, Coherent

LEMMA CalculateRestates ==
  ASSUME NEW s, Good(s)
  PROVE  Restated(Loaded(s), Calculate(s))
<1> DEFINE l == Loaded(s)
           clear == ~Decided(l)
           r == Refreshed(l, clear)
           t == Calculate(s)
<1>1. Good(l) /\ IsSession(l) /\ clear \in BOOLEAN
  BY LoadedRoster DEF Decided
<1>2. /\ t.people = r.people /\ t.members = r.members /\ t.reported = r.reported
      /\ t.options = r.options /\ t.missing = r.missing
      /\ t.revision = r.revision /\ t.history = r.history
      /\ t.selected = r.selected
  BY CalculateFields
<1>3. clear => l.selected = {}
  BY <1>1, UndecidedHasNone
<1> HIDE DEF l, clear, t
<1>4. /\ Computed(l, r) /\ SameData(l, r)
      /\ r.selected = IF clear THEN {} ELSE l.selected
  BY <1>1, RefreshedComputed
<1> HIDE DEF r
<1>5. Restated(l, r)
  BY <1>3, <1>4 DEF Restated
<1>6. QED
  BY <1>2, <1>5, PlainFields DEF l, t

LEMMA CancelDecisionUntouched ==
  ASSUME NEW s, Good(s)
  PROVE  Untouched(Loaded(s), CancelDecision(s))
<1> DEFINE l == Loaded(s)
           status == IF l.options = {} THEN "draft" ELSE "calculated"
           t == [l EXCEPT !.selected = {}, !.summary = {}, !.event = {},
                          !.status = status]
<1>1. IsSession(l)
  BY LoadedRoster
<1>2. CancelDecision(s) = t
  BY <1>1 DEF CancelDecision, Undecided, IsSession, SessionWith
<1> HIDE DEF l, status
<1>3. /\ t.people = l.people /\ t.members = l.members /\ t.reported = l.reported
      /\ t.options = l.options /\ t.missing = l.missing
      /\ t.revision = l.revision /\ t.history = l.history /\ t.selected = {}
  BY <1>1 DEF IsSession, SessionWith
<1> HIDE DEF t
<1>4. QED
  BY <1>2, <1>3, SameCount DEF Untouched, SameData, l

LEMMA ArchivedUntouched ==
  ASSUME NEW s, Good(s), NEW archived \in BOOLEAN
  PROVE  LET t == [Loaded(s) EXCEPT !.archived = archived]
         IN  Untouched(Loaded(s), t) /\ t.selected = Loaded(s).selected
<1> DEFINE l == Loaded(s)
           t == [l EXCEPT !.archived = archived]
<1>1. IsSession(l)
  BY LoadedRoster
<1> HIDE DEF l
<1>2. /\ t.people = l.people /\ t.members = l.members /\ t.reported = l.reported
      /\ t.options = l.options /\ t.missing = l.missing
      /\ t.revision = l.revision /\ t.history = l.history
      /\ t.selected = l.selected
  BY <1>1 DEF IsSession, SessionWith
<1> HIDE DEF t
<1>3. QED
  BY <1>2, SameCount DEF Untouched, SameData, t, l

LEMMA HearAliasesUntouched ==
  ASSUME NEW s, Good(s), NEW pair
  PROVE  Untouched(Loaded(s), HearAliases(s, pair))
<1> DEFINE l == Loaded(s)
           t == [l EXCEPT !.aliases = l.aliases \cup {pair}]
<1>1. IsSession(l)
  BY LoadedRoster
<1>2. HearAliases(s, pair) = t
  BY DEF HearAliases
<1> HIDE DEF l
<1>3. /\ t.people = l.people /\ t.members = l.members /\ t.reported = l.reported
      /\ t.options = l.options /\ t.missing = l.missing
      /\ t.revision = l.revision /\ t.history = l.history
      /\ t.selected = l.selected
  BY <1>1 DEF IsSession, SessionWith
<1> HIDE DEF t
<1>4. QED
  BY <1>2, <1>3, SameCount DEF Untouched, SameData, l

LEMMA ResetRestarts ==
  ASSUME NEW s, Good(s)
  PROVE  Restarted(Loaded(s), Reset(s))
<1> DEFINE l == Loaded(s)
           none == [p \in {} |-> 0]
           next == l.revision + 1
           t == [l EXCEPT !.selected = {}, !.summary = {}, !.event = {},
                          !.people = none, !.options = {}, !.missing = FALSE,
                          !.doubtful = FALSE, !.revision = next,
                          !.status = "draft", !.archived = FALSE]
<1>1. IsSession(l)
  BY LoadedRoster
<1>2. Reset(s) = t
  BY <1>1 DEF Reset, Undecided, IsSession, SessionWith
<1> HIDE DEF l, none, next
<1>3. /\ t.people = none /\ t.options = {} /\ t.selected = {}
      /\ t.revision = next /\ t.history = l.history
  BY <1>1 DEF IsSession, SessionWith
<1>4. QED
  BY <1>2, <1>3 DEF Restarted, l, none, next

\* A confirmation is refused, or decides one of the loaded options that
\* nothing blocks and that is not the decision already.
Confirms(l, t, force) ==
  \E x \in l.options :
    /\ Decides(l, t, x)
    /\ ~Blocked(l, force)
    /\ \A y \in l.selected : ~SameId(y, x)

LEMMA ConfirmDecides ==
  ASSUME NEW s, Good(s), NEW o, NEW expected, NEW force
  PROVE  LET t == Confirm(s, o, expected, force)
             l == Loaded(s)
         IN  \/ t = l
             \/ /\ Confirms(l, t, force)
                /\ expected \in {{}, {l.revision}}
                /\ \E x \in l.options : SameId(x, o) /\ Decides(l, t, x)
<1> DEFINE l == Loaded(s)
           t == Confirm(s, o, expected, force)
<1>1. Good(l) /\ IsSession(l) /\ l.options \subseteq Option
  BY LoadedRoster DEF IsSession, SessionWith
<1>2. \/ t = l
      \/ /\ ~Blocked(l, force)
         /\ expected \in {{}, {l.revision}}
         /\ ~(Decided(l) /\ \E x \in l.selected : SameId(x, o))
         /\ \E x \in l.options : SameId(x, o) /\ t = Closed(l, x)
  BY ConfirmCases
<1>3. Decided(l) <=> l.selected # {}
  BY <1>1, UndecidedHasNone DEF Decided
<1> HIDE DEF l, t
<1>4. CASE t = l
  BY <1>4 DEF t, l
<1>5. CASE /\ ~Blocked(l, force)
           /\ expected \in {{}, {l.revision}}
           /\ ~(Decided(l) /\ \E x \in l.selected : SameId(x, o))
           /\ \E x \in l.options : SameId(x, o) /\ t = Closed(l, x)
  <2>1. PICK x \in l.options : SameId(x, o) /\ t = Closed(l, x)
    BY <1>5
  <2>2. /\ t.people = l.people /\ t.members = l.members /\ t.reported = l.reported
        /\ t.options = l.options /\ t.missing = l.missing
        /\ t.revision = l.revision /\ t.selected = {x}
        /\ t.history = Append(l.history, x)
    BY <1>1, <2>1, ClosedFields
  <2>3. Decides(l, t, x)
    BY <2>2, SameCount DEF Decides, SameData
  <2>4. \A y \in l.selected : ~SameId(y, x)
    BY <1>3, <1>5, <2>1 DEF SameId
  <2>5. QED
    BY <1>5, <2>1, <2>3, <2>4 DEF Confirms, t, l
<1>6. QED
  BY <1>2, <1>4, <1>5

-----------------------------------------------------------------------------
(* Options that say the truth about required people, whatever was merged.    *)
(* Requirements are looked up by name: two people of one name are told apart *)
(* only where DistinctNames holds.                                           *)

\* An option marked as complete has everybody required; either all options are
\* or none is; and there is a first one, which confirmation_blockers looks at.
Backed(s) ==
  /\ \A o \in s.options : o.met => RequiredMet(s.people, o.hour)
  /\ \A o1, o2 \in s.options : o1.met = o2.met
  /\ s.options # {} => \E o \in s.options : o.rank = 1

Informed(s) == s.options # {} => s.missing = Missing(s.people, GroupCount(s))

Covered(s) == \A o \in s.selected : RequiredMet(s.people, o.hour)

Sound(s) == Informed(s) /\ (DistinctNames => Backed(s) /\ Covered(s))

\* Merging two records adds hours and requires nobody else.
LEMMA MergedKeeps ==
  ASSUME NEW people, IsRoster(people), NEW aliases,
         NEW p \in DOMAIN Merged(people, aliases)
  PROVE  /\ p \in DOMAIN people
         /\ Merged(people, aliases)[p].required = people[p].required
         /\ people[p].avail \subseteq Merged(people, aliases)[p].avail
<1> DEFINE absorbed == {pair \in aliases : {pair[1], pair[2]} \subseteq DOMAIN people}
           Twin(q)  == {pair[2] : pair \in {a \in absorbed : a[1] = q}}
           More(q) == UNION {people[r].avail : r \in Twin(q)}
           Quiet(q) == people[q].rosterOnly /\ \A r \in Twin(q) : people[r].rosterOnly
           Dom == DOMAIN people \ {pair[2] : pair \in absorbed}
<1>1. Merged(people, aliases) =
        [q \in Dom |-> [people[q] EXCEPT !.avail = @ \cup More(q), !.rosterOnly = Quiet(q)]]
  BY DEF Merged
<1>2. Dom \subseteq DOMAIN people
  OBVIOUS
<1> HIDE DEF Dom, More, Quiet
<1>3. p \in Dom
  BY <1>1
<1>4. people[p] \in Participant
  BY <1>2, <1>3 DEF IsRoster
<1>5. Merged(people, aliases)[p] =
        [people[p] EXCEPT !.avail = @ \cup More(p), !.rosterOnly = Quiet(p)]
  BY <1>1, <1>3
<1>6. QED
  BY <1>2, <1>3, <1>4, <1>5 DEF Participant

LEMMA MergedKeepsMet ==
  ASSUME NEW people, IsRoster(people), DistinctNames, NEW aliases, NEW h,
         RequiredMet(people, h)
  PROVE  RequiredMet(Merged(people, aliases), h)
<1> DEFINE merged == Merged(people, aliases)
<1>1. ASSUME NEW p \in DOMAIN merged, merged[p].required
      PROVE  h \in merged[p].avail
  <2>1. p \in DOMAIN people /\ people[p].required
        /\ people[p].avail \subseteq merged[p].avail
    BY <1>1, MergedKeeps
  <2>2. QED
    BY <2>1, MetMeansPresent
<1> HIDE DEF merged
<1>2. RequiredMet(merged, h)
  BY <1>1 DEF RequiredMet, RequiredNames, AvailableNames
<1>3. QED
  BY <1>2 DEF merged

\* get() recomputes the notice of missing data when it changed the people.
LEMMA LoadedMissing ==
  ASSUME NEW s, IsSession(s)
  PROVE  \/ Loaded(s).missing = Missing(Loaded(s).people, GroupCount(Loaded(s)))
         \/ Loaded(s).people = s.people /\ Loaded(s).missing = s.missing
<1> DEFINE people  == Merged(s.people, s.aliases)
           options == {Relabelled(people, o) : o \in s.options}
           chosen  == {Relabelled(people, o) : o \in s.selected}
           history == [i \in DOMAIN s.history |-> Relabelled(people, s.history[i])]
           changed == <<people, options, chosen, history>>
                        # <<s.people, s.options, s.selected, s.history>>
           miss    == IF changed THEN Missing(people, GroupCount(s)) ELSE s.missing
<1>1. Loaded(s) = [s EXCEPT !.people = people, !.options = options,
                            !.selected = chosen, !.history = history,
                            !.missing = miss]
  BY DEF Loaded, IsSession, SessionWith
<1>2. \/ miss = Missing(people, GroupCount(s))
      \/ people = s.people /\ miss = s.missing
  <2> HIDE DEF people, options, chosen, history
  <2>1. ~changed => people = s.people
    OBVIOUS
  <2>2. QED
    BY <2>1
<1>3. Loaded(s).people = people /\ GroupCount(Loaded(s)) = GroupCount(s)
  BY LoadedFields, SameCount
<1> HIDE DEF people, options, chosen, history, miss
<1>4. Loaded(s).missing = miss
  BY <1>1 DEF IsSession, SessionWith
<1>5. QED
  BY <1>2, <1>3, <1>4

LEMMA LoadedSound ==
  ASSUME NEW s, Good(s), Sound(s)
  PROVE  Sound(Loaded(s))
<1> DEFINE l == Loaded(s)
           people == Merged(s.people, s.aliases)
           Rel(o) == Relabelled(people, o)
<1>1. IsSession(s) /\ IsRoster(s.people) /\ s.options \subseteq Option
      /\ s.selected \subseteq Option
  BY DEF Good, IsSession, SessionWith
<1>2. /\ l.people = people /\ l.members = s.members /\ l.reported = s.reported
      /\ l.options = {Rel(o) : o \in s.options}
      /\ l.selected = {Rel(o) : o \in s.selected}
  BY <1>1, LoadedFields
<1>3. IsRoster(people)
  BY <1>1, MergedType DEF IsSession, SessionWith
<1>4. \A o \in Option : /\ Rel(o).hour = o.hour /\ Rel(o).rank = o.rank
                        /\ Rel(o).met = o.met
  BY <1>3, RelabelledShape
<1>5. DistinctNames => \A h : RequiredMet(s.people, h) => RequiredMet(people, h)
  BY <1>1, MergedKeepsMet
<1>6. \/ l.missing = Missing(l.people, GroupCount(l))
      \/ l.people = s.people /\ l.missing = s.missing
  BY <1>1, LoadedMissing
<1> HIDE DEF l, people, Rel
<1>7. GroupCount(l) = GroupCount(s)
  BY <1>2, SameCount
<1>8. ASSUME DistinctNames PROVE Backed(l)
  <2>1. \A o \in l.options : o.met => RequiredMet(l.people, o.hour)
    BY <1>1, <1>2, <1>4, <1>5, <1>8 DEF Sound, Backed
  <2>2. \A o1, o2 \in l.options : o1.met = o2.met
    BY <1>1, <1>2, <1>4, <1>8 DEF Sound, Backed
  <2>3. l.options # {} => \E o \in l.options : o.rank = 1
    BY <1>1, <1>2, <1>4, <1>8 DEF Sound, Backed
  <2>4. QED
    BY <2>1, <2>2, <2>3 DEF Backed
<1>9. Informed(l)
  BY <1>2, <1>6, <1>7 DEF Sound, Informed
<1>10. ASSUME DistinctNames PROVE Covered(l)
  BY <1>1, <1>2, <1>4, <1>5, <1>10 DEF Sound, Covered
<1>11. QED
  BY <1>8, <1>9, <1>10 DEF Sound, l

\* An offered option is one of the engine's, under some id.
LEMMA OfferedFrom ==
  ASSUME NEW people, NEW count, NEW previous, NEW revision,
         NEW x \in Offer(people, count, previous, revision)
  PROVE  \E o \in Proposal(people, count) :
           /\ x.rank = o.rank /\ x.hour = o.hour /\ x.with = o.with
           /\ x.without = o.without /\ x.coverage = o.coverage /\ x.met = o.met
BY DEF Offer

LEMMA OfferedFor ==
  ASSUME NEW people, NEW count, NEW previous, NEW revision,
         NEW o \in Proposal(people, count)
  PROVE  \E x \in Offer(people, count, previous, revision) :
           /\ x.rank = o.rank /\ x.hour = o.hour /\ x.with = o.with
           /\ x.without = o.without /\ x.coverage = o.coverage /\ x.met = o.met
<1> DEFINE Old == {y \in previous : SameAlternative(y, o)}
           born == IF Old = {} THEN revision ELSE (CHOOSE y \in Old : TRUE).born
           x == [born |-> born, rank |-> o.rank, hour |-> o.hour, with |-> o.with,
                 without |-> o.without, coverage |-> o.coverage, met |-> o.met]
<1>1. x \in Offer(people, count, previous, revision)
  BY Zenon DEF Offer
<1> HIDE DEF born
<1>2. QED
  BY <1>1

LEMMA ComputedBacked ==
  ASSUME NEW l, NEW t, IsSession(t), Computed(l, t)
  PROVE  Backed(t) /\ Informed(t)
<1> DEFINE next == Proposal(t.people, GroupCount(t))
<1>1. IsRoster(t.people)
  BY DEF IsSession
<1>2. \A x \in t.options : \E o \in next :
        x.rank = o.rank /\ x.hour = o.hour /\ x.met = o.met
  BY OfferedFrom DEF Computed
<1>3. \A o \in next : \E x \in t.options : x.rank = o.rank
  BY OfferedFor DEF Computed
<1>4. \A o \in next : o.met = RequiredMet(t.people, o.hour)
  BY OptionInPool
<1>5. \A o1, o2 \in next : o1.met = o2.met
  BY AllOrNoneMet
<1>6. next # {} => \E o \in next : o.rank = 1
  BY <1>1, FirstOption
<1> HIDE DEF next
<1>7. \A o \in t.options : o.met => RequiredMet(t.people, o.hour)
  BY <1>2, <1>4
<1>8. \A o1, o2 \in t.options : o1.met = o2.met
  BY <1>2, <1>5
<1>9. t.options # {} => \E o \in t.options : o.rank = 1
  BY <1>2, <1>3, <1>6
<1>10. t.missing = Missing(t.people, GroupCount(t))
  BY DEF Computed
<1>11. QED
  BY <1>7, <1>8, <1>9, <1>10 DEF Backed, Informed

LEMMA PlainSound ==
  ASSUME NEW l, Sound(l), NEW t, IsSession(t), Plain(l, t)
  PROVE  Sound(t)
<1>1. CASE Renewed(l, t)
  BY <1>1, ComputedBacked DEF Renewed, Sound, Covered
<1>2. CASE Restated(l, t)
  BY <1>2, ComputedBacked DEF Restated, SameData, Sound, Covered
<1>3. CASE Untouched(l, t)
  BY <1>3 DEF Untouched, SameData, Sound, Backed, Informed, Covered
<1>4. CASE Restarted(l, t)
  BY <1>4 DEF Restarted, Sound, Backed, Informed, Covered
<1>5. QED
  BY <1>1, <1>2, <1>3, <1>4 DEF Plain

\* confirmation_blockers asks the first option; the others are like it.
LEMMA ConfirmsSound ==
  ASSUME NEW l, Sound(l), NEW t, NEW force, Confirms(l, t, force)
  PROVE  Sound(t)
<1>1. PICK x \in l.options : Decides(l, t, x) /\ ~Blocked(l, force)
  BY DEF Confirms
<1>2. /\ t.people = l.people /\ GroupCount(t) = GroupCount(l)
      /\ t.options = l.options /\ t.missing = l.missing /\ t.selected = {x}
  BY <1>1 DEF Decides, SameData
<1>3. ASSUME DistinctNames PROVE RequiredMet(l.people, x.hour)
  <2>1. CASE \E p \in DOMAIN l.people : l.people[p].required
    <3>1. PICK first \in l.options : first.rank = 1
      BY <1>1, <1>3 DEF Sound, Backed
    <3>2. first.met
      BY <1>1, <2>1, <3>1 DEF Blocked
    <3>3. x.met
      BY <1>3, <3>1, <3>2 DEF Sound, Backed
    <3>4. QED
      BY <1>3, <3>3 DEF Sound, Backed
  <2>2. CASE ~ \E p \in DOMAIN l.people : l.people[p].required
    BY <2>2 DEF RequiredMet, RequiredNames
  <2>3. QED
    BY <2>1, <2>2
<1>4. QED
  BY <1>2, <1>3 DEF Sound, Backed, Informed, Covered

-----------------------------------------------------------------------------
(* One request, as one of the kinds of change *)

Changes(s, t) ==
  \/ Plain(Loaded(s), t)
  \/ \E force : Confirms(Loaded(s), t, force)
  \/ Untouched(Loaded(Calculate(s)), t)
  \/ \E force : Confirms(Loaded(Calculate(s)), t, force)

\* The chat's command recalculates, then confirms or stops there.
LEMMA ExecuteConfirmChanges ==
  ASSUME NEW s, Good(s), NEW position, NEW expected, NEW force
  PROVE  LET t == ExecuteConfirm(s, position, expected, force)
             c == Calculate(s)
         IN  \/ t = c
             \/ t = Loaded(c)
             \/ /\ Confirms(Loaded(c), t, force)
                /\ expected \in {{}, {c.revision}}
                /\ \E o \in c.options : \E x \in Loaded(c).options :
                     o.rank = position /\ SameId(x, o) /\ Decides(Loaded(c), t, x)
<1> DEFINE c == Calculate(s)
           t == ExecuteConfirm(s, position, expected, force)
           found == {o \in c.options : o.rank = position}
           o == CHOOSE o \in found : TRUE
<1>1. Good(c)
  BY CalculateSafe DEF Safe
<1>2. \/ t = c
      \/ /\ expected \in {{}, {c.revision}} /\ found # {}
         /\ t = Confirm(c, o, {c.revision}, force)
  BY DEF ExecuteConfirm
<1> HIDE DEF c, t, o
<1>3. CASE t = c
  BY <1>3 DEF c, t
<1>4. CASE /\ expected \in {{}, {c.revision}} /\ found # {}
           /\ t = Confirm(c, o, {c.revision}, force)
  <2>1. o \in found
    BY <1>4 DEF o
  <2>2. \/ t = Loaded(c)
        \/ /\ Confirms(Loaded(c), t, force)
           /\ \E x \in Loaded(c).options : SameId(x, o) /\ Decides(Loaded(c), t, x)
    BY <1>1, <1>4, ConfirmDecides
  <2>3. QED
    BY <1>4, <2>1, <2>2 DEF c, t
<1>5. QED
  BY <1>2, <1>3, <1>4

LEMMA ConfirmChanges ==
  ASSUME NEW s, Good(s), NEW o, NEW expected, NEW force
  PROVE  Changes(s, Confirm(s, o, expected, force))
BY ConfirmDecides, LoadedUntouched DEF Changes, Plain

LEMMA ExecuteChanges ==
  ASSUME NEW s, Good(s), NEW position, NEW expected, NEW force
  PROVE  Changes(s, ExecuteConfirm(s, position, expected, force))
BY ExecuteConfirmChanges, CalculateRestates, LoadedUntouched DEF Changes, Plain

LEMMA ChangesSound ==
  ASSUME NEW s, Good(s), Sound(s), NEW t, IsSession(t), Changes(s, t)
  PROVE  Sound(t)
<1> DEFINE c == Calculate(s)
<1>1. Sound(Loaded(s)) /\ Good(c) /\ IsSession(c)
  BY LoadedSound, CalculateSafe DEF Safe, Good
<1>2. Sound(c)
  BY <1>1, CalculateRestates, PlainSound DEF Plain
<1>3. Sound(Loaded(c))
  BY <1>1, <1>2, LoadedSound
<1> HIDE DEF c
<1>4. QED
  BY <1>1, <1>3, PlainSound, ConfirmsSound DEF Changes, Plain, c

-----------------------------------------------------------------------------
(* Confirmed decisions *)

\* The fields that loading and recalculating leave to other handlers.
LEMMA LoadedMarks ==
  ASSUME NEW s, Good(s)
  PROVE  LET l == Loaded(s)
         IN  /\ l.archived = s.archived /\ l.doubtful = s.doubtful
             /\ l.revision = s.revision
             /\ Len(l.history) = Len(s.history)
             /\ \A y \in s.selected : \E z \in l.selected : SameId(z, y)
<1> DEFINE l == Loaded(s)
           people == Merged(s.people, s.aliases)
<1>1. IsSession(s) /\ IsSession(l) /\ s.selected \subseteq Option
  BY LoadedRoster DEF IsSession, SessionWith
<1>2. /\ l.archived = s.archived /\ l.doubtful = s.doubtful
      /\ l.revision = s.revision
      /\ l.selected = {Relabelled(people, o) : o \in s.selected}
      /\ DOMAIN l.history = DOMAIN s.history
  BY <1>1, LoadedFields
<1>3. IsRoster(people)
  BY <1>1, MergedType DEF IsSession, SessionWith
<1> HIDE DEF l, people
<1>4. \A y \in s.selected : \E z \in l.selected : SameId(z, y)
  BY <1>1, <1>2, <1>3, RelabelledShape DEF SameId
<1>5. Len(l.history) = Len(s.history)
  BY <1>1, <1>2 DEF IsSession, SessionWith
<1>6. QED
  BY <1>2, <1>4, <1>5 DEF l

LEMMA CalculateMarks ==
  ASSUME NEW s, Good(s)
  PROVE  LET c == Calculate(s)
         IN  /\ c.archived = s.archived /\ c.doubtful = s.doubtful
             /\ Len(c.history) = Len(s.history)
             /\ \A y \in s.selected : \E z \in c.selected : SameId(z, y)
<1> DEFINE l == Loaded(s)
           r == Refreshed(l, ~Decided(l))
           c == Calculate(s)
<1>1. IsSession(l) /\ (~Decided(l)) \in BOOLEAN
  BY LoadedRoster DEF Decided
<1>2. r.archived = l.archived /\ r.doubtful = l.doubtful
  BY <1>1, RefreshedFields
<1>3. c.archived = r.archived /\ c.doubtful = r.doubtful
  BY CalculateFields
<1>4. c.selected = l.selected /\ c.history = l.history
  BY CalculateRestates DEF Restated, Computed
<1>5. /\ l.archived = s.archived /\ l.doubtful = s.doubtful
      /\ Len(l.history) = Len(s.history)
      /\ \A y \in s.selected : \E z \in l.selected : SameId(z, y)
  BY LoadedMarks
<1> HIDE DEF l, r, c
<1>6. QED
  BY <1>2, <1>3, <1>4, <1>5 DEF c

\* A record enters the history by a confirmation that nothing blocked.
LEMMA DecisionsRecorded ==
  ASSUME NEW s, Good(s), NEW t, Changes(s, t), Len(t.history) # Len(s.history)
  PROVE  /\ ~s.archived
         /\ ~s.doubtful
         /\ t.selected # {}
         /\ \A o \in s.selected, c \in t.selected : ~SameId(o, c)
<1> DEFINE b == Calculate(s)
<1>1. Good(b)
  BY CalculateSafe DEF Safe
<1>2. ASSUME NEW l, NEW force, Confirms(l, t, force),
             l.archived = s.archived, l.doubtful = s.doubtful,
             \A y \in s.selected : \E z \in l.selected : SameId(z, y)
      PROVE  /\ ~s.archived /\ ~s.doubtful /\ t.selected # {}
             /\ \A o \in s.selected, c \in t.selected : ~SameId(o, c)
  <2>1. PICK x \in l.options : /\ t.selected = {x} /\ ~Blocked(l, force)
                               /\ \A y \in l.selected : ~SameId(y, x)
    BY <1>2 DEF Confirms, Decides
  <2>2. \A o \in s.selected : ~SameId(o, x)
    BY <1>2, <2>1 DEF SameId
  <2>3. QED
    BY <1>2, <2>1, <2>2 DEF Blocked
<1>3. CASE \E force : Confirms(Loaded(s), t, force)
  BY <1>2, <1>3, LoadedMarks
<1>4. CASE \E force : Confirms(Loaded(b), t, force)
  <2>1. /\ Loaded(b).archived = s.archived /\ Loaded(b).doubtful = s.doubtful
        /\ \A y \in s.selected : \E z \in Loaded(b).selected : SameId(z, y)
    BY <1>1, LoadedMarks, CalculateMarks DEF SameId
  <2>2. QED
    BY <1>2, <1>4, <2>1
<1>5. CASE Plain(Loaded(s), t)
  BY <1>5, LoadedMarks DEF Plain, Renewed, Restated, Computed, Untouched, Restarted
<1>6. CASE Untouched(Loaded(b), t)
  BY <1>1, <1>6, LoadedMarks, CalculateMarks DEF Untouched
<1>7. QED
  BY <1>3, <1>4, <1>5, <1>6 DEF Changes

-----------------------------------------------------------------------------
(* While everybody is known by one identity: reading changes nothing *)

\* The options are the engine's answer, one per hour, and the decision is one
\* of them.
Settled(s) ==
  /\ Fresh(s)
  /\ \A o1, o2 \in s.options : o1.hour = o2.hour => o1 = o2
  /\ s.selected \subseteq s.options

LEMMA NothingMerged ==
  ASSUME NEW people, IsRoster(people)
  PROVE  Merged(people, {}) = people
<1>1. Merged(people, {}) =
        [p \in DOMAIN people |->
           [people[p] EXCEPT !.avail = @ \cup {}, !.rosterOnly = @ /\ TRUE]]
  <2> DEFINE Twin(p) == {pair[2] : pair \in {a \in {} : a[1] = p}}
  <2>1. {pair \in {} : {pair[1], pair[2]} \subseteq DOMAIN people} = {}
    OBVIOUS
  <2>2. \A p : UNION {people[q].avail : q \in Twin(p)} = {}
    OBVIOUS
  <2>3. \A p : (\A q \in Twin(p) : people[q].rosterOnly) = TRUE
    OBVIOUS
  <2>4. DOMAIN people \ {pair[2] : pair \in {}} = DOMAIN people
    OBVIOUS
  <2> HIDE DEF Twin
  <2>5. Merged(people, {}) =
          [p \in DOMAIN people |->
             [people[p] EXCEPT
                !.avail = @ \cup UNION {people[q].avail : q \in Twin(p)},
                !.rosterOnly = @ /\ \A q \in Twin(p) : people[q].rosterOnly]]
    BY <2>1, <2>4 DEF Merged, Twin
  <2>6. QED
    BY <2>2, <2>3, <2>5
<1>2. \A r \in Participant :
        [r EXCEPT !.avail = @ \cup {}, !.rosterOnly = @ /\ TRUE] = r
  BY DEF Participant
<1>3. \A p \in DOMAIN people : people[p] \in Participant
  BY DEF IsRoster
<1>4. Merged(people, {}) = [p \in DOMAIN people |-> people[p]]
  BY <1>1, <1>2, <1>3
<1>5. QED
  BY <1>4 DEF IsRoster

\* The labels of a fresh option are those of its hour.
LEMMA FreshLabels ==
  ASSUME NEW s, Fresh(s), NEW o \in s.options
  PROVE  /\ o.with = AvailableNames(s.people, o.hour)
         /\ o.without = UnavailableNames(s.people, o.hour)
<1> DEFINE next == Proposal(s.people, GroupCount(s))
<1>1. Signature(o) \in Content(next)
  BY DEF Fresh, Content
<1>2. PICK p \in next : Signature(p) = Signature(o)
  BY <1>1 DEF Content
<1>3. p.hour = o.hour /\ p.with = o.with /\ p.without = o.without
  BY <1>2 DEF Signature
<1>4. /\ p.with = AvailableNames(s.people, p.hour)
      /\ p.without = UnavailableNames(s.people, p.hour)
  BY OptionShape
<1>5. QED
  BY <1>3, <1>4

LEMMA LoadedSettled ==
  ASSUME Aliases = {}, NEW s, Good(s), Settled(s)
  PROVE  LET l == Loaded(s)
         IN  /\ Settled(l)
             /\ l.options = s.options /\ l.selected = s.selected
             /\ l.revision = s.revision
<1> DEFINE l == Loaded(s)
<1>1. IsSession(s) /\ IsRoster(s.people) /\ s.options \subseteq Option
      /\ s.aliases = {}
  BY DEF Good, IsSession, SessionWith
<1>2. Merged(s.people, s.aliases) = s.people
  BY <1>1, NothingMerged
<1>3. /\ l.people = s.people /\ l.members = s.members /\ l.reported = s.reported
      /\ l.options = {Relabelled(s.people, o) : o \in s.options}
      /\ l.selected = {Relabelled(s.people, o) : o \in s.selected}
      /\ l.revision = s.revision
  <2> DEFINE people == Merged(s.people, s.aliases)
  <2>1. /\ l.people = people /\ l.members = s.members /\ l.reported = s.reported
        /\ l.options = {Relabelled(people, o) : o \in s.options}
        /\ l.selected = {Relabelled(people, o) : o \in s.selected}
        /\ l.revision = s.revision
    BY <1>1, LoadedFields
  <2> HIDE DEF l, people
  <2>2. people = s.people
    BY <1>2 DEF people
  <2>3. QED
    BY <2>1, <2>2
<1>4. ASSUME NEW o \in s.options
      PROVE  Relabelled(s.people, o) = o
  <2>1. /\ o.with = AvailableNames(s.people, o.hour)
        /\ o.without = UnavailableNames(s.people, o.hour)
    BY FreshLabels DEF Settled
  <2>2. o \in Option
    BY <1>1
  <2>3. QED
    BY <2>1, <2>2 DEF Relabelled, Option
<1>5. l.options = s.options /\ l.selected = s.selected
  BY <1>3, <1>4 DEF Settled
<1>6. l.missing \in {s.missing, Missing(l.people, GroupCount(l))}
  BY <1>1, LoadedMissing
<1> HIDE DEF l
<1>7. GroupCount(l) = GroupCount(s)
  BY <1>3, SameCount
<1>8. Fresh(l)
  BY <1>3, <1>5, <1>6, <1>7 DEF Settled, Fresh
<1>9. QED
  BY <1>3, <1>5, <1>8 DEF Settled, l

\* Nothing changed: the same alternatives keep their ids.
LEMMA OfferAgain ==
  ASSUME NEW s, IsSession(s), Settled(s), NEW revision
  PROVE  Offer(s.people, GroupCount(s), s.options, revision) = s.options
<1> DEFINE next == Proposal(s.people, GroupCount(s))
           Old(o) == {x \in s.options : SameAlternative(x, o)}
           Born(o) == IF Old(o) = {} THEN revision ELSE (CHOOSE x \in Old(o) : TRUE).born
           New(o) == [born |-> Born(o), rank |-> o.rank, hour |-> o.hour,
                      with |-> o.with, without |-> o.without,
                      coverage |-> o.coverage, met |-> o.met]
<1>1. Offer(s.people, GroupCount(s), s.options, revision) = {New(o) : o \in next}
  BY DEF Offer
<1>2. s.options \subseteq Option
  BY DEF IsSession, SessionWith
<1>3. ASSUME NEW o \in next, NEW x \in s.options, Signature(x) = Signature(o)
      PROVE  New(o) = x
  <2>1. /\ x.rank = o.rank /\ x.hour = o.hour /\ x.with = o.with
        /\ x.without = o.without /\ x.coverage = o.coverage
    BY <1>3 DEF Signature
  <2>2. x.met = o.met
    BY <2>1, OptionInPool DEF Settled, Fresh
  <2>3. x \in Old(o)
    BY <2>1 DEF SameAlternative, Signature
  <2>4. \A y \in Old(o) : y = x
    <3>1. \A y \in Old(o) : y.hour = o.hour
      BY DEF SameAlternative, Signature
    <3>2. QED
      BY <2>1, <3>1 DEF Settled
  <2> HIDE DEF Old
  <2>5. Born(o) = x.born
    BY <2>3, <2>4
  <2> HIDE DEF Born
  <2>6. x \in Option
    BY <1>2
  <2>7. QED
    BY <2>1, <2>2, <2>5, <2>6 DEF Option
<1>4. \A o \in next : \E x \in s.options : Signature(x) = Signature(o)
  <2>1. \A o \in next : Signature(o) \in Content(s.options)
    BY DEF Settled, Fresh, Content
  <2>2. QED
    BY <2>1 DEF Content
<1>5. \A x \in s.options : \E o \in next : Signature(x) = Signature(o)
  <2>1. \A x \in s.options : Signature(x) \in Content(next)
    BY DEF Settled, Fresh, Content
  <2>2. QED
    BY <2>1 DEF Content
<1> HIDE DEF New, next
<1>6. QED
  BY <1>1, <1>3, <1>4, <1>5

LEMMA NobodyProposed ==
  ASSUME NEW people, DOMAIN people = {}, NEW count
  PROVE  Proposal(people, count) = {}
<1>1. \A h : AvailableNames(people, h) = {}
  BY DEF AvailableNames
<1>2. Representatives(people) = {}
  BY <1>1 DEF Representatives, Pool, Scorable
<1>3. QED
  BY <1>2 DEF Proposal

LEMMA ComputedFresh ==
  ASSUME NEW l, NEW t, IsSession(t), Computed(l, t)
  PROVE  /\ Fresh(t)
         /\ \A o1, o2 \in t.options : o1.hour = o2.hour => o1 = o2
<1> DEFINE next == Proposal(t.people, GroupCount(t))
           Old(o) == {x \in l.options : SameAlternative(x, o)}
           Born(o) == IF Old(o) = {} THEN l.revision + 1
                      ELSE (CHOOSE x \in Old(o) : TRUE).born
           New(o) == [born |-> Born(o), rank |-> o.rank, hour |-> o.hour,
                      with |-> o.with, without |-> o.without,
                      coverage |-> o.coverage, met |-> o.met]
<1>1. t.options = {New(o) : o \in next}
  BY DEF Computed, Offer
<1>2. \A o \in next : o.met = RequiredMet(t.people, o.hour)
  BY OptionInPool
<1>3. \A o1, o2 \in next : o1.hour = o2.hour => o1 = o2
  BY OneOptionPerHour
<1> HIDE DEF Born, next
<1>4. \A o : New(o).hour = o.hour /\ New(o).met = o.met
  OBVIOUS
<1>5. \A o : Signature(New(o)) = Signature(o)
  BY DEF Signature
<1> HIDE DEF New
<1>6. Content(t.options) = Content(next)
  BY <1>1, <1>5 DEF Content
<1>7. \A o \in t.options : o.met = RequiredMet(t.people, o.hour)
  BY <1>1, <1>2, <1>4
<1>8. \A o1, o2 \in t.options : o1.hour = o2.hour => o1 = o2
  BY <1>1, <1>3, <1>4
<1>9. t.missing = Missing(t.people, GroupCount(t))
  BY DEF Computed
<1>10. QED
  BY <1>6, <1>7, <1>8, <1>9 DEF Fresh, next

\* Revisions do not decrease, and mark every change of the content.
Marks(s, t) ==
  /\ t.revision >= s.revision
  /\ t.revision = s.revision => Content(t.options) = Content(s.options)

LEMMA MarksTransitive ==
  ASSUME NEW r, NEW s, NEW t, IsSession(r), IsSession(s), IsSession(t),
         Marks(r, s), Marks(s, t)
  PROVE  Marks(r, t)
<1>1. r.revision \in Nat /\ s.revision \in Nat /\ t.revision \in Nat
  BY DEF IsSession, SessionWith
<1>2. QED
  BY <1>1 DEF Marks

LEMMA PlainSettled ==
  ASSUME NEW l, IsSession(l), Settled(l), NEW t, IsSession(t), Plain(l, t)
  PROVE  Settled(t) /\ Marks(l, t)
<1>1. l.revision \in Nat
  BY DEF IsSession, SessionWith
<1>2. CASE Renewed(l, t)
  <2>1. Marks(l, t)
    BY <1>1, <1>2 DEF Renewed, Computed, Marks
  <2>2. QED
    BY <1>2, <2>1, ComputedFresh DEF Renewed, Settled
<1>3. CASE Restated(l, t)
  <2>1. Marks(l, t)
    BY <1>1, <1>3 DEF Restated, Computed, Marks
  <2>2. t.options = l.options
    BY <1>3, OfferAgain DEF Restated, Computed, SameData
  <2>3. t.selected \subseteq t.options
    BY <1>3, <2>2 DEF Restated, Settled
  <2>4. QED
    BY <1>3, <2>1, <2>3, ComputedFresh DEF Restated, Settled
<1>4. CASE Untouched(l, t)
  <2>1. Marks(l, t)
    BY <1>1, <1>4 DEF Untouched, Marks
  <2>2. QED
    BY <1>4, <2>1 DEF Untouched, SameData, Settled, Fresh
<1>5. CASE Restarted(l, t)
  <2>1. Marks(l, t)
    BY <1>1, <1>5 DEF Restarted, Marks
  <2>2. Content(t.options) = Content(Proposal(t.people, GroupCount(t)))
    BY <1>5, NobodyProposed DEF Restarted
  <2>3. QED
    BY <1>5, <2>1, <2>2 DEF Restarted, Settled, Fresh
<1>6. QED
  BY <1>2, <1>3, <1>4, <1>5 DEF Plain

LEMMA ConfirmsSettled ==
  ASSUME NEW l, IsSession(l), Settled(l), NEW t, NEW force, Confirms(l, t, force)
  PROVE  Settled(t) /\ Marks(l, t)
<1>1. l.revision \in Nat
  BY DEF IsSession, SessionWith
<1>2. PICK x \in l.options : Decides(l, t, x)
  BY DEF Confirms
<1>3. /\ t.people = l.people /\ GroupCount(t) = GroupCount(l)
      /\ t.options = l.options /\ t.missing = l.missing
      /\ t.revision = l.revision /\ t.selected = {x}
  BY <1>2 DEF Decides, SameData
<1>4. QED
  BY <1>1, <1>3 DEF Settled, Fresh, Marks

LEMMA ChangesSettled ==
  ASSUME Aliases = {}, NEW s, Good(s), Settled(s), NEW t, IsSession(t),
         Changes(s, t)
  PROVE  Settled(t) /\ Marks(s, t)
<1> DEFINE l == Loaded(s)
           c == Calculate(s)
           d == Loaded(c)
<1>1. IsSession(s) /\ s.revision \in Nat
  BY DEF Good, IsSession, SessionWith
<1>2. Good(c) /\ IsSession(c) /\ IsSession(l) /\ IsSession(d)
  BY CalculateSafe, LoadedRoster DEF Safe, Good
<1>3. Settled(l) /\ l.options = s.options /\ l.revision = s.revision
  BY LoadedSettled
<1>4. Settled(c) /\ Marks(l, c)
  BY <1>2, <1>3, CalculateRestates, PlainSettled DEF Plain
<1>5. Settled(d) /\ d.options = c.options /\ d.revision = c.revision
  BY <1>2, <1>4, LoadedSettled
<1> HIDE DEF l, c, d
<1>6. Marks(s, l) /\ Marks(c, d)
  <2>1. c.revision \in Nat
    BY <1>2 DEF IsSession, SessionWith
  <2>2. QED
    BY <1>1, <1>3, <1>5, <2>1 DEF Marks
<1>7. Marks(s, d)
  BY <1>1, <1>2, <1>4, <1>6, MarksTransitive
<1>8. CASE Plain(l, t) \/ \E force : Confirms(l, t, force)
  <2>1. Settled(t) /\ Marks(l, t)
    BY <1>2, <1>3, <1>8, PlainSettled, ConfirmsSettled
  <2>2. QED
    BY <1>1, <1>2, <1>6, <2>1, MarksTransitive
<1>9. CASE Untouched(d, t) \/ \E force : Confirms(d, t, force)
  <2>1. Settled(t) /\ Marks(d, t)
    BY <1>2, <1>5, <1>9, PlainSettled, ConfirmsSettled DEF Plain
  <2>2. QED
    BY <1>1, <1>2, <1>7, <2>1, MarksTransitive
<1>10. QED
  BY <1>8, <1>9 DEF Changes, l, c, d

-----------------------------------------------------------------------------
(* The engine against the reference notions of EngineCases, which speak of   *)
(* persons where the engine speaks of names: for every number of people,     *)
(* hours and days, every requirement and priority and every group size.      *)

\* Nothing but the answer to its input is ever computed.
Answered ==
  /\ IsRoster(roster)
  /\ DOMAIN roster = Person
  /\ groupCount \in GroupCounts
  /\ computed =>
       /\ offered = Proposal(roster, groupCount)
       /\ incomplete = Missing(roster, groupCount)

LEMMA InitRoster ==
  ASSUME EngineInit
  PROVE  IsRoster(roster) /\ DOMAIN roster = Person
<1>1. PICK declared \in [Person -> Schedules], required \in SUBSET Demandable,
           weight \in [Weighable -> Weights \cup {0}] :
        \E silent \in SUBSET {p \in Person : declared[p] = {}} :
          roster = [p \in Person |->
                      [avail      |-> declared[p],
                       required   |-> p \in required,
                       priority   |-> IF p \in Weighable THEN weight[p] ELSE 0,
                       rosterOnly |-> p \in silent]]
  BY DEF EngineInit
<1>2. PICK silent :
        roster = [p \in Person |->
                    [avail      |-> declared[p],
                     required   |-> p \in required,
                     priority   |-> IF p \in Weighable THEN weight[p] ELSE 0,
                     rosterOnly |-> p \in silent]]
  BY <1>1
<1>3. ASSUME NEW p \in Person
      PROVE  roster[p] \in Participant
  <2>1. declared[p] \in SUBSET Hour
    BY InputAssumption DEF InputAssumption
  <2>2. (IF p \in Weighable THEN weight[p] ELSE 0) \in Nat
    <3>1. Weights \cup {0} \subseteq Nat
      BY InputAssumption DEF InputAssumption
    <3>2. p \in Weighable => weight[p] \in Nat
      BY <3>1
    <3>3. QED
      BY <3>2
  <2>3. (p \in required) \in BOOLEAN /\ (p \in silent) \in BOOLEAN
    OBVIOUS
  <2> DEFINE demanded == p \in required
             worth    == IF p \in Weighable THEN weight[p] ELSE 0
             quiet    == p \in silent
  <2>4. roster[p] = [avail |-> declared[p], required |-> demanded,
                     priority |-> worth, rosterOnly |-> quiet]
    BY <1>2
  <2> HIDE DEF demanded, worth, quiet
  <2>5. worth \in Nat /\ demanded \in BOOLEAN /\ quiet \in BOOLEAN
    BY <2>2, <2>3 DEF demanded, worth, quiet
  <2>6. QED
    BY <2>1, <2>4, <2>5 DEF Participant
<1>4. DOMAIN roster = Person /\ roster = [p \in Person |-> roster[p]]
  BY <1>2
<1>5. QED
  BY <1>3, <1>4 DEF IsRoster

LEMMA AnsweredInductive ==
  EngineSpec => []Answered
<1>1. EngineInit => Answered
  BY InitRoster DEF EngineInit, Answered
<1>2. Answered /\ [EngineNext]_engineVars => Answered'
  BY DEF Answered, EngineNext, Compute, Finished, engineVars
<1>3. QED
  BY <1>1, <1>2, PTL DEF EngineSpec

-----------------------------------------------------------------------------
(* Names and persons *)

\* A set of persons that a set of names stands for.
LEMMA SamePeople ==
  ASSUME Answered, NEW g, NEW h
  PROVE  /\ Attendees(g) = Attendees(h)
              => AvailableNames(roster, g) = AvailableNames(roster, h)
         /\ DistinctNames /\ AvailableNames(roster, g) = AvailableNames(roster, h)
              => Attendees(g) = Attendees(h)
BY DEF Answered, Attendees, AvailableNames, DistinctNames

LEMMA SomebodyComes ==
  ASSUME Answered
  PROVE  AttendedHours = Scorable(roster)
BY DEF Answered, AttendedHours, Attendees, Scorable, AvailableNames

LEMMA EverybodyRequiredComes ==
  ASSUME Answered, DistinctNames, NEW h
  PROVE  RequiredMet(roster, h) <=> RequiredPersons \subseteq Attendees(h)
BY DEF Answered, RequiredMet, RequiredNames, AvailableNames, RequiredPersons,
       Attendees, DistinctNames

LEMMA EligibleIsPool ==
  ASSUME Answered, DistinctNames
  PROVE  Pool(roster) = EligibleHours
<1>1. {h \in Scorable(roster) : RequiredMet(roster, h)} = CoveringHours
  BY SomebodyComes, EverybodyRequiredComes DEF CoveringHours
<1>2. QED
  BY <1>1, SomebodyComes DEF Pool, EligibleHours

(* "Si existe al menos una opcion que cubre a todos los requeridos, SOLO se  *)
(* recomiendan esas": for every roster whose visible names differ.           *)
THEOREM RequiredComeFirst ==
  ASSUME DistinctNames
  PROVE  EngineSpec => []RequiredFirst
<1>1. Answered => RequiredFirst
  <2> SUFFICES ASSUME Answered, computed, CoveringHours # {},
                      NEW o \in offered
               PROVE  o.hour \in CoveringHours
    BY DEF RequiredFirst
  <2>1. o.hour \in Pool(roster)
    BY OptionInPool DEF Answered
  <2>2. QED
    BY <2>1, EligibleIsPool DEF EligibleHours
<1>2. QED
  BY <1>1, AnsweredInductive, PTL

-----------------------------------------------------------------------------
(* Missing data *)

(* A proposal that is not reported as incomplete rests on everybody's        *)
(* answer: whoever never spoke is neither required nor counted by the group. *)
THEOREM CompleteIsAnswered ==
  EngineSpec => []CompleteMeansAnswered
<1>1. Answered => CompleteMeansAnswered
  <2> SUFFICES ASSUME Answered, computed, ~incomplete
               PROVE  /\ \A p \in Person : roster[p].avail # {} \/ Silent(roster[p])
                      /\ groupCount <= Cardinality({p \in Person : roster[p].avail # {}})
                      /\ \A p \in Person : roster[p].required => roster[p].avail # {}
    BY DEF CompleteMeansAnswered
  <2> DEFINE identified == {p \in Person : ~Silent(roster[p])}
             spoken     == {p \in Person : roster[p].avail # {}}
  <2>1. /\ \A p \in identified : roster[p].avail # {}
        /\ ~(groupCount > Cardinality(identified))
    BY DEF Answered, Missing
  <2>2. identified = spoken
    BY <2>1 DEF Silent
  <2>3. Cardinality(spoken) \in Nat
    BY EngineAssumption, FS_Subset, FS_CardinalityType DEF EngineAssumption
  <2>4. groupCount \in Nat
    BY InputAssumption DEF Answered, InputAssumption
  <2>5. groupCount <= Cardinality(spoken)
    <3> HIDE DEF identified, spoken
    <3>1. ~(groupCount > Cardinality(spoken))
      BY <2>1, <2>2
    <3>2. QED
      BY <2>3, <2>4, <3>1
  <2>6. QED
    BY <2>1, <2>5 DEF Silent
<1>2. QED
  BY <1>1, AnsweredInductive, PTL

-----------------------------------------------------------------------------
(* Coverage *)

LEMMA MaxIsOne ==
  ASSUME NEW a \in Nat, NEW b \in Nat, NEW c \in Nat
  PROVE  /\ Max({a, b, c}) \in {a, b, c}
         /\ Max({a, b, c}) >= a /\ Max({a, b, c}) >= b /\ Max({a, b, c}) >= c
<1> DEFINE m == IF a >= b /\ a >= c THEN a ELSE IF b >= c THEN b ELSE c
<1>1. m \in {a, b, c} /\ m >= a /\ m >= b /\ m >= c
  OBVIOUS
<1>2. \A x \in {a, b, c} : (\A y \in {a, b, c} : x >= y) => x = m
  BY <1>1
<1>3. Max({a, b, c}) = m
  <2>1. (CHOOSE x \in {a, b, c} : \A y \in {a, b, c} : x >= y) = m
    <3> HIDE DEF m
    <3>1. m \in {a, b, c} /\ \A y \in {a, b, c} : m >= y
      BY <1>1
    <3>2. QED
      BY <3>1, <1>2
  <2>2. QED
    BY <2>1 DEF Max
<1>4. QED
  BY <1>1, <1>3

\* Below 200 the rounding hides nobody: 199 of 200 is reported as 100%.
LEMMA FullPercent ==
  ASSUME NEW a \in Nat, NEW b \in Nat, b >= 1, b < 200, a <= b,
         Percent(a, b) = 100
  PROVE  a = b
<1> DEFINE q == (100 * a) \div b
           r == (100 * a) % b
<1>1. q \in Nat /\ r \in 0 .. b - 1 /\ 100 * a = b * q + r
  OBVIOUS
<1>2. \/ q = 100
      \/ q = 99 /\ 2 * r >= b
  <2>1. Percent(a, b) = CASE 2 * r < b -> q [] 2 * r > b -> q + 1
                          [] OTHER -> q + (q % 2)
    BY DEF Percent
  <2> HIDE DEF q, r
  <2>2. \/ 2 * r < b /\ q = 100
        \/ 2 * r > b /\ q + 1 = 100
        \/ 2 * r = b /\ q + (q % 2) = 100
    BY <1>1, <2>1
  <2>3. q + (q % 2) = 100 => q = 100 \/ q = 99
    BY <1>1
  <2>4. QED
    BY <1>1, <2>2, <2>3
<1> HIDE DEF q, r
<1>3. CASE q = 100
  <2>1. 100 * a = b * 100 + r
    BY <1>1, <1>3
  <2>2. QED
    BY <1>1, <2>1
<1>4. CASE q = 99 /\ 2 * r >= b
  <2>1. 100 * a = b * 99 + r
    BY <1>1, <1>4
  <2>2. QED
    BY <1>1, <1>4, <2>1
<1>5. QED
  BY <1>2, <1>3, <1>4

LEMMA AttendeesCounted ==
  ASSUME Answered, DistinctNames, NEW h
  PROVE  /\ IsFiniteSet(Person) /\ IsFiniteSet(Attendees(h))
         /\ Cardinality(AvailableNames(roster, h)) = Cardinality(Attendees(h))
         /\ Cardinality(Attendees(h)) \in Nat /\ Cardinality(Person) \in Nat
         /\ Cardinality(Attendees(h)) <= Cardinality(Person)
         /\ Cardinality(Attendees(h)) = Cardinality(Person) => Attendees(h) = Person
<1> DEFINE f == [p \in Attendees(h) |-> NameOf[p]]
<1>1. Attendees(h) \in SUBSET Person /\ IsFiniteSet(Person)
  BY EngineAssumption DEF EngineAssumption, Attendees
<1>2. AvailableNames(roster, h) = {NameOf[p] : p \in Attendees(h)}
  BY DEF Answered, AvailableNames, Attendees
<1>3. /\ f \in Surjection(Attendees(h), {NameOf[p] : p \in Attendees(h)})
      /\ f \in Injection(Attendees(h), {NameOf[p] : p \in Attendees(h)})
  <2> DEFINE T == {NameOf[p] : p \in Attendees(h)}
  <2>1. f \in [Attendees(h) -> T] /\ \A t \in T : \E p \in Attendees(h) : f[p] = t
    OBVIOUS
  <2>2. \A p, q \in Attendees(h) : f[p] = f[q] => p = q
    BY <1>1 DEF DistinctNames
  <2> HIDE DEF T, f
  <2>3. f \in Surjection(Attendees(h), T) /\ f \in Injection(Attendees(h), T)
    BY <2>1, <2>2 DEF Surjection, Injection, IsInjective
  <2>4. QED
    BY <2>3 DEF T
<1>4. QED
  BY <1>1, <1>2, <1>3, FS_Subset, FS_Surjection, FS_CardinalityType

(* "100%" is the whole group, in groups of fewer than 200: from there on the *)
(* percentage of one absent member rounds up to 100.                         *)
THEOREM FullCoverage ==
  ASSUME DistinctNames, Cardinality(Person) < 200, \A n \in GroupCounts : n < 200
  PROVE  EngineSpec => []FullCoverageIsEverybody
<1>1. Answered => FullCoverageIsEverybody
  <2> SUFFICES ASSUME Answered, computed, NEW o \in offered, o.coverage = 100
               PROVE  Attendees(o.hour) = Person /\ groupCount <= Cardinality(Person)
    BY DEF FullCoverageIsEverybody
  <2> DEFINE a == Cardinality(Attendees(o.hour))
             n == Cardinality(Person)
             b == Expected(roster, groupCount)
  <2>1. /\ a \in Nat /\ n \in Nat /\ a <= n
        /\ a = n => Attendees(o.hour) = Person
        /\ Cardinality(AvailableNames(roster, o.hour)) = a
    BY AttendeesCounted
  <2>2. groupCount \in Nat /\ groupCount < 200
    BY InputAssumption DEF Answered, InputAssumption
  <2>3. b = Max({n, groupCount, 1})
    BY DEF Expected, Answered
  <2> HIDE DEF a, n, b
  <2>4. n < 200
    BY DEF n
  <2>5. b \in {n, groupCount, 1} /\ b >= n /\ b >= groupCount /\ b >= 1
    BY <2>1, <2>2, <2>3, MaxIsOne
  <2>6. Percent(a, b) = 100
    <3>1. o \in Proposal(roster, groupCount)
      BY DEF Answered
    <3>2. o.coverage = Coverage(roster, groupCount, o.hour)
      BY <3>1, OptionShape
    <3>3. QED
      BY <2>1, <3>2 DEF Coverage, b
  <2>7. a = b
    BY <2>1, <2>2, <2>4, <2>5, <2>6, FullPercent
  <2>8. a = n /\ groupCount <= n
    BY <2>1, <2>2, <2>5, <2>7
  <2>9. QED
    BY <2>1, <2>8 DEF n
<1>2. QED
  BY <1>1, AnsweredInductive, PTL

-----------------------------------------------------------------------------
(* No alternative is lost *)

\* A set of cells has an earliest one.
LEMMA EarliestCell ==
  ASSUME NEW S \in SUBSET Hour, S # {}
  PROVE  \E g \in S : \A h \in S : g <= h
<1> DEFINE Before(h) == {g \in S : g < h}
           Heads == {Before(h) : h \in S}
           R == StrictSubsetOrdering(S)
<1>1. IsWellFoundedOn(R, FiniteSubsetsOf(S))
  BY FS_StrictSubsetOrderingWellFounded
<1>2. Heads \subseteq FiniteSubsetsOf(S) /\ Heads # {}
  BY CellsFinite DEF FiniteSubsetsOf
<1>3. PICK x \in Heads : \A y \in Heads : ~ (<<y, x>> \in R)
  <2> HIDE DEF Heads, R
  <2> QED
    BY <1>1, <1>2, WFMin
<1>4. PICK h \in S : x = Before(h)
  OBVIOUS
<1>5. Before(h) = {}
  <2>1. SUFFICES ASSUME NEW g \in Before(h) PROVE FALSE
    OBVIOUS
  <2>2. g \in Int /\ h \in Int /\ S \subseteq Int
    BY DEF Hour
  <2>3. Before(g) \subseteq Before(h) /\ g \notin Before(g)
    <3>1. g < h /\ ~(g < g)
      BY <2>1, <2>2
    <3>2. \A c \in S : c < g => c < h
      BY <2>2, <3>1
    <3>3. QED
      BY <3>1, <3>2
  <2>4. <<Before(g), Before(h)>> \in R
    BY <2>1, <2>3 DEF StrictSubsetOrdering
  <2>5. QED
    BY <2>4, <1>3, <1>4
<1>6. S \subseteq Int
  BY DEF Hour
<1>7. QED
  BY <1>5, <1>6

\* Every cell of the pool is represented.
LEMMA Represented ==
  ASSUME NEW people, NEW h \in Pool(people)
  PROVE  \E g \in Representatives(people) :
           /\ DayOf(g) = DayOf(h) /\ g <= h
           /\ AvailableNames(people, g) = AvailableNames(people, h)
<1> DEFINE Alike == {g \in Pool(people) :
                       /\ DayOf(g) = DayOf(h)
                       /\ AvailableNames(people, g) = AvailableNames(people, h)}
<1>1. Alike \in SUBSET Hour /\ h \in Alike
  BY DEF Pool, Scorable
<1>2. PICK g \in Alike : \A x \in Alike : g <= x
  <2> HIDE DEF Alike
  <2> QED
    BY <1>1, EarliestCell
<1>3. g \in Representatives(people)
  <2>1. SUFFICES ASSUME NEW x \in Pool(people), x < g, DayOf(x) = DayOf(g),
                        AvailableNames(people, x) = AvailableNames(people, g)
                 PROVE  FALSE
    BY DEF Representatives
  <2>2. x \in Alike
    BY <2>1
  <2>3. x \in Int /\ g \in Int
    BY <1>1, <2>2 DEF Hour
  <2>4. QED
    BY <1>2, <2>1, <2>2, <2>3
<1>4. QED
  BY <1>1, <1>2, <1>3

\* The option of a cell that made it into the list.
LEMMA OptionOf ==
  ASSUME NEW people, NEW count, NEW h \in Representatives(people),
         RankOf(people, Representatives(people), h) <= OptionLimit
  PROVE  \E o \in Proposal(people, count) : o.hour = h
<1> DEFINE cells == Representatives(people)
           o == [rank     |-> RankOf(people, cells, h),
                 hour     |-> h,
                 with     |-> AvailableNames(people, h),
                 without  |-> UnavailableNames(people, h),
                 coverage |-> Coverage(people, count, h),
                 met      |-> RequiredMet(people, h)]
<1>1. o \in Proposal(people, count)
  BY DEF Proposal
<1>2. QED
  BY <1>1

\* The best of all but k cells is among the first k + 1 of all.
LEMMA NextBest ==
  ASSUME NEW people, IsRoster(people), DistinctNames, NEW cells \in SUBSET Hour,
         NEW taken \in SUBSET cells, cells \ taken # {}
  PROVE  \E h \in cells \ taken : RankOf(people, cells, h) <= 1 + Cardinality(taken)
<1>1. cells \ taken \in SUBSET Hour
  OBVIOUS
<1>2. PICK h \in cells \ taken : RankOf(people, cells \ taken, h) = 1
  BY <1>1, FirstExists
<1> DEFINE Before == {g \in cells : Precedes(people, g, h)}
           Rest   == {g \in cells \ taken : Precedes(people, g, h)}
<1>3. IsFiniteSet(Rest) /\ Cardinality(Rest) = 0
  <2>1. Rest \in SUBSET Hour
    OBVIOUS
  <2>2. IsFiniteSet(Rest) /\ Cardinality(Rest) \in Nat
    BY <2>1, CellsFinite
  <2>3. 1 + Cardinality(Rest) = 1
    BY <1>2 DEF RankOf
  <2> HIDE DEF Rest
  <2>4. QED
    BY <2>2, <2>3
<1>4. Rest = {}
  <2> HIDE DEF Rest
  <2> QED
    BY <1>3, FS_EmptySet
<1>5. Before \in SUBSET taken
  BY <1>4
<1>6. IsFiniteSet(taken) /\ Cardinality(taken) \in Nat
  <2>1. taken \in SUBSET Hour
    OBVIOUS
  <2>2. QED
    BY <2>1, CellsFinite
<1>7. Cardinality(Before) <= Cardinality(taken) /\ Cardinality(Before) \in Nat
  <2> HIDE DEF Before
  <2> QED
    BY <1>5, <1>6, FS_Subset, FS_CardinalityType
<1>8. RankOf(people, cells, h) = 1 + Cardinality(Before)
  BY DEF RankOf
<1> HIDE DEF Before
<1>9. QED
  BY <1>6, <1>7, <1>8

LEMMA TwoApart ==
  ASSUME NEW a, NEW b, a # b
  PROVE  IsFiniteSet({a, b}) /\ Cardinality({a, b}) = 2
<1>1. IsFiniteSet({a}) /\ Cardinality({a}) = 1
  BY FS_Singleton
<1>2. {a} \cup {b} = {a, b} /\ b \notin {a}
  OBVIOUS
<1>3. /\ IsFiniteSet({a} \cup {b})
      /\ Cardinality({a} \cup {b}) = IF b \in {a} THEN Cardinality({a})
                                     ELSE Cardinality({a}) + 1
  BY <1>1, FS_AddElement
<1>4. QED
  BY <1>1, <1>2, <1>3

LEMMA ThreeApart ==
  ASSUME NEW a, NEW b, NEW c, a # b, a # c, b # c
  PROVE  Cardinality({a, b, c}) = 3
<1>1. IsFiniteSet({a, b}) /\ Cardinality({a, b}) = 2
  BY TwoApart
<1>2. {a, b} \cup {c} = {a, b, c} /\ c \notin {a, b}
  OBVIOUS
<1>3. Cardinality({a, b} \cup {c}) = IF c \in {a, b} THEN Cardinality({a, b})
                                     ELSE Cardinality({a, b}) + 1
  BY <1>1, FS_AddElement
<1>4. QED
  BY <1>1, <1>2, <1>3

\* When a cell is cut, the list is full.
LEMMA ShortListIsComplete ==
  ASSUME NEW people, IsRoster(people), DistinctNames, NEW count,
         Cardinality(Proposal(people, count)) < OptionLimit,
         NEW h \in Representatives(people)
  PROVE  RankOf(people, Representatives(people), h) <= OptionLimit
<1> DEFINE cells == Representatives(people)
           list  == Proposal(people, count)
           rank(g) == RankOf(people, cells, g)
<1>1. cells \in SUBSET Hour
  BY RepresentativesAreHours
<1>2. \A g \in cells : rank(g) \in Nat
  BY <1>1, RankType
<1>3. SUFFICES ASSUME rank(h) > 3
               PROVE  FALSE
  BY <1>2 DEF OptionLimit
<1> HIDE DEF cells, list, rank
<1>4. IsFiniteSet({}) /\ Cardinality({}) = 0
  BY FS_EmptySet
<1>5. PICK a \in cells : rank(a) <= 1
  <2>1. {} \in SUBSET cells /\ cells \ {} # {} /\ h \in cells
    BY DEF cells
  <2>2. \E g \in cells \ {} : RankOf(people, cells, g) <= 1 + Cardinality({})
    BY <1>1, <2>1, NextBest
  <2>3. QED
    BY <1>4, <2>2 DEF rank
<1>6. h \in cells /\ a # h
  BY <1>2, <1>3, <1>5 DEF cells
<1>7. IsFiniteSet({a}) /\ Cardinality({a}) = 1
  BY FS_Singleton
<1>8. PICK b \in cells \ {a} : rank(b) <= 2
  <2>1. {a} \in SUBSET cells /\ cells \ {a} # {}
    BY <1>6
  <2>2. \E g \in cells \ {a} : RankOf(people, cells, g) <= 1 + Cardinality({a})
    BY <1>1, <2>1, NextBest
  <2>3. QED
    BY <1>7, <2>2 DEF rank
<1>9. b # h
  BY <1>2, <1>3, <1>8
<1>10. IsFiniteSet({a, b}) /\ Cardinality({a, b}) = 2
  BY <1>8, TwoApart
<1>11. PICK c \in cells \ {a, b} : rank(c) <= 3
  <2>1. {a, b} \in SUBSET cells /\ cells \ {a, b} # {}
    BY <1>6, <1>8, <1>9
  <2>2. \E g \in cells \ {a, b} : RankOf(people, cells, g) <= 1 + Cardinality({a, b})
    BY <1>1, <2>1, NextBest
  <2>3. QED
    BY <1>10, <2>2 DEF rank
<1>12. IsFiniteSet(list)
  <2> DEFINE f == [o \in list |-> o.hour]
  <2>1. \A o \in list : o.hour \in Hour
    BY OptionShape, <1>1 DEF list, cells
  <2>2. f \in Injection(list, Hour)
    <3>1. f \in [list -> Hour]
      BY <2>1
    <3>2. \A x, y \in list : f[x] = f[y] => x = y
      BY OneOptionPerHour DEF list
    <3> HIDE DEF f
    <3>3. QED
      BY <3>1, <3>2 DEF Injection, IsInjective
  <2>3. IsFiniteSet(Hour)
    BY CellsFinite
  <2>4. QED
    BY <2>2, <2>3, FS_Injection
<1>13. \A g \in cells : rank(g) <= 3 => \E o \in list : o.hour = g
  BY OptionOf DEF OptionLimit, cells, list, rank
<1>14. PICK oa, ob, oc \in list : oa.hour = a /\ ob.hour = b /\ oc.hour = c
  <2>1. rank(a) <= 3 /\ rank(b) <= 3
    BY <1>2, <1>5, <1>8
  <2>2. QED
    BY <1>11, <1>13, <2>1
<1>15. Cardinality({oa, ob, oc}) = 3
  BY <1>8, <1>11, <1>14, ThreeApart
<1>16. Cardinality({oa, ob, oc}) <= Cardinality(list)
  <2>1. {oa, ob, oc} \in SUBSET list
    BY <1>14
  <2>2. QED
    BY <1>12, <2>1, FS_Subset
<1>17. Cardinality(list) \in Nat /\ Cardinality(list) < 3
  BY <1>12, FS_CardinalityType DEF list, OptionLimit
<1>18. QED
  BY <1>15, <1>16, <1>17

(* Neither the diversification by day and attendees nor the cut to three     *)
(* loses an alternative: a list shorter than three represents every eligible *)
(* hour, and no two of its options are the same meeting.                     *)
THEOREM NothingLost ==
  ASSUME DistinctNames
  PROVE  EngineSpec => []NoAlternativeLost
<1>1. Answered => NoAlternativeLost
  <2> SUFFICES ASSUME Answered, computed
               PROVE  NoAlternativeLost
    BY DEF NoAlternativeLost
  <2>1. offered = Proposal(roster, groupCount) /\ IsRoster(roster)
    BY DEF Answered
  <2>2. ASSUME Cardinality(offered) < OptionLimit, NEW h \in EligibleHours
        PROVE  \E o \in offered : /\ DayOf(o.hour) = DayOf(h)
                                  /\ o.hour <= h
                                  /\ Attendees(o.hour) = Attendees(h)
    <3>1. PICK g \in Representatives(roster) :
            /\ DayOf(g) = DayOf(h) /\ g <= h
            /\ AvailableNames(roster, g) = AvailableNames(roster, h)
      BY EligibleIsPool, Represented
    <3>2. RankOf(roster, Representatives(roster), g) <= OptionLimit
      BY <2>1, <2>2, ShortListIsComplete
    <3>3. PICK o \in offered : o.hour = g
      BY <2>1, <3>2, OptionOf
    <3>4. QED
      BY <3>1, <3>3, SamePeople
  <2>3. ASSUME NEW o1 \in offered, NEW o2 \in offered, o1 # o2,
               DayOf(o1.hour) = DayOf(o2.hour),
               Attendees(o1.hour) = Attendees(o2.hour)
        PROVE  FALSE
    <3>1. /\ o1.hour \in Representatives(roster)
          /\ o2.hour \in Representatives(roster)
          /\ o1.hour # o2.hour
      BY <2>1, <2>3, OptionShape, OneOptionPerHour
    <3>2. o1.hour \in Int /\ o2.hour \in Int
      BY <3>1, RepresentativesAreHours DEF Hour
    <3>3. AvailableNames(roster, o1.hour) = AvailableNames(roster, o2.hour)
      BY <2>3, SamePeople
    <3>4. ~(o1.hour < o2.hour) /\ ~(o2.hour < o1.hour)
      BY <2>3, <3>1, <3>3 DEF Representatives
    <3>5. QED
      BY <3>1, <3>2, <3>4
  <2>4. QED
    BY <2>2, <2>3 DEF NoAlternativeLost
<1>2. QED
  BY <1>1, AnsweredInductive, PTL

-----------------------------------------------------------------------------
(* The first option is the best *)

\* The sum of a weight over a set, as the size of a disjoint union.
Units(S, w) == UNION {{x} \X (1 .. w[x]) : x \in S}

LEMMA UnitsFinite ==
  ASSUME NEW S, IsFiniteSet(S), NEW w, \A x \in S : w[x] \in Nat
  PROVE  IsFiniteSet(Units(S, w)) /\ Cardinality(Units(S, w)) \in Nat
<1> DEFINE piece(x) == {x} \X (1 .. w[x])
           pieces == {piece(x) : x \in S}
<1>1. ASSUME NEW x \in S
      PROVE  IsFiniteSet(piece(x))
  <2>1. IsFiniteSet({x})
    BY FS_Singleton
  <2>2. IsFiniteSet(1 .. w[x])
    BY FS_Interval
  <2>3. QED
    BY <2>1, <2>2, FS_Product
<1>2. IsFiniteSet(pieces)
  <2>1. [x \in S |-> piece(x)] \in Surjection(S, pieces)
    BY DEF Surjection
  <2>2. QED
    BY <2>1, FS_Surjection
<1>3. \A T \in pieces : IsFiniteSet(T)
  BY <1>1
<1>4. IsFiniteSet(UNION pieces)
  <2> HIDE DEF pieces
  <2> QED
    BY <1>2, <1>3, FS_UNION
<1>5. QED
  BY <1>4, FS_CardinalityType DEF Units

LEMMA UnitsAdd ==
  ASSUME NEW S, IsFiniteSet(S), NEW w, \A x \in S : w[x] \in Nat, NEW x \in S
  PROVE  Cardinality(Units(S, w)) = w[x] + Cardinality(Units(S \ {x}, w))
<1> DEFINE own  == {x} \X (1 .. w[x])
           rest == Units(S \ {x}, w)
<1>1. Units(S, w) = own \cup rest /\ own \cap rest = {}
  BY DEF Units
<1>2. IsFiniteSet(rest) /\ Cardinality(rest) \in Nat
  <2>1. IsFiniteSet(S \ {x})
    BY FS_RemoveElement
  <2>2. QED
    BY <2>1, UnitsFinite
<1>3. IsFiniteSet(own) /\ Cardinality(own) = w[x]
  <2>1. IsFiniteSet({x}) /\ Cardinality({x}) = 1
    BY FS_Singleton
  <2>2. IsFiniteSet(1 .. w[x]) /\ Cardinality(1 .. w[x]) = w[x]
    BY FS_Interval
  <2>3. IsFiniteSet(own) /\ Cardinality(own) = Cardinality({x}) * Cardinality(1 .. w[x])
    BY <2>1, <2>2, FS_Product
  <2>4. QED
    BY <2>1, <2>2, <2>3
<1> HIDE DEF own, rest
<1>4. Cardinality(own \cup rest)
        = Cardinality(own) + Cardinality(rest) - Cardinality(own \cap rest)
  BY <1>2, <1>3, FS_Union
<1>5. Cardinality(own \cap rest) = 0
  BY <1>1, FS_EmptySet
<1>6. QED
  BY <1>1, <1>2, <1>3, <1>4, <1>5 DEF rest

\* What a person counts for.
Weight == [p \in Person |-> IF roster[p].priority = 0 THEN 1 ELSE roster[p].priority]

\* The fold of Worth is that size: both are the one function that adds the
\* chosen element to the rest.
LEMMA WorthCounted ==
  ASSUME Answered, NEW h
  PROVE  Worth(h) = Cardinality(Units(Attendees(h), Weight))
<1> DEFINE A == Attendees(h)
           Chosen(s) == CHOOSE x \in s : TRUE
           Added(it) == [s \in SUBSET A |->
                           IF s = {} THEN 0
                           ELSE (IF roster[Chosen(s)].priority = 0 THEN 1
                                 ELSE roster[Chosen(s)].priority) + it[s \ {Chosen(s)}]]
           fold  == CHOOSE it : it = Added(it)
           size  == [s \in SUBSET A |-> Cardinality(Units(s, Weight))]
<1>1. Worth(h) = fold[A]
  BY DEF Worth, MapThenSumSet, MapThenFoldSet
<1>2. /\ A \subseteq Person /\ IsFiniteSet(A)
      /\ \A p \in A : /\ Weight[p] \in Nat
                      /\ Weight[p] = IF roster[p].priority = 0 THEN 1 ELSE roster[p].priority
  <2>1. \A p \in Person : roster[p].priority \in Nat
    BY DEF Answered, IsRoster, Participant
  <2>2. A \subseteq Person
    BY DEF Attendees
  <2>3. QED
    BY <2>1, <2>2, EngineAssumption, FS_Subset DEF EngineAssumption, Weight
<1>3. \A s \in SUBSET A : s # {} =>
        /\ Chosen(s) \in s
        /\ size[s] = Weight[Chosen(s)] + size[s \ {Chosen(s)}]
  <2>1. SUFFICES ASSUME NEW s \in SUBSET A, s # {}
                 PROVE  /\ Chosen(s) \in s
                        /\ size[s] = Weight[Chosen(s)] + size[s \ {Chosen(s)}]
    OBVIOUS
  <2>2. Chosen(s) \in s
    BY <2>1
  <2>3. IsFiniteSet(s)
    BY <1>2, FS_Subset
  <2>4. \A x \in s : Weight[x] \in Nat
    BY <1>2
  <2> HIDE DEF Chosen, A
  <2>5. Cardinality(Units(s, Weight))
          = Weight[Chosen(s)] + Cardinality(Units(s \ {Chosen(s)}, Weight))
    BY <2>2, <2>3, <2>4, UnitsAdd
  <2>6. s \ {Chosen(s)} \in SUBSET A
    OBVIOUS
  <2>7. QED
    BY <2>2, <2>5, <2>6
<1>4. size[{}] = 0
  BY FS_EmptySet DEF Units
<1>5. size = Added(size)
  <2> HIDE DEF Chosen
  <2>1. ASSUME NEW s \in SUBSET A, s # {}
        PROVE  size[s] = Added(size)[s]
    <3> HIDE DEF size
    <3>1. QED
      BY <1>2, <1>3, <2>1
  <2>2. size[{}] = Added(size)[{}]
    BY <1>4
  <2>3. size = [s \in SUBSET A |-> size[s]]
    OBVIOUS
  <2> HIDE DEF size
  <2>4. \A s \in SUBSET A : size[s] = Added(size)[s]
    BY <2>1, <2>2
  <2>5. QED
    BY <2>3, <2>4
<1>6. fold = Added(fold)
  <2> HIDE DEF Added, size
  <2>1. QED
    BY <1>5
<1>7. \A s \in SUBSET A : fold[s] = size[s]
  <2> DEFINE Wrong == {s \in SUBSET A : fold[s] # size[s]}
             R == StrictSubsetOrdering(A)
  <2>1. SUFFICES ASSUME Wrong # {} PROVE FALSE
    OBVIOUS
  <2>2. IsWellFoundedOn(R, FiniteSubsetsOf(A))
    BY FS_StrictSubsetOrderingWellFounded
  <2>3. Wrong \subseteq FiniteSubsetsOf(A)
    BY <1>2, FS_Subset DEF FiniteSubsetsOf
  <2>4. PICK s \in Wrong : \A t \in Wrong : ~ (<<t, s>> \in R)
    <3> HIDE DEF Wrong, R
    <3> QED
      BY <2>1, <2>2, <2>3, WFMin
  <2>5. s # {}
    <3> HIDE DEF size, Chosen
    <3>1. Added(fold)[{}] = 0
      OBVIOUS
    <3>2. fold[{}] = 0
      BY <1>6, <3>1
    <3>3. QED
      BY <2>4, <3>2, <1>4
  <2> DEFINE t == s \ {Chosen(s)}
  <2>6. t \in SUBSET A /\ t # s /\ t \subseteq s
    BY <1>3, <2>4, <2>5
  <2>7. fold[t] = size[t]
    BY <2>4, <2>6 DEF StrictSubsetOrdering
  <2>8. Added(fold)[s] = Weight[Chosen(s)] + fold[t]
    <3> HIDE DEF fold, size, Chosen
    <3>1. s \in SUBSET A /\ Chosen(s) \in s
      BY <1>3, <2>5
    <3>2. QED
      BY <1>2, <2>5, <3>1
  <2>9. fold[s] = size[s]
    <3> HIDE DEF fold, size, Chosen, Added
    <3> QED
      BY <1>3, <1>6, <2>4, <2>5, <2>7, <2>8
  <2>10. QED
    BY <2>4, <2>9
<1>8. QED
  <2> HIDE DEF fold
  <2> QED
    BY <1>1, <1>7

\* Nobody else bears the name: the weight table has the person's own weight.
LEMMA OwnWeight ==
  ASSUME Answered, DistinctNames, NEW p \in Person
  PROVE  WeightOf(roster, NameOf[p]) = Weight[p]
<1> DEFINE bearers == {q \in DOMAIN roster : NameOf[q] = NameOf[p]}
           last    == CHOOSE q \in bearers : \A r \in bearers : r <= q
<1>1. bearers = {p}
  BY DEF Answered, DistinctNames
<1>2. p <= p /\ roster[p].priority \in Nat
  BY EngineAssumption DEF EngineAssumption, Answered, IsRoster, Participant
<1>3. last = p
  BY <1>1, <1>2
<1>4. WeightOf(roster, NameOf[p])
        = IF roster[last].priority > 0 THEN roster[last].priority ELSE 1
  BY DEF WeightOf
<1> HIDE DEF last
<1>5. QED
  BY <1>2, <1>3, <1>4 DEF Weight

LEMMA ScoreIsWorth ==
  ASSUME Answered, DistinctNames, NEW h \in Hour
  PROVE  Worth(h) \in Nat /\ WeightedScore(roster, h) = Worth(h)
<1> DEFINE U == Units(Attendees(h), Weight)
           V == UNION {{n} \X (1 .. WeightOf(roster, n)) : n \in AvailableNames(roster, h)}
           f == [u \in U |-> <<NameOf[u[1]], u[2]>>]
<1>1. Attendees(h) \subseteq Person /\ AvailableNames(roster, h) = {NameOf[p] : p \in Attendees(h)}
  BY DEF Answered, AvailableNames, Attendees
<1>2. U = UNION {{p} \X (1 .. WeightOf(roster, NameOf[p])) : p \in Attendees(h)}
  <2>1. \A p \in Attendees(h) : Weight[p] = WeightOf(roster, NameOf[p])
    BY <1>1, OwnWeight
  <2>2. QED
    BY <2>1 DEF Units
<1>3. f \in Injection(U, V) /\ f \in Surjection(U, V)
  <2>1. \A u \in U : /\ u = <<u[1], u[2]>> /\ u[1] \in Attendees(h)
                     /\ u[2] \in 1 .. WeightOf(roster, NameOf[u[1]])
    BY <1>2
  <2>2. f \in [U -> V]
    BY <1>1, <2>1
  <2>3. \A u, v \in U : f[u] = f[v] => u = v
    <3>1. SUFFICES ASSUME NEW u \in U, NEW v \in U, f[u] = f[v]
                   PROVE  u = v
      OBVIOUS
    <3>2. NameOf[u[1]] = NameOf[v[1]] /\ u[2] = v[2]
      BY <3>1
    <3>3. u[1] = v[1]
      BY <1>1, <2>1, <3>2 DEF DistinctNames
    <3> HIDE DEF U
    <3>4. QED
      BY <2>1, <3>2, <3>3
  <2>4. \A v \in V : \E u \in U : f[u] = v
    <3>1. SUFFICES ASSUME NEW v \in V
                   PROVE  \E u \in U : f[u] = v
      OBVIOUS
    <3>2. PICK p \in Attendees(h) : v \in {NameOf[p]} \X (1 .. WeightOf(roster, NameOf[p]))
      BY <1>1
    <3>3. v = <<NameOf[p], v[2]>> /\ <<p, v[2]>> \in U
      BY <1>2, <3>2
    <3>4. f[<<p, v[2]>>] = v
      BY <3>3
    <3>5. QED
      BY <3>3, <3>4
  <2> HIDE DEF f, U, V
  <2>5. QED
    BY <2>2, <2>3, <2>4 DEF Injection, Surjection, IsInjective
<1>4. IsFiniteSet(U) /\ Cardinality(U) \in Nat
  <2>1. \A p \in Attendees(h) : Weight[p] \in Nat
    BY <1>1 DEF Answered, IsRoster, Participant, Weight
  <2>2. IsFiniteSet(Attendees(h))
    BY <1>1, EngineAssumption, FS_Subset DEF EngineAssumption
  <2>3. QED
    BY <2>1, <2>2, UnitsFinite
<1>5. IsFiniteSet(V) /\ Cardinality(V) = Cardinality(U)
  <2> HIDE DEF U, V, f
  <2>1. IsFiniteSet(V) /\ (Cardinality(V) = Cardinality(U) <=> f \in Injection(U, V))
    BY <1>3, <1>4, FS_Surjection
  <2>2. QED
    BY <1>3, <2>1
<1>6. Worth(h) = Cardinality(U)
  BY WorthCounted
<1>7. WeightedScore(roster, h) = Cardinality(V)
  BY DEF WeightedScore
<1>8. QED
  BY <1>4, <1>5, <1>6, <1>7

\* Nobody stands before the first of a list.
LEMMA FirstIsBest ==
  ASSUME NEW people, NEW cells \in SUBSET Hour, NEW h \in cells,
         RankOf(people, cells, h) = 1, NEW g \in cells
  PROVE  ~Precedes(people, g, h)
<1> DEFINE Before == {c \in cells : Precedes(people, c, h)}
<1>1. IsFiniteSet(Before) /\ Cardinality(Before) = 0
  <2>1. IsFiniteSet(cells)
    BY CellsFinite
  <2>2. IsFiniteSet(Before)
    BY <2>1, FS_Subset
  <2>3. Cardinality(Before) \in Nat
    BY <2>2, FS_CardinalityType
  <2>4. 1 + Cardinality(Before) = 1
    BY DEF RankOf
  <2> HIDE DEF Before
  <2>5. QED
    BY <2>2, <2>3, <2>4
<1>2. Before = {}
  <2> HIDE DEF Before
  <2> QED
    BY <1>1, FS_EmptySet
<1>3. QED
  BY <1>2

(* The option shown first is the most valuable eligible hour, and the        *)
(* earliest of those: neither the diversification by day and attendees nor   *)
(* the cut to three loses it.                                                *)
THEOREM BestComesFirst ==
  ASSUME DistinctNames
  PROVE  EngineSpec => []BestOffered
<1>1. Answered => BestOffered
  <2> SUFFICES ASSUME Answered, computed, EligibleHours # {}
               PROVE  \E o \in offered :
                        /\ o.rank = 1
                        /\ o.hour \in EligibleHours
                        /\ \A h \in EligibleHours :
                             \/ Worth(h) < Worth(o.hour)
                             \/ Worth(h) = Worth(o.hour) /\ o.hour <= h
    BY DEF BestOffered
  <2> DEFINE cells == Representatives(roster)
  <2>1. /\ offered = Proposal(roster, groupCount)
        /\ IsRoster(roster)
        /\ Pool(roster) = EligibleHours
        /\ cells \subseteq Pool(roster)
        /\ Pool(roster) \subseteq Hour
    BY EligibleIsPool DEF Answered, Representatives, Pool, Scorable
  <2>2. cells # {}
    BY <2>1, Represented
  <2>3. PICK top \in cells : RankOf(roster, cells, top) = 1
    <3> HIDE DEF cells
    <3> QED
      BY <2>1, <2>2, FirstExists
  <2>4. PICK o \in offered : o.hour = top
    <3>1. RankOf(roster, cells, top) <= OptionLimit
      BY <2>3 DEF OptionLimit
    <3>2. QED
      BY <2>1, <3>1, OptionOf
  <2>5. o.rank = 1
    <3>1. o.rank = RankOf(roster, Representatives(roster), o.hour)
      BY <2>1, OptionShape
    <3>2. QED
      BY <2>3, <2>4, <3>1
  <2>6. ASSUME NEW h \in EligibleHours
        PROVE  \/ Worth(h) < Worth(top)
               \/ Worth(h) = Worth(top) /\ top <= h
    <3>1. PICK g \in cells : /\ g <= h
                             /\ AvailableNames(roster, g) = AvailableNames(roster, h)
      BY <2>1, Represented
    <3>2. ~Precedes(roster, g, top)
      <4> HIDE DEF cells
      <4> QED
        BY <2>1, <2>3, FirstIsBest
    <3>3. WeightedScore(roster, g) = WeightedScore(roster, h)
      BY <3>1 DEF WeightedScore
    <3>4. g \in Hour /\ h \in Hour /\ top \in Hour
      BY <2>1
    <3>5. /\ Worth(h) \in Nat /\ Worth(top) \in Nat
          /\ WeightedScore(roster, g) = Worth(h)
          /\ WeightedScore(roster, top) = Worth(top)
      BY <3>3, <3>4, ScoreIsWorth
    <3>6. g \in Int /\ h \in Int /\ top \in Int
      BY <3>4 DEF Hour
    <3>7. QED
      BY <3>1, <3>2, <3>5, <3>6 DEF Precedes
  <2>7. QED
    BY <2>1, <2>4, <2>5, <2>6
<1>2. QED
  BY <1>1, AnsweredInductive, PTL
=============================================================================
