--------------------------- MODULE DecisionEngine ---------------------------
(***************************************************************************)
(* The deterministic engine of backend/app/services/decision_engine.py:    *)
(* from what every participant declared to the ranked list of meeting      *)
(* options and to the list of missing data.  Everything here is a pure     *)
(* operator; CoordinationSession calls it after every change of a session. *)
(*                                                                         *)
(* A matrix cell (week, day, hour block) is a number in Hour, numbered in  *)
(* calendar order; DayOf groups the blocks of one (week, day).  Declared   *)
(* slots are sets of whole blocks.  The participant list of the code is a  *)
(* function `people` from a set of persons, numbered in list order, to     *)
(* records; the engine itself only sees their NAMES, which need not be     *)
(* different.                                                              *)
(***************************************************************************)
EXTENDS Integers, FiniteSets, FiniteSetsExt

CONSTANTS Person,       \* the people a session may list: positive integers
          NameOf,       \* NameOf[p]: the visible name of p
          NumHours,     \* number of cells of the availability matrix
          HoursPerDay   \* cells of one (week, day)

ASSUME EngineAssumption ==
  /\ Person \subseteq Nat
  /\ IsFiniteSet(Person)
  /\ DOMAIN NameOf = Person
  /\ NumHours \in Nat
  /\ HoursPerDay \in Nat \ {0}

Hour == 1 .. NumHours
DayOf(h) == (h - 1) \div HoursPerDay

\* Length of the list returned by options_from_matrix.
OptionLimit == 3

Participant == [avail : SUBSET Hour, required : BOOLEAN,
                priority : Nat, rosterOnly : BOOLEAN]

\* A participant list: a function from the listed persons to their records.
IsRoster(f) ==
  /\ DOMAIN f \subseteq Person
  /\ f = [p \in DOMAIN f |-> f[p]]
  /\ \A p \in DOMAIN f : f[p] \in Participant

\* The engine identifies people by name; it can tell them apart when:
DistinctNames == \A p, q \in Person : NameOf[p] = NameOf[q] => p = q

-----------------------------------------------------------------------------
(* One cell of the matrix *)

Names(people) == {NameOf[p] : p \in DOMAIN people}

AvailableNames(people, h) ==
  {NameOf[p] : p \in {q \in DOMAIN people : h \in people[q].avail}}

UnavailableNames(people, h) == Names(people) \ AvailableNames(people, h)

RequiredNames(people) ==
  {NameOf[p] : p \in {q \in DOMAIN people : people[q].required}}

RequiredMet(people, h) == RequiredNames(people) \subseteq AvailableNames(people, h)

\* The weight table is keyed by name, so the last listed bearer of a name wins.
WeightOf(people, n) ==
  LET bearers == {p \in DOMAIN people : NameOf[p] = n}
      last    == CHOOSE p \in bearers : \A q \in bearers : q <= p
  IN  IF people[last].priority > 0 THEN people[last].priority ELSE 1

\* The sum of the weights of those available, as the size of a disjoint union.
WeightedScore(people, h) ==
  Cardinality(UNION {{n} \X (1 .. WeightOf(people, n)) : n \in AvailableNames(people, h)})

\* Mutant: the group size reported by the channel is ignored.
ExpectedFromList(people, groupCount) == Max({Cardinality(DOMAIN people), 1})

Expected(people, groupCount) == Max({Cardinality(DOMAIN people), groupCount, 1})

\* Python's round() of a percentage: to the nearest integer, halves to even.
Percent(part, whole) ==
  LET q == (100 * part) \div whole
      r == (100 * part) % whole
  IN  CASE 2 * r < whole -> q
        [] 2 * r > whole -> q + 1
        [] OTHER         -> q + (q % 2)

Coverage(people, groupCount, h) ==
  Percent(Cardinality(AvailableNames(people, h)), Expected(people, groupCount))

-----------------------------------------------------------------------------
(* The ranked options *)

Scorable(people) == {h \in Hour : AvailableNames(people, h) # {}}

\* Mutant: the required people are not looked at.
PoolIgnoringRequired(people) == Scorable(people)

\* When some cell covers everybody required, only such cells are recommended.
Pool(people) ==
  LET covering == {h \in Scorable(people) : RequiredMet(people, h)}
  IN  IF covering # {} THEN covering ELSE Scorable(people)

\* Mutant: one cell per day, whoever attends.
OnePerDay(people) ==
  {h \in Pool(people) : ~ \E g \in Pool(people) : g < h /\ DayOf(g) = DayOf(h)}

\* One cell per day and set of attendees: the earliest.
Representatives(people) ==
  LET pool == Pool(people)
  IN  {h \in pool :
         ~ \E g \in pool :
              /\ g < h
              /\ DayOf(g) = DayOf(h)
              /\ AvailableNames(people, g) = AvailableNames(people, h)}

\* Mutant: the list keeps the calendar order of the cells.
CalendarOrder(people, g, h) == g < h

Precedes(people, g, h) ==
  LET first  == WeightedScore(people, g)
      second == WeightedScore(people, h)
  IN  first > second \/ (first = second /\ g < h)

\* The position of h in the sorted list of cells.
RankOf(people, cells, h) ==
  1 + Cardinality({g \in cells : Precedes(people, g, h)})

\* The list of options, as the set of its elements with their position.
Proposal(people, groupCount) ==
  LET cells == Representatives(people)
      place == [h \in cells |-> RankOf(people, cells, h)]
  IN  {[rank     |-> place[h],
        hour     |-> h,
        with     |-> AvailableNames(people, h),
        without  |-> UnavailableNames(people, h),
        coverage |-> Coverage(people, groupCount, h),
        met      |-> RequiredMet(people, h)] :
           h \in {g \in cells : place[g] <= OptionLimit}}

-----------------------------------------------------------------------------
(* Missing data (find_missing_info), as: is the list non-empty? *)

\* A person known only from the channel roster who has said nothing.
Silent(r) == r.rosterOnly /\ r.avail = {} /\ ~r.required

\* Mutant: people without availability count as identified.
MissingOnlyUncounted(people, groupCount) ==
  DOMAIN people = {} \/ groupCount > Cardinality(DOMAIN people)

Missing(people, groupCount) ==
  LET identified == {p \in DOMAIN people : ~Silent(people[p])}
  IN  \/ DOMAIN people = {}
      \/ \E p \in identified : people[p].avail = {}
      \/ groupCount > Cardinality(identified)
=============================================================================
