----------------------------- MODULE EngineCases -----------------------------
(***************************************************************************)
(* The engine run on every input of a bounded family: EngineInit picks a   *)
(* roster and a group size, Compute asks of the engine what                *)
(* refresh_schedule_state does.  The properties compare the options with   *)
(* reference definitions stated over PERSONS, not over the names the       *)
(* engine works with.                                                      *)
(***************************************************************************)
EXTENDS DecisionEngine

CONSTANTS Demandable,   \* persons that may be marked as required
          Weighable,    \* persons that may carry a priority
          Weights,      \* priorities they may carry
          Schedules,    \* sets of hours a person may declare
          GroupCounts   \* sizes the channel may report for the group

ASSUME InputAssumption ==
  /\ Demandable \subseteq Person
  /\ Weighable \subseteq Person
  /\ Weights \subseteq Nat
  /\ Schedules \subseteq SUBSET Hour
  /\ GroupCounts \subseteq Nat

VARIABLES roster, groupCount, computed, offered, incomplete
engineVars == <<roster, groupCount, computed, offered, incomplete>>

EngineInit ==
  /\ \E declared \in [Person -> Schedules], required \in SUBSET Demandable,
        weight \in [Weighable -> Weights \cup {0}] :
       \E silent \in SUBSET {p \in Person : declared[p] = {}} :
         roster = [p \in Person |->
                     [avail      |-> declared[p],
                      required   |-> p \in required,
                      priority   |-> IF p \in Weighable THEN weight[p] ELSE 0,
                      rosterOnly |-> p \in silent]]
  /\ groupCount \in GroupCounts
  /\ computed = FALSE
  /\ offered = {}
  /\ incomplete = FALSE

Compute ==
  /\ ~computed
  /\ computed' = TRUE
  /\ offered' = Proposal(roster, groupCount)
  /\ incomplete' = Missing(roster, groupCount)
  /\ UNCHANGED <<roster, groupCount>>

Finished == computed /\ UNCHANGED engineVars

EngineNext == Compute \/ Finished

EngineSpec == EngineInit /\ [][EngineNext]_engineVars

-----------------------------------------------------------------------------
(* Reference notions, over persons *)

Attendees(h) == {p \in Person : h \in roster[p].avail}
RequiredPersons == {p \in Person : roster[p].required}
AttendedHours == {h \in Hour : Attendees(h) # {}}
CoveringHours == {h \in AttendedHours : RequiredPersons \subseteq Attendees(h)}
EligibleHours == IF CoveringHours # {} THEN CoveringHours ELSE AttendedHours
Worth(h) ==
  MapThenSumSet(LAMBDA p : IF roster[p].priority = 0 THEN 1 ELSE roster[p].priority,
                Attendees(h))

(* ARQUITECTURA.md: "Si existe al menos una opcion que cubre a todos los    *)
(* requeridos, SOLO se recomiendan esas".  Every option offered has every   *)
(* required person free whenever some hour does.                            *)
RequiredFirst ==
  computed /\ CoveringHours # {} => \A o \in offered : o.hour \in CoveringHours

(* The option shown first is the most valuable eligible hour, the earliest  *)
(* of them: neither the diversification by attendees nor the cut to three   *)
(* may lose it.                                                             *)
BestOffered ==
  computed /\ EligibleHours # {} =>
    \E o \in offered :
      /\ o.rank = 1
      /\ o.hour \in EligibleHours
      /\ \A h \in EligibleHours :
           \/ Worth(h) < Worth(o.hour)
           \/ Worth(h) = Worth(o.hour) /\ o.hour <= h

(* A shorter list than the limit omits no alternative: every eligible hour  *)
(* is represented by an option of its day with exactly its attendees, no    *)
(* later than it, and no two options of a day are for the same people.      *)
NoAlternativeLost ==
  computed =>
    /\ Cardinality(offered) < OptionLimit =>
         \A h \in EligibleHours : \E o \in offered :
            /\ DayOf(o.hour) = DayOf(h)
            /\ o.hour <= h
            /\ Attendees(o.hour) = Attendees(h)
    /\ \A o1, o2 \in offered :
         o1 # o2 => \/ DayOf(o1.hour) # DayOf(o2.hour)
                    \/ Attendees(o1.hour) # Attendees(o2.hour)

(* README.md: the coverage is computed over the real roster so that "100%"  *)
(* means that the whole group was coordinated.                              *)
FullCoverageIsEverybody ==
  computed => \A o \in offered :
    o.coverage = 100 => /\ Attendees(o.hour) = Person
                        /\ groupCount <= Cardinality(Person)

(* Nobody may be missing from a proposal that is reported as complete: when *)
(* find_missing_info returns nothing, every member the channel counts is    *)
(* a listed person who declared something, or was never expected to.        *)
CompleteMeansAnswered ==
  computed /\ ~incomplete =>
    /\ \A p \in Person : roster[p].avail # {} \/ Silent(roster[p])
    /\ groupCount <= Cardinality({p \in Person : roster[p].avail # {}})
    /\ \A p \in Person : roster[p].required => roster[p].avail # {}

-----------------------------------------------------------------------------
(* Families of inputs *)

SomeSchedules == SUBSET Hour
EverybodyFree == {Hour}
Crowd == 1 .. 200
OwnName == [p \in Person |-> p]
OneName == [p \in Person |-> 1]
=============================================================================
