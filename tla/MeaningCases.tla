---------------------------- MODULE MeaningCases ----------------------------
(* Instances of Interpretation for TLC: three weekdays, a working day of   *)
(* three hours, and hours before and after it.                             *)
EXTENDS Interpretation

Luisa == 1
Ana == 2

Hours(d, a, b, w) == [week |-> w, day |-> d, start |-> a, end |-> b]

Blank == [who \in Who |-> {}]
FullDays == [Blank EXCEPT ![Luisa] = {Hours(1, 1, 4, 0), Hours(2, 1, 4, 0), Hours(2, 1, 4, 1)}]
Scattered == [Blank EXCEPT ![Luisa] = {Hours(1, 1, 2, 0), Hours(1, 1, 3, 0), Hours(3, 2, 4, 0)},
                           ![Ana] = {Hours(2, 2, 3, 0)}]
OffHours == [Blank EXCEPT ![Luisa] = {Hours(1, 0, 2, 0), Hours(2, 3, 6, 0)}]
InWorkingHours == {Blank, FullDays, Scattered}
SomeAvailability == InWorkingHours \cup {OffHours}

Quiet == [answered |-> TRUE, entries |-> <<>>, rules |-> <<>>, named |-> {},
          meant |-> {}, clock |-> FALSE, only |-> FALSE, vague |-> FALSE,
          onlys |-> <<>>, spans |-> <<>>, release |-> <<>>, round |-> {},
          names |-> {Luisa}, channel |-> FALSE, writers |-> {}, mentioned |-> {},
          thirdParty |-> FALSE, ambiguous |-> FALSE]

Kinds == {"available", "unavailable", "only", "replace"}

Entries(who, weeks) ==
  [who : {who}, kind : Kinds, days : SUBSET Day \ {{}}, from : {None, 3, 6},
   to : {None, 5, 48}, week : weeks]

\* One entry, over every text that may or may not support it.
SingleEntries ==
  {[Quiet EXCEPT !.entries = <<e>>, !.named = named, !.clock = clock,
                 !.only = only, !.round = round] :
     e \in Entries(Luisa, {0, 1}), named \in {{}, {1}, {2}, {1, 2}},
     clock \in BOOLEAN, only \in BOOLEAN, round \in {{}, {2}, {1, 2}}}

Some(kinds, days) ==
  {e \in Entries(Luisa, {0}) : e.kind \in kinds /\ e.days \in days /\ e.to # 48}

\* Two entries of one person.
TwoEntries ==
  {[Quiet EXCEPT !.entries = <<e, f>>, !.named = named] :
     e, f \in Some(Kinds, {{1}, {1, 2}}), named \in {{1}, {1, 2}}}

\* "solo puede ...", once or twice, understood by the rule and, differently, by
\* the model.
Alone == {Hours(1, 2, 3, 0), Hours(1, 1, 4, 0), Hours(1, 5, 6, 0), Hours(2, 2, 4, 1)}

Exclusives ==
  {[Quiet EXCEPT !.entries = <<e>>, !.named = DaysOf(before \cup {o}), !.only = TRUE,
                 !.onlys = [i \in 1 .. Cardinality(before) + 1 |->
                              LET p == IF i > Cardinality(before) THEN o
                                       ELSE CHOOSE b \in before : TRUE
                              IN  [who |-> Luisa, slots |-> {p}, week |-> p.week]]] :
     e \in Some(Kinds, {{1}, {1, 2}, {3}}), o \in Alone,
     before \in {{}} \cup {{b} : b \in Alone \cup {Hours(3, 1, 2, 0)}}}

\* A range across days, a release hour, and the rules with or without the model.
Rules ==
  {<<>>} \cup {<<[who |-> who, slots |-> {s}, negated |-> no, corrects |-> fix]>> :
                 who \in {Luisa, Ana}, s \in {Hours(1, 2, 3, 0), Hours(1, 5, 6, 0)},
                 no, fix \in BOOLEAN}

Corrected ==
  {[Quiet EXCEPT !.answered = answered, !.entries = <<e>>, !.named = {1},
                 !.meant = {2}, !.rules = rules, !.spans = spans,
                 !.release = release, !.names = {Luisa, Ana}] :
     answered \in BOOLEAN, e \in Some(Kinds, {{1}, {2}}), rules \in Rules,
     release \in {<<>>, <<[who |-> Luisa, hour |-> 3]>>},
     spans \in {<<>>} \cup {<<[who |-> Luisa, first |-> 1, last |-> 2, start |-> 2,
                               end |-> 3, week |-> 0, negated |-> no]>> : no \in BOOLEAN}}

\* In a group: who speaks, of whom.
InAGroup ==
  {[Quiet EXCEPT !.entries = <<e, [e EXCEPT !.who = other]>>, !.named = {1},
                 !.names = Who, !.channel = TRUE, !.writers = writers,
                 !.mentioned = mentioned, !.vague = vague, !.rules = rules,
                 !.thirdParty = ~({e.who, other} \subseteq writers \cup mentioned \cup {Me})] :
     e \in Some(Kinds, {{1}}), other \in Who, writers \in SUBSET Person,
     mentioned \in SUBSET Person, vague \in BOOLEAN, rules \in Rules}

\* "solo puede el dia 1, de 2 a 3": the model and the rule agree.
OneExclusive ==
  <<{[Quiet EXCEPT !.entries = <<[who |-> Luisa, kind |-> "only", days |-> {1},
                                  from |-> 4, to |-> 6, week |-> 0]>>,
                   !.named = {1}, !.clock = TRUE, !.only = TRUE,
                   !.onlys = <<[who |-> Luisa, slots |-> {Hours(1, 2, 3, 0)}, week |-> 0]>>]}>>

AllMessages == <<SingleEntries, TwoEntries, Exclusives, Corrected, InAGroup>>
=============================================================================
