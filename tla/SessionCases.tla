---------------------------- MODULE SessionCases ----------------------------
(* Instances of CoordinationSession for TLC. *)
EXTENDS CoordinationSession

OwnName == [p \in Person |-> p]

FirstHour == {{1}}
EachHour == {{h} : h \in Hour}

NoRoster == {{}}
Everybody == {{}, Person}
NewMember == {{}, {2}}

Says(p, e) == [q \in {p} |-> e]

Nothing == [declared |-> {}, replaces |-> FALSE, implied |-> {}, removed |-> {}]

\* Nothing new, a correction to one slot, a withdrawal that implies the rest
\* of the day.
SomeExtractions ==
  {[p \in {} |-> Nothing]}
  \cup {Says(1, [Nothing EXCEPT !.declared = {2}, !.replaces = TRUE]),
        Says(1, [Nothing EXCEPT !.removed = {1}, !.implied = {2}])}

OneHumanTwice == {<<1, 2>>}

FirstHours ==
  {Says(p, [Nothing EXCEPT !.declared = {1}]) : p \in Person}
=============================================================================
