--------------------------- MODULE Interpretation ---------------------------
(***************************************************************************)
(* From the text of a message to the hours its people may be given: the    *)
(* model's entries are compiled to additions and removals                  *)
(* (backend/app/services/schedule_compiler.py), corrected by the rules and *)
(* reduced to what the text supports (llm_service.py,                      *)
(* temporal_grounding.py), bound to whoever wrote them in a group chat,    *)
(* and merged into the session (session_service.py merge_extraction).      *)
(*                                                                         *)
(* A message is what the regular expressions find in it, and the entries   *)
(* the model answers, which may be anything.  The session has one open     *)
(* message at a time (its lock): Hear is the whole handler.                *)
(***************************************************************************)
EXTENDS Integers, Sequences, FiniteSets, SequencesExt

CONSTANTS Person,      \* the people of the chat, by identity
          Me,          \* the person called "Yo"
          NumDays,     \* length of WEEKDAYS
          WorkStart,   \* workday_start_hour
          WorkEnd,     \* workday_end_hour
          Today,       \* _current_or_next_workday
          Messages,    \* the messages that may arrive, in sets
          Beginnings,  \* availability a behaviour may begin with
          MaxHeard     \* bound: messages heard

Day == 1 .. NumDays
Who == Person \cup {Me}
MaxWeek == 8            \* _normalize_week_offset
None == -1

Hour == 0 .. 23

\* Whole hours of a day; those of the session may lie outside the working day,
\* which may have been another when they were said.
Slot == {s \in [week : 0 .. MaxWeek, day : Day, start : Hour, end : Hour] :
           s.start < s.end}

\* What detect_slots finds in a text: hours of the working day, and "a las 7"
\* as one hour past its end.
Found == {s \in Slot : /\ s.start >= WorkStart
                       /\ s.end <= WorkEnd \/ s.end = s.start + 1}

\* An entry of the model, in half hours.
Entry == [who : Who, kind : STRING, days : SUBSET Day,
          from : Nat \cup {None}, to : Nat \cup {None}, week : Int]

\* A fragment that the rules understand by themselves, a "solo ...", a range
\* across days and an hour of release.
Rule == [who : Who, slots : SUBSET Found, negated : BOOLEAN, corrects : BOOLEAN]
Only == [who : Who, slots : SUBSET Found, week : 0 .. MaxWeek]
CrossDay == [who : Who, first : Day, last : Day, start : WorkStart .. WorkEnd,
             end : WorkStart .. WorkEnd, week : 0 .. MaxWeek, negated : BOOLEAN]
Return == [who : Who, hour : Nat]

Message ==
  [answered : BOOLEAN, entries : Seq(Entry), rules : Seq(Rule), onlys : Seq(Only),
   spans : Seq(CrossDay), release : Seq(Return),
   named : SUBSET Day, meant : SUBSET Day, round : SUBSET Day,
   clock : BOOLEAN, only : BOOLEAN, vague : BOOLEAN,
   names : SUBSET Who, channel : BOOLEAN,
   writers : SUBSET Person, mentioned : SUBSET Person,
   thirdParty : BOOLEAN, ambiguous : BOOLEAN]

ASSUME InterpretationAssumption ==
  /\ Me \notin Person
  /\ NumDays \in Nat \ {0}
  /\ Today \in Day
  /\ {WorkStart, WorkEnd} \subseteq 0 .. 23 /\ WorkStart < WorkEnd
  /\ \A i \in DOMAIN Messages : Messages[i] \subseteq Message
  /\ Beginnings \subseteq [Who -> SUBSET Slot]
  /\ MaxHeard \in Nat

-----------------------------------------------------------------------------
(* Slots, and the lists of [who, slots] an extraction is made of *)

Block(days, start, end, week) ==
  {[week |-> week, day |-> d, start |-> start, end |-> end] : d \in days}

\* slots_in_workday: the part inside the working hours.
InWorkday(days, start, end, week) ==
  LET first == Max({start, WorkStart})
      last  == Min({end, WorkEnd})
  IN  IF last <= first THEN {} ELSE Block(days, first, last, week)

DaysOf(slots) == {s.day : s \in slots}

\* The working day before and after a stretch: up to the stretch, even if that
\* begins after the working day (build_implied_from_removals).
Around(days, start, end, week) ==
  (IF start > WorkStart THEN Block(days, WorkStart, start, week) ELSE {})
  \cup (IF end < WorkEnd THEN Block(days, end, WorkEnd, week) ELSE {})

\* subtract_slot
Subtracted(slot, removal) ==
  LET first == Max({slot.start, removal.start})
      last  == Min({slot.end, removal.end})
  IN  IF slot.day # removal.day \/ slot.week # removal.week \/ first >= last
      THEN {slot}
      ELSE {s \in {[slot EXCEPT !.end = first], [slot EXCEPT !.start = last]} :
              s.start < s.end}

\* Mutant: a removal that begins before the slot leaves it alone.
RemovedInside(slots, removals) ==
  FoldSet(LAMBDA r, left : UNION {IF s.start > r.start THEN {s} ELSE Subtracted(s, r) :
                                    s \in left},
          slots, removals)

\* remove_slots
Removed(slots, removals) ==
  FoldSet(LAMBDA r, left : UNION {Subtracted(s, r) : s \in left}, slots, removals)

\* A list keeps its records in the order of their positions, which need not be
\* consecutive: what is left out leaves a gap.
Where(list, Test(_)) == [i \in {j \in DOMAIN list : Test(list[j])} |-> list[i]]
Each(list, Form(_)) == [i \in DOMAIN list |-> Form(list[i])]
End(list) == Max(DOMAIN list \cup {0})
Joined(list, more) ==
  [i \in DOMAIN list \cup {End(list) + j : j \in DOMAIN more} |->
     IF i \in DOMAIN list THEN list[i] ELSE more[i - End(list)]]

Names(list) == {list[i].who : i \in DOMAIN list}
FirstOf(list, who) == Min({i \in DOMAIN list : list[i].who = who})

\* What the first record of a person says, and the list where it says something
\* else; a new record when there is none.
Had(list, who) == IF who \in Names(list) THEN list[FirstOf(list, who)].slots ELSE {}
Put(list, who, slots) ==
  IF who \in Names(list) THEN [list EXCEPT ![FirstOf(list, who)].slots = slots]
  ELSE Joined(list, <<[who |-> who, slots |-> slots]>>)

\* One record per person, in order of appearance.
Gather(list, r) == Put(list, r.who, Had(list, r.who) \cup r.slots)
Gathered(list) == FoldLeft(Gather, <<>>, list)

\* The records of a person that touch a day, whole.
Dropped(list, who, days) ==
  Where(list, LAMBDA r : r.who # who \/ DaysOf(r.slots) \cap days = {})

-----------------------------------------------------------------------------
(* compile_interpretation *)

\* Entries carry half hours; the hours are rounded outwards and cut to the
\* working day.  An hour that cannot be read leaves an empty stretch.
FirstHour(e) ==
  IF e.from = None THEN WorkStart
  ELSE Max({WorkStart, Min({e.from \div 2, WorkEnd})})

\* Mutant: the hour is rounded outwards and not cut to the working day.
LastHourUncut(e) ==
  IF e.to = None THEN WorkEnd ELSE (e.to + 1) \div 2

LastHour(e) ==
  IF e.to = None THEN WorkEnd
  ELSE Max({WorkStart, Min({(e.to + 1) \div 2, WorkEnd})})

Usable(e) == e.days # {} /\ FirstHour(e) < LastHour(e)
Explicit(e) == e.from # None \/ e.to # None
Week(e) == Max({0, Min({e.week, MaxWeek})})
Stretch(e) == Block(e.days, FirstHour(e), LastHour(e), Week(e))
Rest(e) == IF Explicit(e) THEN Around(e.days, FirstHour(e), LastHour(e), Week(e))
           ELSE {}

\* What each entry takes away.
Taken(e) ==
  CASE e.kind = "unavailable" -> Stretch(e)
    [] e.kind = "only" ->
         Block(Day \ e.days, WorkStart, WorkEnd, Week(e)) \cup Rest(e)
    [] OTHER -> {}

\* What the entries of some kinds say, by person.
Said(entries, kinds, Form(_)) ==
  LET chosen == Where(entries, LAMBDA e : Usable(e) /\ e.kind \in kinds)
  IN  Where(Gathered(Each(chosen, LAMBDA e : [who |-> e.who, slots |-> Form(e)])),
            LAMBDA r : r.slots # {})

Compiled(entries) ==
  [given    |-> Said(entries, {"available", "replace", "only"}, Stretch),
   removed  |-> Said(entries, {"unavailable", "only"}, Taken),
   implied  |-> Said(entries, {"unavailable"}, Rest),
   replaced |-> {e.who : e \in {x \in Range(entries) : Usable(x) /\ x.kind = "replace"}},
   flags    |-> IF \E e \in Range(entries) : e.days # {} /\ ~Usable(e)
                THEN {"invalid_interval"} ELSE {}]

-----------------------------------------------------------------------------
(* The rules that correct the model *)

\* apply_grounded_availability_overrides: "vuelvo a las 3, de ahi libre".
Release(x, r, named) ==
  LET slots == InWorkday(named, r.hour, WorkEnd, 0)
      days  == DaysOf(slots)
  IN  [x EXCEPT
         !.given   = Put(@, r.who, {s \in Had(@, r.who) : s.day \notin days} \cup slots),
         !.removed = Dropped(@, r.who, days),
         !.implied = Dropped(@, r.who, days)]

Released(x, m) == FoldLeft(LAMBDA y, r : Release(y, r, m.named), x, m.release)

\* Mutant: the other days of the week are not taken away.
ExclusiveHere(x, m) ==
  FoldLeft(LAMBDA y, o : [y EXCEPT !.given = Put(@, o.who, o.slots)], x, m.onlys)

\* apply_exclusive_availability_overrides: "solo puedo ...".
Exclude(x, o) ==
  LET days == DaysOf(o.slots)
      rest == [who |-> o.who, slots |-> Block(Day \ days, WorkStart, WorkEnd, o.week)]
  IN  [x EXCEPT !.given   = Put(@, o.who, o.slots),
                !.removed = Joined(Dropped(@, o.who, days), <<rest>>)]

Exclusive(x, m) == FoldLeft(Exclude, x, m.onlys)

\* _slots_for_cross_day_range
SpanSlots(r) ==
  IF r.start >= WorkEnd \/ r.end <= WorkStart THEN {}
  ELSE UNION {LET start == IF d = r.first THEN r.start ELSE WorkStart
                  end   == IF d = r.last THEN r.end ELSE WorkEnd
              IN  IF end <= start THEN {} ELSE Block({d}, start, end, r.week) :
                d \in r.first .. r.last}

\* apply_cross_day_availability_overrides: "del lunes a las 15 al jueves a las
\* 11"; nobody's range is only marked as doubtful.
Span(x, r) ==
  LET span       == SpanSlots(r)
      Apart(old) == {s \in old : s.week # r.week \/ s.day \notin DaysOf(span)}
      free       == UNION {Around({s.day}, s.start, s.end, s.week) : s \in span}
      Over(list) == Put(list, r.who, Apart(Had(list, r.who)) \cup span)
  IN  IF span = {} THEN x
      ELSE IF ~r.negated THEN [x EXCEPT !.given = Over(@)]
      ELSE [x EXCEPT
              !.given   = IF r.who \in Names(@) THEN Put(@, r.who, Apart(Had(@, r.who)))
                          ELSE @,
              !.removed = Over(@),
              !.implied = IF free = {} THEN @
                          ELSE Put(@, r.who, Had(@, r.who) \cup free)]

Spanned(x, m) ==
  LET doubt == IF \E r \in Range(m.spans) : SpanSlots(r) # {} THEN {"range_normalized"}
               ELSE IF m.vague \/ m.spans # <<>> THEN {"range_ambiguous"} ELSE {}
  IN  [FoldLeft(Span, x, m.spans) EXCEPT !.flags = @ \cup doubt]

-----------------------------------------------------------------------------
(* validate_extracted_temporal_grounding *)

AllSlots(list) == UNION {list[i].slots : i \in DOMAIN list}
ExtractionDays(x) ==
  DaysOf(AllSlots(x.given) \cup AllSlots(x.removed) \cup AllSlots(x.implied))

Remapped(list, day) ==
  Each(list, LAMBDA r : [r EXCEPT !.slots = {[s EXCEPT !.day = day] : s \in @}])

Written(m) == m.named \cup m.meant

\* An hour and no weekday means today, unless the round has its days.
Defaulted(m) == Written(m) = {} /\ m.clock /\ m.round = {}

\* Mutant: the days the model answered are trusted.
AllowedAny(m) == Day

Allowed(m) == IF Defaulted(m) THEN {Today} ELSE Written(m) \cup m.round

\* The only day of a text without weekdays receives every slot.
Moved(x, m) ==
  LET day == CHOOSE d \in Allowed(m) : TRUE
  IN  IF /\ Written(m) = {}
         /\ Cardinality(Allowed(m)) = 1
         /\ Defaulted(m) \/ ~(ExtractionDays(x) \subseteq Allowed(m))
      THEN [x EXCEPT !.given = Remapped(@, day), !.removed = Remapped(@, day),
                     !.implied = Remapped(@, day)]
      ELSE x

\* "solo ..." keeps what it takes away on the other days.
Grounded(x, m) ==
  LET y       == Moved(x, m)
      On(s)   == s.day \in Allowed(m)
      strict  == {r.who : r \in {q \in Range(y.given) : \E s \in q.slots : On(s)}}
      Reaching(r) == /\ m.only
                     /\ Written(m) # {} \/ Defaulted(m)
                     /\ strict = {} \/ r.who \in strict
      Part(r) == [r EXCEPT !.slots = {s \in @ : On(s)}]
      Kept(r) == [r EXCEPT !.slots = {s \in @ : On(s) \/ Reaching(r)}]
      Some(r) == r.slots # {}
  IN  IF Allowed(m) = {}
      THEN [y EXCEPT !.given = Each(@, Part), !.removed = <<>>, !.implied = <<>>]
      ELSE [y EXCEPT
              !.given   = Each(Where(@, LAMBDA r : r.slots = {} \/ \E s \in r.slots : On(s)),
                               Part),
              !.removed = Where(Each(@, Kept), Some),
              !.implied = Where(Each(@, Part), Some)]

-----------------------------------------------------------------------------
(* The extraction of one message *)

\* ground_extraction_to_message: only people the text names.
Mentioned(x, m) ==
  LET In(r) == r.who \in m.names
      Told(r) == In(r) /\ r.slots # {}
  IN  [x EXCEPT !.given = Where(@, In), !.removed = Where(@, Told),
                !.implied = Where(@, Told)]

\* normalize_llm_extraction, once the names are in their usual form.
Normalized(x, m) ==
  Mentioned(Grounded(Spanned(Exclusive(Released(x, m), m), m), m), m)

\* _extract_with_mock_rules: the fragments the rules understand by themselves.
Follow(list, r) ==
  Put(list, r.who, IF r.negated THEN Had(list, r.who) ELSE Had(list, r.who) \cup r.slots)

Ruled(m) ==
  LET denied  == Where(m.rules, LAMBDA r : r.negated)
      Free(r) == UNION {Around({s.day}, s.start, s.end, s.week) : s \in r.slots}
      x == [given    |-> FoldLeft(Follow, <<>>, m.rules),
            removed  |-> Each(denied, LAMBDA r : [who |-> r.who, slots |-> r.slots]),
            implied  |-> Where(Each(denied, LAMBDA r : [who |-> r.who, slots |-> Free(r)]),
                               LAMBDA r : r.slots # {}),
            replaced |-> {r.who : r \in {q \in Range(m.rules) : q.corrects}},
            flags    |-> {}]
  IN  Grounded(Spanned(Exclusive(x, m), m), m)

\* merge_missing_participants: the rules speak for whom the model forgot.
Completed(x, rules) ==
  LET known == Names(x.given) \cup Names(x.removed) \cup Names(x.implied)
      New(r) == r.who \notin known
  IN  [x EXCEPT !.given    = Joined(@, Where(rules.given, New)),
                !.removed  = Joined(@, Where(rules.removed, New)),
                !.implied  = Joined(@, Where(rules.implied, New)),
                !.replaced = @ \cup (rules.replaced \ known)]

\* Without an answer of the model the rules do alone.
Extraction(m) ==
  IF m.answered THEN Completed(Normalized(Compiled(m.entries), m), Ruled(m))
  ELSE Ruled(m)

\* Mutant: what is said of anybody is kept, as in the panel.
BoundToAnybody(x, m) == x

\* normalize_channel_extraction: in a group, hours belong to whoever wrote
\* them or was mentioned with a real mention.
Bound(x, m) ==
  LET Known == m.writers \cup m.mentioned
      Self(who) == IF who = Me /\ Cardinality(m.writers) = 1
                   THEN CHOOSE p \in m.writers : TRUE ELSE who
      Own(list) == Where(Each(list, LAMBDA r : [r EXCEPT !.who = Self(@)]),
                         LAMBDA r : r.who \in Known)
      all == Names(x.given) \cup Names(x.removed) \cup Names(x.implied) \cup x.replaced
      strangers == {who \in all : Self(who) \notin Known} # {}
  IN  IF ~m.channel THEN x
      ELSE [given    |-> Own(x.given), removed |-> Own(x.removed),
            implied  |-> Own(x.implied),
            replaced |-> {Self(who) : who \in x.replaced} \cap Known,
            flags    |-> x.flags
              \cup (IF strangers \/ m.thirdParty THEN {"third_party"} ELSE {})
              \cup (IF m.ambiguous THEN {"ambiguous_mention"} ELSE {})]

\* build_processing_summary: "low" keeps the group from confirming.
Confidence(x, m) ==
  LET fresh == x.given # <<>> \/ x.removed # <<>>
  IN  IF x.flags \cap {"ambiguous_mention", "third_party", "range_ambiguous"} # {}
      THEN "low"
      ELSE IF "range_normalized" \in x.flags THEN "medium"
      ELSE IF "invalid_interval" \in x.flags \/ ~fresh THEN "low"
      ELSE IF m.answered THEN "high" ELSE "medium"

-----------------------------------------------------------------------------
(* merge_extraction, the availability of the people *)

\* Mutant: what a person is implied to have is added to any day.
ImpliedAnyway(av, list) ==
  FoldLeft(LAMBDA acc, r : [acc EXCEPT ![r.who] = @ \cup r.slots], av, list)

\* What is only implied never joins a day that has hours.
Infer(av, r) ==
  LET taken == {<<s.week, s.day>> : s \in av[r.who]}
  IN  [av EXCEPT ![r.who] = @ \cup {s \in r.slots : <<s.week, s.day>> \notin taken}]

ImpliedInto(av, list) == FoldLeft(Infer, av, list)

Give(av, r, replaced) ==
  [av EXCEPT ![r.who] = IF r.who \in replaced THEN r.slots ELSE @ \cup r.slots]
Withdraw(av, r) == [av EXCEPT ![r.who] = Removed(@, r.slots)]

GivenTo(av, x) == FoldLeft(LAMBDA acc, r : Give(acc, r, x.replaced), av, x.given)

Merged(av, x) == FoldLeft(Withdraw, ImpliedInto(GivenTo(av, x), x.implied), x.removed)

-----------------------------------------------------------------------------
VARIABLES avail,      \* the availability of each person
          heard,      \* the messages interpreted so far
          confidence  \* last_processing
vars == <<avail, heard, confidence>>

TypeOK ==
  /\ avail \in [Who -> SUBSET Slot]
  /\ Len(heard) <= MaxHeard
  /\ \A i \in DOMAIN heard : \E j \in DOMAIN Messages : heard[i] \in Messages[j]
  /\ confidence \in {"none", "low", "medium", "high"}

Init ==
  /\ avail \in Beginnings
  /\ heard = <<>>
  /\ confidence = "none"

\* The whole handler, from the text to the saved session.
Hear ==
  /\ Len(heard) < MaxHeard
  /\ \E i \in DOMAIN Messages : \E m \in Messages[i] :
       LET x == Bound(Extraction(m), m)
       IN  /\ avail' = Merged(avail, x)
           /\ heard' = Append(heard, m)
           /\ confidence' = Confidence(x, m)

Done == Len(heard) = MaxHeard /\ UNCHANGED vars

Next == Hear \/ Done

Spec == Init /\ [][Next]_vars

-----------------------------------------------------------------------------
(* Properties *)

\* The hours of a set of slots.
Cover(slots) ==
  UNION {{<<s.week, s.day, h>> : h \in s.start .. s.end - 1} : s \in slots}

Now == heard'[Len(heard')]
Gains(who) == Cover(avail'[who]) \ Cover(avail[who])
Losses(who) == Cover(avail[who]) \ Cover(avail'[who])

Corrects(m) == \/ \E i \in DOMAIN m.entries : m.entries[i].kind = "replace"
               \/ \E i \in DOMAIN m.rules : m.rules[i].corrects

\* Nobody gains or loses an hour of a day that neither the text nor the round
\* supports, whatever the model answers; only "solo" reaches the whole week,
\* and a correction, what it replaces.
OnlyGroundedDays ==
  [][heard' # heard =>
       LET days == IF Written(Now) \cup Now.round # {} THEN Written(Now) \cup Now.round
                   ELSE IF Now.clock THEN {Today} ELSE {}
       IN  \A who \in Who :
             /\ \A c \in Gains(who) : c[2] \in days
             /\ Now.only \/ Corrects(Now) \/ \A c \in Losses(who) : c[2] \in days]_vars

\* No rule but the compiler has a say.
Plain(m) ==
  m.answered /\ ~m.channel /\ m.release = <<>> /\ m.onlys = <<>> /\ m.spans = <<>>

\* Something of an entry is kept: one of its days is allowed, or all of it is
\* moved to the only day there is.
Supported(e, m) ==
  \/ e.days \cap Allowed(m) # {}
  \/ Written(m) = {} /\ Cardinality(Allowed(m)) = 1

OnlyRefuses(who, m) ==
  \A i \in DOMAIN m.entries : m.entries[i].who = who => m.entries[i].kind = "unavailable"

\* An hour that a person refuses, on a day the text names, is not theirs
\* afterwards; and a person who only refuses gets no hour of a day that already
\* had some.
RefusalHolds ==
  [][heard' # heard /\ Plain(Now) =>
       \A i \in DOMAIN Now.entries :
         LET e   == Now.entries[i]
             own == {c \in Cover(Stretch(e)) : c[2] \in Written(Now)}
         IN  e.kind = "unavailable" /\ Usable(e) /\ e.who \in Now.names =>
               /\ Cover(avail'[e.who]) \cap own = {}
               /\ Supported(e, Now) /\ OnlyRefuses(e.who, Now) =>
                    \A c \in Gains(e.who), b \in Cover(avail[e.who]) :
                      <<c[1], c[2]>> # <<b[1], b[2]>>]_vars

\* What the text says of an exclusion the rule finds: "solo", and days with
\* hours.  The last one of a person counts, and a range across days of theirs
\* speaks later still.
LastWord(o, i, m) ==
  /\ m.only /\ o.slots # {} /\ DaysOf(o.slots) \subseteq Written(m)
  /\ \A j \in DOMAIN m.onlys : j > i => m.onlys[j].who # o.who
  /\ \A j \in DOMAIN m.spans : m.spans[j].who # o.who

\* After "solo puede ..." no hour of the working day is left on the other days
\* of that week, whatever else the message and the model say.
OnlyClearsOtherDays ==
  [][heard' # heard /\ ~Now.channel =>
       \A i \in DOMAIN Now.onlys :
         LET o == Now.onlys[i]
         IN  LastWord(o, i, Now) /\ o.who \in Now.names =>
               \A c \in Cover(avail'[o.who]) :
                 c[1] = o.week /\ c[3] \in WorkStart .. WorkEnd - 1
                   => c[2] \in DaysOf(o.slots)]_vars

\* In a group nobody's hours change but those of whoever wrote or was really
\* mentioned, and words about anybody else leave the session in doubt.
OwnWordsOnly ==
  [][heard' # heard /\ Now.channel =>
       \A who \in Who :
         LET own == who \in Now.writers \cup Now.mentioned
         IN  /\ avail'[who] # avail[who] => own
             /\ who \in Names(Extraction(Now).given) \ {Me} /\ ~own
                  => confidence' = "low"]_vars

\* Refuted: "solo puede ..." replaces what the person had said before (the
\* rule drops the model's own removal of the rest of the day).
OnlyReplaces ==
  [][heard' # heard /\ ~Now.channel =>
       \A i \in DOMAIN Now.onlys :
         LET o == Now.onlys[i]
         IN  o.who \in Now.names =>
               \A c \in Cover(avail'[o.who]) :
                 c[1] = o.week => c \in Cover(o.slots)]_vars

\* Refuted: after "solo puede ..." nothing at all is left on the other days of
\* that week.  Hours past the end of the working day, which the rules find
\* themselves, are not taken away (find_exclusive_availability_overrides).
OnlyClearsWeek ==
  [][heard' # heard /\ ~Now.channel =>
       \A i \in DOMAIN Now.onlys :
         LET o == Now.onlys[i]
         IN  LastWord(o, i, Now) /\ o.who \in Now.names =>
               \A c \in Cover(avail'[o.who]) :
                 c[1] = o.week => c[2] \in DaysOf(o.slots)]_vars

\* Refuted: some hour of an "only" is available afterwards (what it takes from
\* the other days is moved, with it, to the only day a bare hour can mean).
OnlyGives ==
  [][heard' # heard /\ Len(Now.entries) = 1 =>
       LET e == Now.entries[1]
       IN  e.kind = "only" /\ Usable(e) /\ e.who \in Now.names /\ Defaulted(Now)
             => Cover(avail'[e.who]) # {}]_vars
=============================================================================
