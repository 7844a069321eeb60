------------------------ MODULE CalendarEvents_proofs ------------------------
(***************************************************************************)
(* Safety of CalendarEvents for every length of the day, every set of      *)
(* options and any number of decisions, events and links.  Dates are plain *)
(* arithmetic on weeks; the inductive invariant says what the request that *)
(* holds the session's lock may rely on while the account, the clock and   *)
(* Google change.                                                          *)
(***************************************************************************)
EXTENDS CalendarEvents, FiniteSetTheorems, TLAPS

-----------------------------------------------------------------------------
(* Dates *)

LEMMA Constants ==
  /\ DayTicks \in Nat /\ DayTicks >= 1
  /\ \A o \in Offered : /\ o.day \in 0 .. 4
                        /\ o.tick \in 0 .. DayTicks - 1
                        /\ o.week \in Nat
  BY CalendarAssumption DEF OptionAt, Workday

LEMMA Product ==
  ASSUME NEW d \in Nat, d >= 1, NEW n \in Int, n >= 1
  PROVE  d * n \in Int /\ d * n >= d
  OBVIOUS

LEMMA Division ==
  ASSUME NEW n \in Nat, NEW d \in Nat, d >= 1
  PROVE  /\ n \div d \in Nat
         /\ n % d \in 0 .. d - 1
         /\ n = d * (n \div d) + (n % d)
  OBVIOUS

\* The quotient and the remainder are the only ones.
LEMMA Unique ==
  ASSUME NEW d \in Nat, d >= 1, NEW x \in Nat, NEW k \in 0 .. d - 1,
         NEW q \in Nat, NEW r \in 0 .. d - 1, d * x + k = d * q + r
  PROVE  q = x /\ r = k
  <1>1. d * (q - x) = d * q - d * x /\ d * (x - q) = d * x - d * q
    OBVIOUS
  <1>2. d * x \in Nat /\ d * q \in Nat
    OBVIOUS
  <1>3. ~(q - x >= 1)
    <2> SUFFICES ASSUME q - x >= 1
                 PROVE  FALSE
      OBVIOUS
    <2>1. d * (q - x) >= d
      BY Product
    <2> QED BY <2>1, <1>1, <1>2
  <1>4. ~(x - q >= 1)
    <2> SUFFICES ASSUME x - q >= 1
                 PROVE  FALSE
      OBVIOUS
    <2>1. d * (x - q) >= d
      BY Product
    <2> QED BY <2>1, <1>1, <1>2
  <1>5. q = x
    BY <1>3, <1>4
  <1> QED BY <1>2, <1>5

LEMMA Quotient ==
  ASSUME NEW d \in Nat, d >= 1, NEW x \in Nat, NEW k \in 0 .. d - 1
  PROVE  (d * x + k) \div d = x /\ (d * x + k) % d = k
  <1>1. d * x + k \in Nat
    OBVIOUS
  <1>2. PICK n \in Nat : n = d * x + k
    BY <1>1
  <1>3. n \div d \in Nat /\ n % d \in 0 .. d - 1 /\ n = d * (n \div d) + (n % d)
    BY Division
  <1>4. n \div d = x /\ n % d = k
    BY <1>2, <1>3, Unique
  <1> QED BY <1>2, <1>4

\* The Monday of a moment is a multiple of seven days, at most six before it.
LEMMA MondayBefore ==
  ASSUME NEW t \in Nat
  PROVE  /\ DayOf(t) \in Nat
         /\ DayTicks * DayOf(t) <= t /\ t < DayTicks * DayOf(t) + DayTicks
         /\ \E w \in Nat : Monday(t) = 7 * w
         /\ Monday(t) \in Nat
         /\ Monday(t) <= DayOf(t) /\ DayOf(t) <= Monday(t) + 6
  <1>1. DayTicks \in Nat /\ DayTicks >= 1
    BY Constants
  <1>2. PICK q \in Nat : q = DayOf(t)
    BY <1>1, Division DEF DayOf
  <1>3. PICK r \in 0 .. DayTicks - 1 : t = DayTicks * q + r
    <2>1. t % DayTicks \in 0 .. DayTicks - 1
          /\ t = DayTicks * DayOf(t) + (t % DayTicks)
      BY <1>1, Division, Zenon DEF DayOf
    <2> QED BY <1>2, <2>1, Zenon
  <1>4. DayTicks * q <= t /\ t < DayTicks * q + DayTicks
    <2>1. DayTicks * q \in Nat
      BY <1>1
    <2> QED BY <1>1, <1>3, <2>1
  <1>5. q \div 7 \in Nat /\ q % 7 \in 0 .. 6 /\ q = 7 * (q \div 7) + (q % 7)
    OBVIOUS
  <1>6. Monday(t) = q - (q % 7)
    BY <1>2 DEF Monday, DaysPerWeek
  <1>7. Monday(t) = 7 * (q \div 7)
    BY <1>5, <1>6
  <1> QED BY <1>2, <1>4, <1>5, <1>6, <1>7

\* The date of an option, seen at t.
LEMMA Date ==
  ASSUME NEW o \in Offered, NEW t \in Nat
  PROVE  /\ EventStart(o, t) \in Nat
         /\ EventStart(o, t) > t
         /\ DayOf(EventStart(o, t)) % DaysPerWeek = o.day
         /\ EventStart(o, t) % DayTicks = o.tick
         /\ o.week = 0 => EventStart(o, t) - DayTicks * DaysPerWeek <= t
  <1> DEFINE x == Monday(t) + 7 * o.week + o.day
             y == IF o.week = 0 /\ DayTicks * x + o.tick <= t THEN x + 7 ELSE x
  <1>1. /\ DayTicks \in Nat /\ DayTicks >= 1 /\ o.day \in 0 .. 4
        /\ o.tick \in 0 .. DayTicks - 1 /\ o.week \in Nat
    BY Constants
  <1>2. PICK w \in Nat : Monday(t) = 7 * w
    BY MondayBefore
  <1>3. /\ DayOf(t) \in Nat
        /\ DayTicks * DayOf(t) <= t /\ t < DayTicks * DayOf(t) + DayTicks
        /\ Monday(t) \in Nat
        /\ Monday(t) <= DayOf(t) /\ DayOf(t) <= Monday(t) + 6
    BY MondayBefore
  <1>4. x \in Nat /\ y \in Nat /\ (o.week >= 1 => x >= Monday(t) + 7)
    BY <1>1, <1>3
  <1>5. DayTicks * (x + 7) = DayTicks * x + DayTicks * 7
    BY <1>1, <1>4
  <1>6. EventStart(o, t) = DayTicks * y + o.tick
    BY <1>1, <1>4, <1>5 DEF EventStart, DaysPerWeek
  <1>7. \E v \in Nat : y = 7 * v + o.day
    <2>1. x = 7 * (w + o.week) + o.day /\ x + 7 = 7 * (w + o.week + 1) + o.day
      BY <1>1, <1>2
    <2>2. w + o.week \in Nat /\ w + o.week + 1 \in Nat
      BY <1>1
    <2>3. y = x \/ y = x + 7
      OBVIOUS
    <2> HIDE DEF x, y
    <2>4. CASE y = x
      BY <2>1, <2>2, <2>4
    <2>5. CASE y = x + 7
      BY <2>1, <2>2, <2>5
    <2> QED BY <2>3, <2>4, <2>5
  <1>8. y % 7 = o.day
    BY <1>1, <1>7
  <1>9. y >= DayOf(t) + 1 => EventStart(o, t) > t
    <2> SUFFICES ASSUME y >= DayOf(t) + 1
                 PROVE  EventStart(o, t) > t
      OBVIOUS
    <2>1. DayTicks * (y - DayOf(t)) >= DayTicks
      BY <1>1, <1>3, <1>4, Product
    <2>2. DayTicks * (y - DayOf(t)) = DayTicks * y - DayTicks * DayOf(t)
      BY <1>1, <1>3, <1>4
    <2>3. DayTicks * y \in Nat /\ DayTicks * DayOf(t) \in Nat
      BY <1>1, <1>3, <1>4
    <2> HIDE DEF x, y
    <2> QED BY <1>1, <1>3, <1>6, <2>1, <2>2, <2>3
  <1>10. EventStart(o, t) > t
    <2>1. CASE o.week >= 1
      <3>1. y >= DayOf(t) + 1
        BY <1>1, <1>3, <1>4, <2>1
      <3> QED BY <3>1, <1>9
    <2>2. CASE o.week = 0 /\ DayTicks * x + o.tick <= t
      <3>1. y = x + 7 /\ x >= Monday(t)
        BY <1>1, <1>3, <2>2
      <3>2. y >= DayOf(t) + 1
        BY <3>1, <1>3, <1>4
      <3> QED BY <3>2, <1>9
    <2>3. CASE o.week = 0 /\ ~(DayTicks * x + o.tick <= t)
      <3>1. y = x
        BY <2>3
      <3>2. DayTicks * x + o.tick \in Nat
        BY <1>1, <1>4
      <3> HIDE DEF x, y
      <3> QED BY <2>3, <3>1, <3>2, <1>6
    <2> QED BY <1>1, <2>1, <2>2, <2>3
  <1>11. o.week = 0 => EventStart(o, t) - DayTicks * DaysPerWeek <= t
    <2> SUFFICES ASSUME o.week = 0
                 PROVE  EventStart(o, t) - DayTicks * 7 <= t
      BY DEF DaysPerWeek
    <2>1. CASE DayTicks * x + o.tick <= t
      <3>1. y = x + 7
        BY <2>1
      <3>2. DayTicks * x \in Nat
        BY <1>1, <1>4
      <3>3. DayTicks * y = DayTicks * x + DayTicks * 7
        BY <3>1, <1>5
      <3> HIDE DEF x, y
      <3> QED BY <2>1, <3>2, <3>3, <1>1, <1>6
    <2>2. CASE ~(DayTicks * x + o.tick <= t)
      <3>1. y = x /\ x <= DayOf(t) + 4
        BY <2>2, <1>1, <1>3
      <3>2. DayTicks * (DayOf(t) + 7 - y) >= DayTicks
        BY <3>1, <1>1, <1>3, <1>4, Product
      <3>3. DayTicks * (DayOf(t) + 7 - y) = DayTicks * DayOf(t) + DayTicks * 7 - DayTicks * y
        BY <1>1, <1>3, <1>4
      <3>4. DayTicks * y \in Nat /\ DayTicks * DayOf(t) \in Nat /\ DayTicks * 7 \in Nat
        BY <1>1, <1>3, <1>4
      <3> HIDE DEF x, y
      <3> QED BY <3>2, <3>3, <3>4, <1>1, <1>3, <1>6
    <2> QED BY <2>1, <2>2
  <1>12. EventStart(o, t) \div DayTicks = y /\ EventStart(o, t) % DayTicks = o.tick
    <2> HIDE DEF x, y
    <2> QED BY <1>1, <1>4, <1>6, Quotient
  <1>13. EventStart(o, t) \in Nat
    BY <1>1, <1>4, <1>6
  <1> QED BY <1>8, <1>10, <1>11, <1>12, <1>13 DEF DayOf, DaysPerWeek

-----------------------------------------------------------------------------
(* The inductive invariant *)

\* TypeOK, with "at most one" said of the elements.
Few(S) == \A x, y \in S : x = y

Shape ==
  /\ now \in Nat
  /\ shown \subseteq [option : Offered, start : Nat]
  /\ selected \subseteq Offered /\ Few(selected)
  /\ event \subseteq Snapshot /\ Few(event)
  /\ history \in Seq(Snapshot) /\ Len(history) <= MaxDecisions
  /\ request \in [stage : Stages, created : {{}}]
       \cup [stage : {"created"}, created : {{i} : i \in 1 .. MaxEvents}]
  /\ answer \in {"none", "confirmed", "failed"}
  /\ account \subseteq Credential /\ Few(account)
  /\ DOMAIN pending \subseteq Links /\ \A l \in DOMAIN pending : pending[l] \in Nat
  /\ exchanging \subseteq Links
  /\ connected \in [Links -> Nat]
  /\ google \in Seq([option : Offered, start : Nat]) /\ Len(google) <= MaxEvents

\* EventIsTheDecisions, part by part.
LastIsInForce ==
  \A e \in event : /\ selected = {e.option}
                   /\ history # <<>> /\ history[Len(history)] = e

EachHasItsOwn ==
  \A i \in DOMAIN history : \A id \in history[i].id :
    /\ id \in DOMAIN google /\ Same(history[i], google[id])
    /\ \A j \in DOMAIN history : id \in history[j].id => j = i

AllDecided ==
  \A id \in DOMAIN google : \E i \in DOMAIN history : Same(history[i], google[id])

\* A request past the save finds the decision it saved, and an event it has
\* created is that decision's and nobody's yet.
Busy ==
  /\ selected # {} => event # {}
  /\ request.stage # "idle" => event # {}
  /\ request.stage = "created" =>
       \E i \in DOMAIN google :
         /\ request.created = {i}
         /\ \A e \in event : Same(e, google[i])
         /\ \A j \in DOMAIN history : i \notin history[j].id

\* A link that waits, or is being exchanged, has connected nothing, and is not
\* both.
LinksFresh ==
  /\ \A l \in DOMAIN pending : connected[l] = 0 /\ l \notin exchanging
  /\ \A l \in exchanging : connected[l] = 0
  /\ LinksWorkOnce

IInv == Shape /\ LastIsInForce /\ EachHasItsOwn /\ AllDecided /\ Busy

-----------------------------------------------------------------------------
(* What the actions read and write *)

LEMMA AtMostOne ==
  ASSUME NEW S, Few(S)
  PROVE  Cardinality(S) <= 1
  <1>1. CASE S = {}
    BY <1>1, FS_EmptySet
  <1>2. CASE S # {}
    <2>1. PICK x \in S : S = {x}
      BY <1>2 DEF Few
    <2> QED BY <2>1, FS_Singleton
  <1> QED BY <1>1, <1>2

LEMMA ShapeIsType == Shape => TypeOK
  BY AtMostOne DEF Shape, TypeOK

\* The event a busy request asks for is the decision in force.
LEMMA TheDecision ==
  ASSUME Shape, LastIsInForce, Busy, request.stage # "idle"
  PROVE  \E e \in event : /\ event = {e} /\ e \in Snapshot
                          /\ Asked = [option |-> e.option, start |-> e.start]
                          /\ Len(history) \in DOMAIN history
                          /\ history[Len(history)] = e
  <1>1. PICK e \in event : event = {e}
    BY DEF Busy, Shape, Few
  <1>2. (CHOOSE x \in event : TRUE) = e
    BY <1>1
  <1>3. e \in Snapshot
    BY <1>1 DEF Shape
  <1>4. history # <<>> /\ history[Len(history)] = e /\ history \in Seq(Snapshot)
    BY <1>1 DEF LastIsInForce, Shape
  <1>5. Len(history) \in DOMAIN history
    BY <1>4
  <1> QED BY <1>1, <1>2, <1>3, <1>4, <1>5 DEF Asked

\* What Attach writes.
LEMMA Attached ==
  ASSUME Shape, LastIsInForce, Busy, Attach
  PROVE  \E e \in event, i \in DOMAIN google, d \in Snapshot :
           /\ event = {e} /\ event' = {d}
           /\ d = [e EXCEPT !.id = {i}]
           /\ d.id = {i} /\ d.option = e.option /\ d.start = e.start
           /\ Same(e, google[i])
           /\ \A j \in DOMAIN history : i \notin history[j].id
           /\ Len(history) \in DOMAIN history
           /\ history[Len(history)] = e
           /\ history' = [history EXCEPT ![Len(history)] = d]
  <1>0. request.stage = "created"
    BY DEF Attach
  <1>1. PICK e \in event : /\ event = {e} /\ e \in Snapshot
                           /\ Len(history) \in DOMAIN history
                           /\ history[Len(history)] = e
    BY <1>0, TheDecision
  <1>2. PICK i \in DOMAIN google :
          /\ request.created = {i} /\ Same(e, google[i])
          /\ \A j \in DOMAIN history : i \notin history[j].id
    BY <1>0, <1>1 DEF Busy
  <1> DEFINE d == [e EXCEPT !.id = {i}]
  <1>3. i \in 1 .. MaxEvents
    BY CalendarAssumption DEF Shape
  <1>4. d \in Snapshot /\ d.id = {i} /\ d.option = e.option /\ d.start = e.start
    BY <1>1, <1>3 DEF Snapshot
  <1>5. event' = {d}
    BY <1>1, <1>2 DEF Attach
  <1>6. history # <<>>
    BY <1>1 DEF Shape
  <1>7. history' = [history EXCEPT ![Len(history)] = d]
    BY <1>1, <1>2, <1>6 DEF Attach
  <1> QED BY <1>1, <1>2, <1>4, <1>5, <1>7

-----------------------------------------------------------------------------
(* Steps *)

LEMMA InitInv == Init => IInv /\ LinksFresh
  <1> SUFFICES ASSUME Init
               PROVE  IInv /\ LinksFresh
    OBVIOUS
  <1>1. Shape
    BY CalendarAssumption DEF Init, Shape, Few, Idle, Stages, Credential, Links
  <1>2. LastIsInForce /\ EachHasItsOwn /\ AllDecided /\ Busy
    BY DEF Init, Idle, LastIsInForce, EachHasItsOwn, AllDecided, Busy
  <1>3. LinksFresh
    BY DEF Init, LinksFresh, LinksWorkOnce
  <1> QED BY <1>1, <1>2, <1>3 DEF IInv

LEMMA ShapeStep ==
  ASSUME IInv, [Next]_vars
  PROVE  Shape'
  <1> USE DEF IInv, Shape, Few, session, oauth
  <1>1. CASE UNCHANGED vars
    BY <1>1 DEF vars
  <1>2. CASE Tick
    BY <1>2 DEF Tick
  <1>3. CASE Show
    <2>1. \A o \in Offered : EventStart(o, now) \in Nat
      BY Date
    <2>2. shown' \subseteq [option : Offered, start : Nat]
      BY <1>3, <2>1 DEF Show
    <2> QED BY <1>3, <2>2 DEF Show
  <1>4. ASSUME NEW o \in Offered, Confirm(o)
        PROVE  Shape'
    <2> DEFINE snapshot == [option |-> o, start |-> EventStart(o, now), id |-> {}]
    <2>1. snapshot \in Snapshot
      BY Date DEF Snapshot
    <2>2. request' = [stage |-> "saved", created |-> {}]
      BY <1>4 DEF Confirm, Idle
    <2>3. CASE selected = {o} /\ UNCHANGED <<selected, event, history>>
      <3>1. UNCHANGED <<now, shown, answer, account, oauth, google>>
        BY <1>4 DEF Confirm
      <3> QED BY <2>2, <2>3, <3>1 DEF Stages
    <2>4. CASE /\ Len(history) < MaxDecisions
               /\ selected' = {o} /\ event' = {snapshot}
               /\ history' = Append(history, snapshot)
      <3> HIDE DEF snapshot
      <3>1. history' \in Seq(Snapshot) /\ Len(history') = Len(history) + 1
        BY <2>1, <2>4
      <3>2. Len(history') <= MaxDecisions
        BY <2>4, <3>1, CalendarAssumption
      <3>3. selected' \subseteq Offered /\ Few(selected)'
            /\ event' \subseteq Snapshot /\ Few(event)'
        BY <2>1, <2>4
      <3>4. UNCHANGED <<now, shown, answer, account, oauth, google>>
        BY <1>4 DEF Confirm
      <3> QED BY <2>2, <3>1, <3>2, <3>3, <3>4 DEF Stages
    <2> QED BY <1>4, <2>3, <2>4 DEF Confirm
  <1>5. CASE Cancel
    BY <1>5 DEF Cancel
  <1>6. CASE CheckAccount
    BY <1>6 DEF CheckAccount, Answer, Idle, Stages
  <1>7. CASE Authorise
    BY <1>7 DEF Authorise, Answer, Idle, Stages
  <1>8. CASE Create
    <2>1. Asked \in [option : Offered, start : Nat]
      BY <1>8, TheDecision DEF Create, Snapshot
    <2>2. CASE UNCHANGED google /\ request' = Idle /\ answer' \in {"confirmed", "failed"}
      BY <1>8, <2>2 DEF Create, Idle, Stages
    <2>3. CASE /\ Len(google) < MaxEvents /\ google' = Append(google, Asked)
               /\ \/ request' = [stage |-> "created", created |-> {NewId}] /\ UNCHANGED answer
                  \/ request' = Idle /\ answer' \in {"confirmed", "failed"}
      <3>1. google' \in Seq([option : Offered, start : Nat])
            /\ Len(google') = Len(google) + 1
        BY <2>1, <2>3
      <3>2. NewId \in 1 .. MaxEvents
        BY <2>3, CalendarAssumption DEF NewId
      <3>3. answer' \in {"none", "confirmed", "failed"}
        BY <2>3
      <3>4. request' \in [stage : Stages, created : {{}}]
              \cup [stage : {"created"}, created : {{i} : i \in 1 .. MaxEvents}]
        BY <2>3, <3>2 DEF Idle, Stages
      <3>5. Len(google') <= MaxEvents
        BY <2>3, <3>1, CalendarAssumption
      <3>6. UNCHANGED <<now, session, account, oauth>>
        BY <1>8 DEF Create
      <3> QED BY <3>1, <3>3, <3>4, <3>5, <3>6
    <2> QED BY <1>8, <2>2, <2>3 DEF Create, Answer
  <1>9. CASE Attach
    <2>1. PICK e \in event, d \in Snapshot :
            /\ event' = {d} /\ Len(history) \in DOMAIN history
            /\ history' = [history EXCEPT ![Len(history)] = d]
      BY <1>9, Attached
    <2>2. history' \in Seq(Snapshot) /\ Len(history') = Len(history)
      BY <2>1
    <2> QED BY <1>9, <2>1, <2>2 DEF Attach, Answer, Idle, Stages
  <1>10. ASSUME NEW l \in Links, NewLink(l)
         PROVE  Shape'
    <2>1. \A x \in DOMAIN pending' : x \in Links /\ pending'[x] \in Nat
      BY <1>10, CalendarAssumption DEF NewLink, Alive, Restrict
    <2> QED BY <1>10, <2>1 DEF NewLink
  <1>11. ASSUME NEW l \in Links, BeginCallback(l)
         PROVE  Shape'
    <2>1. \A x \in DOMAIN pending' : x \in Links /\ pending'[x] \in Nat
      BY <1>11 DEF BeginCallback, Taken, Alive, Restrict
    <2> QED BY <1>11, <2>1 DEF BeginCallback
  <1>12. ASSUME NEW l \in Links, FinishCallback(l)
         PROVE  Shape'
    <2>1. account' \subseteq Credential /\ Few(account)'
      BY <1>12 DEF FinishCallback, Credential
    <2>2. connected' \in [Links -> Nat]
      BY <1>12 DEF FinishCallback
    <2>3. exchanging' \subseteq Links
          /\ UNCHANGED <<now, session, request, answer, pending, google>>
      BY <1>12 DEF FinishCallback
    <2> QED BY <2>1, <2>2, <2>3
  <1>13. CASE Disconnect
    BY <1>13 DEF Disconnect
  <1>14. CASE Revoke
    BY <1>14 DEF Revoke, Credential
  <1>15. CASE Restart
    BY <1>15 DEF Restart, Idle, Stages, Credential
  <1> QED BY <1>1, <1>2, <1>3, <1>4, <1>5, <1>6, <1>7, <1>8, <1>9, <1>10, <1>11,
             <1>12, <1>13, <1>14, <1>15 DEF Next

\* The steps that decide, or write to the calendar or to the history.
Writes == Cancel \/ Create \/ Attach \/ \E o \in Offered : Confirm(o)

LEMMA OtherSteps ==
  ASSUME IInv, [Next]_vars, ~Writes
  PROVE  /\ UNCHANGED <<selected, event, history, google>>
         /\ \/ UNCHANGED request
            \/ request' = Idle
            \/ /\ request.stage # "idle"
               /\ request'.stage \in {"connected", "authorised"}
  <1>1. CASE UNCHANGED vars
    BY <1>1 DEF vars, session
  <1>2. CASE Tick \/ Show
    BY <1>2 DEF Tick, Show, session
  <1>3. CASE CheckAccount
    BY <1>3 DEF CheckAccount, Answer, Idle, session
  <1>4. CASE Authorise
    BY <1>4 DEF Authorise, Answer, Idle, session
  <1>5. CASE \E l \in Links : NewLink(l) \/ BeginCallback(l) \/ FinishCallback(l)
    BY <1>5 DEF NewLink, BeginCallback, FinishCallback, session
  <1>6. CASE Disconnect \/ Revoke \/ Restart
    BY <1>6 DEF Disconnect, Revoke, Restart, session
  <1> QED BY <1>1, <1>2, <1>3, <1>4, <1>5, <1>6 DEF Next, Writes

LEMMA DecisionsStep ==
  ASSUME IInv, [Next]_vars
  PROVE  LastIsInForce' /\ EachHasItsOwn' /\ AllDecided' /\ Busy'
  <1>0. history \in Seq(Snapshot) /\ google \in Seq([option : Offered, start : Nat])
    BY DEF IInv, Shape
  <1>1. CASE ~Writes
    <2>1. UNCHANGED <<selected, event, history, google>>
      BY <1>1, OtherSteps
    <2>2. LastIsInForce' /\ EachHasItsOwn' /\ AllDecided'
      BY <2>1 DEF IInv, LastIsInForce, EachHasItsOwn, AllDecided
    <2>3. Busy'
      BY <1>1, <2>1, OtherSteps DEF IInv, Busy, Idle
    <2> QED BY <2>2, <2>3
  <1>2. CASE Cancel
    <2>1. LastIsInForce' /\ EachHasItsOwn' /\ AllDecided'
      BY <1>2 DEF Cancel, IInv, LastIsInForce, EachHasItsOwn, AllDecided
    <2>2. Busy'
      BY <1>2 DEF Cancel, Busy, Idle
    <2> QED BY <2>1, <2>2
  <1>3. ASSUME NEW o \in Offered, Confirm(o)
        PROVE  LastIsInForce' /\ EachHasItsOwn' /\ AllDecided' /\ Busy'
    <2> DEFINE snapshot == [option |-> o, start |-> EventStart(o, now), id |-> {}]
    <2>0. request'.stage = "saved" /\ google' = google
      BY <1>3 DEF Confirm, Idle
    <2>1. CASE selected = {o} /\ UNCHANGED <<selected, event, history>>
      <3>1. LastIsInForce' /\ EachHasItsOwn' /\ AllDecided'
        BY <2>0, <2>1 DEF IInv, LastIsInForce, EachHasItsOwn, AllDecided
      <3>2. Busy'
        BY <2>0, <2>1 DEF IInv, Busy
      <3> QED BY <3>1, <3>2
    <2>2. CASE /\ selected' = {o} /\ event' = {snapshot}
               /\ history' = Append(history, snapshot)
      <3>0. snapshot.id = {} /\ snapshot.option = o
        OBVIOUS
      <3> HIDE DEF snapshot
      <3>1. /\ Len(history') = Len(history) + 1
            /\ DOMAIN history' = DOMAIN history \cup {Len(history')}
            /\ \A j \in DOMAIN history : history'[j] = history[j]
            /\ history'[Len(history')] = snapshot /\ history' # <<>>
        BY <1>0, <2>2
      <3>2. LastIsInForce'
        BY <2>2, <3>0, <3>1 DEF LastIsInForce
      <3>3. EachHasItsOwn'
        BY <2>0, <3>0, <3>1 DEF IInv, EachHasItsOwn
      <3>4. AllDecided'
        BY <2>0, <3>1 DEF IInv, AllDecided
      <3>5. Busy'
        BY <2>0, <2>2 DEF Busy
      <3> QED BY <3>2, <3>3, <3>4, <3>5
    <2> QED BY <1>3, <2>1, <2>2 DEF Confirm
  <1>4. CASE Create
    <2>0. UNCHANGED <<selected, event, history>> /\ request.stage = "authorised"
      BY <1>4 DEF Create, session
    <2>1. CASE UNCHANGED google /\ request' = Idle
      <3>1. LastIsInForce' /\ EachHasItsOwn' /\ AllDecided'
        BY <2>0, <2>1 DEF IInv, LastIsInForce, EachHasItsOwn, AllDecided
      <3>2. Busy'
        BY <2>0, <2>1 DEF IInv, Busy, Idle
      <3> QED BY <3>1, <3>2
    <2>2. CASE /\ google' = Append(google, Asked)
               /\ \/ request' = [stage |-> "created", created |-> {NewId}]
                  \/ request' = Idle
      <3>1. PICK e \in event : /\ event = {e} /\ Asked = [option |-> e.option, start |-> e.start]
                               /\ Len(history) \in DOMAIN history
                               /\ history[Len(history)] = e
        BY <2>0, TheDecision DEF IInv
      <3>2. Same(e, Asked)
        BY <3>1 DEF Same
      <3>3. /\ DOMAIN google' = DOMAIN google \cup {NewId}
            /\ \A j \in DOMAIN google : google'[j] = google[j]
            /\ google'[NewId] = Asked
            /\ NewId \notin DOMAIN google
        BY <1>0, <2>2 DEF NewId
      <3>4. LastIsInForce'
        BY <2>0 DEF IInv, LastIsInForce
      <3>5. EachHasItsOwn'
        BY <2>0, <3>3 DEF IInv, EachHasItsOwn
      <3>6. AllDecided'
        BY <2>0, <3>1, <3>2, <3>3 DEF IInv, AllDecided
      <3>7. \A j \in DOMAIN history : NewId \notin history[j].id
        BY <3>3 DEF IInv, EachHasItsOwn
      <3>8. Busy'
        BY <2>0, <2>2, <3>1, <3>2, <3>3, <3>7 DEF IInv, Busy, Idle
      <3> QED BY <3>4, <3>5, <3>6, <3>8
    <2> QED BY <1>4, <2>1, <2>2 DEF Create, Answer
  <1>5. CASE Attach
    <2> DEFINE n == Len(history)
    <2>1. PICK e \in event, i \in DOMAIN google, d \in Snapshot :
            /\ event = {e} /\ event' = {d}
            /\ d.id = {i} /\ d.option = e.option /\ d.start = e.start
            /\ Same(e, google[i])
            /\ \A j \in DOMAIN history : i \notin history[j].id
            /\ n \in DOMAIN history
            /\ history[n] = e
            /\ history' = [history EXCEPT ![n] = d]
      BY <1>5, Attached DEF IInv
    <2>2. UNCHANGED <<selected, google>> /\ request' = Idle
      BY <1>5 DEF Attach, Answer
    <2>3. /\ DOMAIN history' = DOMAIN history /\ Len(history') = n
          /\ \A j \in DOMAIN history : j # n => history'[j] = history[j]
          /\ history'[n] = d /\ history' # <<>>
      BY <1>0, <2>1
    <2>4. \A g : Same(d, g) <=> Same(e, g)
      BY <2>1 DEF Same
    <2> HIDE DEF n
    <2>5. LastIsInForce'
      BY <2>1, <2>2, <2>3 DEF IInv, LastIsInForce
    <2>6. EachHasItsOwn'
      BY <2>1, <2>2, <2>3, <2>4 DEF IInv, EachHasItsOwn
    <2>7. AllDecided'
      BY <2>1, <2>2, <2>3, <2>4 DEF IInv, AllDecided
    <2>8. Busy'
      BY <2>1, <2>2 DEF Busy, Idle
    <2> QED BY <2>5, <2>6, <2>7, <2>8
  <1> QED BY <1>1, <1>2, <1>3, <1>4, <1>5 DEF Writes

LEMMA LinksStep ==
  ASSUME Shape, LinksFresh, [Next]_vars
  PROVE  LinksFresh'
  <1> USE DEF LinksFresh, LinksWorkOnce
  <1>1. CASE UNCHANGED oauth
    BY <1>1 DEF oauth
  <1>2. ASSUME NEW l \in Links, NewLink(l)
        PROVE  LinksFresh'
    <2>1. DOMAIN pending' \subseteq DOMAIN pending \cup {l}
          /\ UNCHANGED <<exchanging, connected>>
      BY <1>2 DEF NewLink, Alive, Restrict
    <2> QED BY <1>2, <2>1 DEF NewLink
  <1>3. ASSUME NEW l \in Links, BeginCallback(l)
        PROVE  LinksFresh'
    <2>1. /\ DOMAIN pending' \subseteq DOMAIN pending \ {l}
          /\ exchanging' \subseteq exchanging \cup {l}
          /\ exchanging' # exchanging => l \in DOMAIN pending
          /\ connected' = connected
      BY <1>3 DEF BeginCallback, Taken, Alive, Restrict
    <2> QED BY <2>1
  <1>4. ASSUME NEW l \in Links, FinishCallback(l)
        PROVE  LinksFresh'
    <2>1. l \in exchanging /\ exchanging' = exchanging \ {l} /\ pending' = pending
      BY <1>4 DEF FinishCallback
    <2>2. connected[l] = 0 /\ connected \in [Links -> Nat]
      BY <2>1 DEF Shape
    <2>3. \A x \in Links : /\ connected'[x] <= 1
                           /\ x # l => connected'[x] = connected[x]
      BY <1>4, <2>2 DEF FinishCallback
    <2>4. DOMAIN pending \subseteq Links /\ exchanging \subseteq Links
      BY DEF Shape
    <2> QED BY <2>1, <2>3, <2>4
  <1>5. CASE Restart
    BY <1>5 DEF Restart
  <1>6. CASE Tick \/ Show \/ Cancel \/ CheckAccount \/ Authorise \/ Disconnect \/ Revoke
    BY <1>6, <1>1 DEF Tick, Show, Cancel, CheckAccount, Authorise, Disconnect, Revoke
  <1>7. CASE Create \/ Attach \/ \E o \in Offered : Confirm(o)
    BY <1>7, <1>1 DEF Create, Attach, Confirm
  <1>8. CASE UNCHANGED vars
    BY <1>8, <1>1 DEF vars
  <1> QED BY <1>2, <1>3, <1>4, <1>5, <1>6, <1>7, <1>8 DEF Next

LEMMA AheadStep ==
  ASSUME IInv, [Next]_vars, Len(history') > Len(history)
  PROVE  LET d == history'[Len(history')]
             earlier == d.start - DayTicks * DaysPerWeek
         IN  /\ d.start > now
             /\ DayOf(d.start) % DaysPerWeek = d.option.day
             /\ d.start % DayTicks = d.option.tick
             /\ d.option.week = 0 => earlier <= now
  <1>0. history \in Seq(Snapshot) /\ now \in Nat
    BY DEF IInv, Shape
  <1>1. \E o \in Offered : Confirm(o)
    <2>1. Writes
      BY <1>0, OtherSteps
    <2>2. ~Attach
      <3> SUFFICES ASSUME Attach
                   PROVE  FALSE
        OBVIOUS
      <3>1. PICK e \in event, d \in Snapshot : history' = [history EXCEPT ![Len(history)] = d]
        BY Attached DEF IInv
      <3> QED BY <1>0, <3>1
    <2>3. ~Cancel /\ ~Create
      BY <1>0 DEF Cancel, Create, session
    <2> QED BY <2>1, <2>2, <2>3 DEF Writes
  <1>2. PICK o \in Offered : Confirm(o)
    BY <1>1
  <1> DEFINE snapshot == [option |-> o, start |-> EventStart(o, now), id |-> {}]
  <1>3. history' = Append(history, snapshot)
    BY <1>0, <1>2 DEF Confirm
  <1>4. history'[Len(history')] = snapshot
    BY <1>0, <1>3
  <1>5. snapshot.option = o /\ snapshot.start = EventStart(o, now)
    OBVIOUS
  <1> HIDE DEF snapshot
  <1> QED BY <1>0, <1>4, <1>5, Date

-----------------------------------------------------------------------------
(* Theorems *)

LEMMA Invariant == Spec => [](IInv /\ LinksFresh)
  <1>1. Init => IInv /\ LinksFresh
    BY InitInv
  <1>2. IInv /\ LinksFresh /\ [Next]_vars => (IInv /\ LinksFresh)'
    <2> SUFFICES ASSUME IInv, LinksFresh, [Next]_vars
                 PROVE  IInv' /\ LinksFresh'
      OBVIOUS
    <2>1. Shape'
      BY ShapeStep
    <2>2. LastIsInForce' /\ EachHasItsOwn' /\ AllDecided' /\ Busy'
      BY DecisionsStep
    <2>3. LinksFresh'
      BY LinksStep DEF IInv
    <2> QED BY <2>1, <2>2, <2>3 DEF IInv
  <1> QED BY <1>1, <1>2, PTL DEF Spec

\* The variables keep their types and their bounds.
THEOREM Typed == Spec => []TypeOK
  <1>1. IInv => TypeOK
    BY ShapeIsType DEF IInv
  <1> QED BY <1>1, Invariant, PTL

\* The session's event is the calendar's event of the decision in force, an
\* event belongs to one decision, and every event was decided.
THEOREM Faithful == Spec => []EventIsTheDecisions
  <1>1. IInv => EventIsTheDecisions
    BY DEF IInv, LastIsInForce, EachHasItsOwn, AllDecided, EventIsTheDecisions
  <1> QED BY <1>1, Invariant, PTL

\* Whatever the hour and the option, a decision lies ahead, on its weekday and
\* at its hour, and a decision of this week lies in the first week that can be.
THEOREM Ahead == Spec => ConfirmedAhead
  <1>1. IInv /\ [Next]_vars =>
          [Len(history') > Len(history) =>
             LET d == history'[Len(history')]
                 earlier == d.start - DayTicks * DaysPerWeek
             IN  /\ d.start > now
                 /\ DayOf(d.start) % DaysPerWeek = d.option.day
                 /\ d.start % DayTicks = d.option.tick
                 /\ d.option.week = 0 => earlier <= now]_vars
    BY AheadStep
  <1> QED BY <1>1, Invariant, PTL DEF Spec, ConfirmedAhead

\* An authorisation link connects at most one account, however often and
\* whenever the browser returns with it.
THEOREM LinkOnce == Spec => []LinksWorkOnce
  <1>1. LinksFresh => LinksWorkOnce
    BY DEF LinksFresh
  <1> QED BY <1>1, Invariant, PTL
=============================================================================
