-------------------------- MODULE GatewayQueue_proofs --------------------------
(***************************************************************************)
(* The gateway implements Delivery, for any number of messages, groups,    *)
(* attempts and faults, and any size of the queue and of its memory.  The  *)
(* inductive invariant says what the queue, the item of the drain loop,    *)
(* the remembered ids and the sent parts know of each other between two    *)
(* awaits.                                                                 *)
(***************************************************************************)
EXTENDS GatewayQueue, FiniteSetTheorems, SequenceTheorems, TLAPS

Drains == [sock : 0 .. sockets, id : 0 .. LastMessage, step : {"idle", "call"} \cup Part]

Types ==
  /\ TypeOK
  /\ sockets \in Nat \ {0}
  /\ drain \in Drains
  /\ handled \in Seq(Message)
  /\ ignored \subseteq Message

Got(id, part) == \E i \in DOMAIN sent : sent[i] = [id |-> id, part |-> part]

\* Only messages that arrived are queued, remembered, sent or dead; no message
\* is remembered twice.
Arrivals ==
  /\ \A i \in DOMAIN items : items[i].id <= arrived
  /\ \A i \in DOMAIN recent : recent[i] <= arrived
  /\ \A i, j \in DOMAIN recent : recent[i] = recent[j] => i = j
  /\ \A i \in DOMAIN sent : sent[i].id <= arrived
  /\ \A m \in dead : m <= arrived

\* The loop works on the first item of a group.
HeadOf(q, id) == \E i \in Heads(q) : q[i].id = id
Taken == drain.step # "idle" => HeadOf(items, drain.id)

\* What is sent answers the kind of message of the loop, and was not sent yet.
Steps ==
  /\ drain.step \in {"reply", "unlinked"} => KindOf[drain.id] \in {"ask", "decide"}
  /\ drain.step \in {"reply", "document"} => Group \in linked
  /\ drain.step = "document" => KindOf[drain.id] = "decide" /\ Current.primarySent
  /\ drain.step \in {"linked", "refused"} => KindOf[drain.id] = "link"
  /\ drain.step \in Part \ {"document"} => ~Current.primarySent

\* An item has progress only if the reply of a decision was sent.
Progressed ==
  \A i \in DOMAIN items :
    /\ ~items[i].documentSent
    /\ items[i].primarySent =>
         /\ KindOf[items[i].id] = "decide"
         /\ GroupOf[items[i].id] \in linked
         /\ Got(items[i].id, "reply")

\* While nothing was lost or forgotten: what was sent of a queued message is
\* its progress, and a message that is not queued is remembered or dead.
Answered ==
  ~Unsure =>
    \A i \in DOMAIN items, part \in Part :
      items[i].id \notin dead /\ Got(items[i].id, part)
        => part = "reply" /\ items[i].primarySent

Remembering ==
  ~Unsure => \A m \in 1 .. arrived : Queued(m) \/ m \in dead \/ m \in ToSet(recent)

IInv ==
  /\ Types /\ Arrivals /\ Taken /\ Steps
  /\ Progressed /\ Answered /\ Remembering

-----------------------------------------------------------------------------
LEMMA Limits ==
  /\ LastMessage \in Nat \ {0} /\ QueueLimit \in Nat \ {0}
  /\ MaxAttempts \in Nat \ {0} /\ RecentLimit \in Nat \ {0}
  BY GatewayAssumption

(* Sequences *)

LEMMA Appending ==
  ASSUME NEW S, NEW s \in Seq(S), NEW e \in S
  PROVE  /\ Append(s, e) \in Seq(S)
         /\ DOMAIN s = 1 .. Len(s)
         /\ DOMAIN Append(s, e) = 1 .. Len(s) + 1
         /\ Len(s) \in Nat
         /\ Len(Append(s, e)) = Len(s) + 1
         /\ \A i \in 1 .. Len(s) : Append(s, e)[i] = s[i]
         /\ Append(s, e)[Len(s) + 1] = e
  OBVIOUS

LEMMA Removing ==
  ASSUME NEW S, NEW s \in Seq(S), NEW k \in 1 .. Len(s)
  PROVE  /\ RemoveAt(s, k) \in Seq(S)
         /\ Len(s) \in Nat
         /\ Len(RemoveAt(s, k)) = Len(s) - 1
         /\ DOMAIN RemoveAt(s, k) = 1 .. Len(s) - 1
         /\ \A i \in 1 .. Len(s) - 1 : RemoveAt(s, k)[i] = IF i < k THEN s[i] ELSE s[i + 1]
  <1> DEFINE a == SubSeq(s, 1, k - 1)
             b == SubSeq(s, k + 1, Len(s))
  <1>1. Len(s) \in Nat /\ k \in Int /\ 1 <= k /\ k <= Len(s) /\ \A i \in 1 .. Len(s) : s[i] \in S
    BY LenProperties, ElementOfSeq
  <1>2. /\ a \in Seq(S)
        /\ Len(a) = k - 1
        /\ \A i \in 1 .. k - 1 : a[i] = s[i]
    <2>1. \A i \in 1 .. k - 1 : s[i] \in S
      BY <1>1
    <2>2. 1 \in Int /\ k - 1 \in Int
      BY <1>1
    <2>3. /\ SubSeq(s, 1, k - 1) \in Seq(S)
          /\ Len(SubSeq(s, 1, k - 1)) = IF 1 <= k - 1 THEN (k - 1) - 1 + 1 ELSE 0
          /\ \A i \in 1 .. (k - 1) - 1 + 1 : SubSeq(s, 1, k - 1)[i] = s[1 + i - 1]
      BY <2>1, <2>2, SubSeqProperties
    <2> QED BY <1>1, <2>3
  <1>3. /\ b \in Seq(S)
        /\ Len(b) = Len(s) - k
        /\ \A i \in 1 .. Len(s) - k : b[i] = s[k + i]
    <2>1. \A i \in k + 1 .. Len(s) : s[i] \in S
      BY <1>1
    <2>2. k + 1 \in Int /\ Len(s) \in Int
      BY <1>1
    <2>3. /\ SubSeq(s, k + 1, Len(s)) \in Seq(S)
          /\ Len(SubSeq(s, k + 1, Len(s))) = IF k + 1 <= Len(s) THEN Len(s) - (k + 1) + 1 ELSE 0
          /\ \A i \in 1 .. Len(s) - (k + 1) + 1 :
               SubSeq(s, k + 1, Len(s))[i] = s[(k + 1) + i - 1]
      BY <2>1, <2>2, SubSeqProperties
    <2> QED BY <1>1, <2>3
  <1> HIDE DEF a, b
  <1>4. /\ a \o b \in Seq(S)
        /\ Len(a \o b) = Len(a) + Len(b)
        /\ \A i \in 1 .. Len(a) + Len(b) :
             (a \o b)[i] = IF i <= Len(a) THEN a[i] ELSE b[i - Len(a)]
    BY <1>2, <1>3, ConcatProperties
  <1>5. RemoveAt(s, k) = a \o b
    BY DEF RemoveAt, a, b
  <1>6. Len(RemoveAt(s, k)) = Len(s) - 1
    BY <1>1, <1>2, <1>3, <1>4, <1>5
  <1>7. ASSUME NEW i \in 1 .. Len(s) - 1
        PROVE  RemoveAt(s, k)[i] = IF i < k THEN s[i] ELSE s[i + 1]
    <2>1. i \in 1 .. Len(a) + Len(b)
      BY <1>1, <1>2, <1>3
    <2>2. CASE i < k
      BY <1>1, <1>2, <1>4, <1>5, <2>1, <2>2
    <2>3. CASE ~(i < k)
      <3>1. i - Len(a) \in 1 .. Len(s) - k /\ ~(i <= Len(a))
        BY <1>1, <1>2, <2>3
      <3>2. b[i - Len(a)] = s[k + (i - Len(a))]
        BY <1>3, <3>1
      <3>3. k + (i - Len(a)) = i + 1
        BY <1>1, <1>2
      <3> QED BY <1>4, <1>5, <2>1, <2>3, <3>1, <3>2, <3>3
    <2> QED BY <2>2, <2>3
  <1>8. DOMAIN RemoveAt(s, k) = 1 .. Len(s) - 1
    BY <1>4, <1>5, <1>6, LenProperties
  <1> QED BY <1>1, <1>4, <1>5, <1>6, <1>7, <1>8

LEMMA NaturalOrder ==
  \E R : IsWellFoundedOn(R, Nat) /\ \A i, j \in Nat : i < j => <<i, j>> \in R
  <1>1. \A i, j \in Nat : i < j => <<i, j>> \in OpToRel(<, Nat)
    BY DEF OpToRel
  <1> QED BY <1>1, NatLessThanWellFounded

\* A set of positions has a first one.
LEMMA FirstPosition ==
  ASSUME NEW T, T \subseteq Nat, T # {}
  PROVE  \E i \in T : \A j \in T : i <= j
  <1>1. PICK R : IsWellFoundedOn(R, Nat) /\ \A i, j \in Nat : i < j => <<i, j>> \in R
    BY NaturalOrder
  <1>2. PICK i \in T : \A j \in T : ~ (<<j, i>> \in R)
    <2>1. IsWellFoundedOn(R, Nat)
      BY <1>1
    <2> QED BY <2>1, WFMin, ZenonT(60)
  <1>3. \A j \in T : ~(j < i)
    BY <1>1, <1>2
  <1> QED BY <1>2, <1>3

-----------------------------------------------------------------------------
(* The queue *)

Fits(q) ==
  /\ q \in Seq(Item)
  /\ \A i, j \in DOMAIN q : q[i].id = q[j].id => i = j

\* What Delivery sees of a queue.
Ids(q) == [i \in DOMAIN q |-> q[i].id]

LEMMA ItemFields ==
  ASSUME NEW item \in Item
  PROVE  /\ item.id \in Message
         /\ item.attempts \in 0 .. MaxAttempts - 1
         /\ item.ready \in BOOLEAN /\ item.primarySent \in BOOLEAN /\ item.documentSent \in BOOLEAN
  BY DEF Item

LEMMA QueueFields ==
  ASSUME NEW q, Fits(q)
  PROVE  /\ Len(q) \in Nat
         /\ DOMAIN q = 1 .. Len(q)
         /\ \A i \in DOMAIN q : q[i] \in Item /\ q[i].id \in Message
         /\ Ids(q) \in Seq(Message)
         /\ Len(Ids(q)) = Len(q)
         /\ DOMAIN Ids(q) = 1 .. Len(q)
         /\ \A i \in DOMAIN q : Ids(q)[i] = q[i].id
  <1>1. Len(q) \in Nat /\ DOMAIN q = 1 .. Len(q)
    BY LenProperties DEF Fits
  <1>2. \A i \in DOMAIN q : q[i] \in Item
    BY <1>1, ElementOfSeq DEF Fits
  <1>3. \A i \in DOMAIN q : q[i].id \in Message
    BY <1>2, ItemFields
  <1>4. Ids(q) \in [1 .. Len(q) -> Message]
    BY <1>1, <1>3 DEF Ids
  <1>5. Ids(q) \in Seq(Message) /\ Len(Ids(q)) = Len(q)
    BY <1>1, <1>4
  <1> QED BY <1>1, <1>2, <1>3, <1>4, <1>5 DEF Ids

LEMMA QueueRemoves ==
  ASSUME NEW q, Fits(q), NEW k \in DOMAIN q
  PROVE  /\ Fits(RemoveAt(q, k))
         /\ Len(RemoveAt(q, k)) = Len(q) - 1
         /\ Ids(RemoveAt(q, k)) = RemoveAt(Ids(q), k)
         /\ \A i \in DOMAIN RemoveAt(q, k) :
              \E j \in DOMAIN q : j # k /\ RemoveAt(q, k)[i] = q[j]
         /\ \A j \in DOMAIN q :
              j # k => \E i \in DOMAIN RemoveAt(q, k) : RemoveAt(q, k)[i] = q[j]
  <1> DEFINE r == RemoveAt(q, k)
             w == RemoveAt(Ids(q), k)
  <1>1. /\ q \in Seq(Item)
        /\ Len(q) \in Nat /\ DOMAIN q = 1 .. Len(q)
        /\ Ids(q) \in Seq(Message) /\ Len(Ids(q)) = Len(q)
        /\ \A i \in DOMAIN q : Ids(q)[i] = q[i].id
        /\ k \in 1 .. Len(q) /\ k \in 1 .. Len(Ids(q))
    BY QueueFields DEF Fits
  <1>2. /\ r \in Seq(Item)
        /\ Len(r) = Len(q) - 1
        /\ DOMAIN r = 1 .. Len(q) - 1
        /\ \A i \in 1 .. Len(q) - 1 : r[i] = IF i < k THEN q[i] ELSE q[i + 1]
    BY <1>1, Removing
  <1>3. /\ w \in Seq(Message)
        /\ Len(w) = Len(q) - 1
        /\ \A i \in 1 .. Len(q) - 1 : w[i] = IF i < k THEN Ids(q)[i] ELSE Ids(q)[i + 1]
    BY <1>1, Removing
  <1> HIDE DEF r, w
  <1>4. \A i \in DOMAIN r : r[i] = q[IF i < k THEN i ELSE i + 1]
    BY <1>1, <1>2
  <1>5. ASSUME NEW i \in DOMAIN r, NEW j \in DOMAIN r, r[i].id = r[j].id
        PROVE  i = j
    <2> DEFINE x == IF i < k THEN i ELSE i + 1
               y == IF j < k THEN j ELSE j + 1
    <2>1. x \in DOMAIN q /\ y \in DOMAIN q
      BY <1>1, <1>2
    <2>2. r[i] = q[x] /\ r[j] = q[y]
      BY <1>4
    <2>3. x = y
      <3> HIDE DEF x, y
      <3> QED BY <1>5, <2>1, <2>2 DEF Fits
    <2> QED BY <1>1, <1>2, <2>3
  <1>6. Fits(r)
    BY <1>2, <1>5 DEF Fits
  <1>7. Ids(r) = w
    <2>1. /\ Ids(r) \in Seq(Message) /\ Len(Ids(r)) = Len(q) - 1
          /\ \A i \in 1 .. Len(q) - 1 : Ids(r)[i] = r[i].id
      BY <1>2, <1>6, QueueFields
    <2>2. ASSUME NEW i \in 1 .. Len(q) - 1
          PROVE  Ids(r)[i] = w[i]
      <3>1. Ids(r)[i] = r[i].id /\ i \in DOMAIN q /\ i + 1 \in DOMAIN q
        BY <1>1, <2>1
      <3>2. CASE i < k
        BY <1>1, <1>2, <1>3, <3>1, <3>2
      <3>3. CASE ~(i < k)
        BY <1>1, <1>2, <1>3, <3>1, <3>3
      <3> QED BY <3>2, <3>3
    <2> QED BY <1>3, <2>1, <2>2, SeqEqual
  <1>8. \A i \in DOMAIN r : \E j \in DOMAIN q : j # k /\ r[i] = q[j]
    <2> TAKE i \in DOMAIN r
    <2> DEFINE x == IF i < k THEN i ELSE i + 1
    <2>1. x \in DOMAIN q /\ x # k
      BY <1>1, <1>2
    <2> QED BY <1>4, <2>1
  <1>9. \A j \in DOMAIN q : j # k => \E i \in DOMAIN r : r[i] = q[j]
    <2> SUFFICES ASSUME NEW j \in DOMAIN q, j # k
                 PROVE  \E i \in DOMAIN r : r[i] = q[j]
      OBVIOUS
    <2> DEFINE x == IF j < k THEN j ELSE j - 1
    <2>1. x \in DOMAIN r
      BY <1>1, <1>2
    <2>2. r[x] = q[j]
      BY <1>1, <1>2
    <2> QED BY <2>1, <2>2
  <1> QED BY <1>2, <1>6, <1>7, <1>8, <1>9 DEF r, w

LEMMA QueueGrows ==
  ASSUME NEW q, Fits(q), NEW m \in Message, \A i \in DOMAIN q : q[i].id # m
  PROVE  /\ Fits(Append(q, NewItem(m)))
         /\ Len(Append(q, NewItem(m))) = Len(q) + 1
         /\ Ids(Append(q, NewItem(m))) = Append(Ids(q), m)
         /\ \A id : HeadOf(q, id) => HeadOf(Append(q, NewItem(m)), id)
  <1> DEFINE e == NewItem(m)
             r == Append(q, e)
  <1>1. /\ q \in Seq(Item)
        /\ Len(q) \in Nat /\ DOMAIN q = 1 .. Len(q)
        /\ Ids(q) \in Seq(Message) /\ Len(Ids(q)) = Len(q)
        /\ \A i \in DOMAIN q : Ids(q)[i] = q[i].id
    BY QueueFields DEF Fits
  <1>2. e \in Item /\ e.id = m
    BY GatewayAssumption DEF NewItem, Item
  <1> HIDE DEF e
  <1>3. /\ r \in Seq(Item)
        /\ Len(r) = Len(q) + 1
        /\ DOMAIN r = 1 .. Len(q) + 1
        /\ \A i \in 1 .. Len(q) : r[i] = q[i]
        /\ r[Len(q) + 1] = e
    BY <1>1, <1>2, Appending
  <1>4. /\ Append(Ids(q), m) \in Seq(Message)
        /\ Len(Append(Ids(q), m)) = Len(q) + 1
        /\ \A i \in 1 .. Len(q) : Append(Ids(q), m)[i] = Ids(q)[i]
        /\ Append(Ids(q), m)[Len(q) + 1] = m
    BY <1>1, Appending
  <1> HIDE DEF r
  <1>5. Fits(r)
    BY <1>1, <1>2, <1>3 DEF Fits
  <1>6. Ids(r) = Append(Ids(q), m)
    <2>1. /\ Ids(r) \in Seq(Message) /\ Len(Ids(r)) = Len(q) + 1
          /\ \A i \in 1 .. Len(q) + 1 : Ids(r)[i] = r[i].id
      BY <1>3, <1>5, QueueFields
    <2>2. \A i \in 1 .. Len(q) + 1 : Ids(r)[i] = Append(Ids(q), m)[i]
      BY <1>1, <1>2, <1>3, <1>4, <2>1
    <2> QED BY <1>4, <2>1, <2>2, SeqEqual
  <1>7. \A i \in Heads(q) : i \in Heads(r) /\ r[i].id = q[i].id
    BY <1>1, <1>3 DEF Heads
  <1> QED BY <1>3, <1>5, <1>6, <1>7 DEF r, e, HeadOf

\* Writing an item again in its place.
LEMMA QueueChanges ==
  ASSUME NEW q, Fits(q), NEW k \in DOMAIN q, NEW e \in Item, e.id = q[k].id
  PROVE  /\ Fits([q EXCEPT ![k] = e])
         /\ Len([q EXCEPT ![k] = e]) = Len(q)
         /\ DOMAIN [q EXCEPT ![k] = e] = DOMAIN q
         /\ [q EXCEPT ![k] = e][k] = e
         /\ \A i \in DOMAIN q : i # k => [q EXCEPT ![k] = e][i] = q[i]
         /\ Ids([q EXCEPT ![k] = e]) = Ids(q)
         /\ \A id : HeadOf(q, id) => HeadOf([q EXCEPT ![k] = e], id)
  <1> DEFINE r == [q EXCEPT ![k] = e]
  <1>1. q \in Seq(Item) /\ Len(q) \in Nat /\ DOMAIN q = 1 .. Len(q)
    BY QueueFields DEF Fits
  <1>2. /\ r \in Seq(Item)
        /\ Len(r) = Len(q)
        /\ DOMAIN r = DOMAIN q
        /\ \A i \in DOMAIN q : r[i] = IF i = k THEN e ELSE q[i]
    BY <1>1, ExceptSeq
  <1> HIDE DEF r
  <1>3. \A i \in DOMAIN q : r[i].id = q[i].id
    BY <1>2
  <1>4. Fits(r)
    BY <1>2, <1>3 DEF Fits
  <1>5. Ids(r) = Ids(q)
    BY <1>2, <1>3 DEF Ids
  <1>6. Heads(r) = Heads(q)
    BY <1>2, <1>3 DEF Heads
  <1>7. \A id : HeadOf(q, id) => HeadOf(r, id)
    BY <1>3, <1>6 DEF HeadOf, Heads
  <1> QED BY <1>2, <1>4, <1>5, <1>7 DEF r

-----------------------------------------------------------------------------
(* The drain loop *)

LEMMA NextIsAHead ==
  ASSUME NEW q, Fits(q), ReadyHeads(q) # {}
  PROVE  NextReady(q) \in Message /\ HeadOf(q, NextReady(q))
  <1> DEFINE k == CHOOSE i \in ReadyHeads(q) : \A j \in ReadyHeads(q) : i <= j
  <1>1. ReadyHeads(q) \subseteq Nat
    BY QueueFields DEF ReadyHeads, Heads
  <1>2. \E i \in ReadyHeads(q) : \A j \in ReadyHeads(q) : i <= j
    BY <1>1, FirstPosition
  <1>3. k \in ReadyHeads(q)
    BY <1>2
  <1>4. NextReady(q) = q[k].id
    BY DEF NextReady
  <1> HIDE DEF k
  <1>5. k \in Heads(q) /\ k \in DOMAIN q
    BY <1>3 DEF ReadyHeads, Heads
  <1> QED BY <1>4, <1>5, QueueFields DEF HeadOf

\* The loop takes the first item of a group, or stops.
Goes(q) ==
  /\ drain' \in Drains
  /\ drain'.step \in {"idle", "call"}
  /\ drain'.step = "call" => HeadOf(q, drain'.id)
  /\ timer' \in 0 .. sockets

LEMMA LoopGoes ==
  ASSUME Types, NEW q, Fits(q), NEW s \in 0 .. sockets, NEW t \in 0 .. sockets,
         Drained(s, q, t) \/ Loop(s, q, t)
  PROVE  Goes(q)
  <1>1. \/ Drained(s, q, t)
        \/ drain' = Idle /\ timer' = t
    BY DEF Loop
  <1>2. CASE drain' = Idle /\ timer' \in {s, t}
    BY <1>2, GatewayAssumption DEF Goes, Idle, Drains, Types
  <1>3. CASE /\ ReadyHeads(q) # {}
             /\ drain' = [sock |-> s, id |-> NextReady(q), step |-> "call"]
             /\ timer' = t
    BY <1>3, NextIsAHead, GatewayAssumption DEF Goes, Drains, Message
  <1> QED BY <1>1, <1>2, <1>3 DEF Drained

\* The item of the loop is in the queue, at one place.
LEMMA Found ==
  ASSUME Types
  PROVE  /\ Fits(items)
         /\ drain.id \in 0 .. LastMessage /\ drain.sock \in 0 .. sockets
         /\ timer \in 0 .. sockets
         /\ drain.step # "idle" =>
              /\ drain.id \in Message
              /\ IndexOf(drain.id) \in DOMAIN items
              /\ items[IndexOf(drain.id)].id = drain.id
              /\ Current \in Item
              /\ \A i \in DOMAIN items : items[i].id = drain.id => i = IndexOf(drain.id)
  <1>1. Fits(items)
    BY DEF Types, TypeOK, Fits
  <1>2. drain.id \in 0 .. LastMessage /\ drain.sock \in 0 .. sockets /\ timer \in 0 .. sockets
    BY DEF Types, TypeOK, Drains
  <1>3. ASSUME drain.step # "idle"
        PROVE  IndexOf(drain.id) \in DOMAIN items /\ items[IndexOf(drain.id)].id = drain.id
    <2>1. \E i \in DOMAIN items : items[i].id = drain.id
      BY <1>3 DEF Types, TypeOK
    <2> QED BY <2>1 DEF IndexOf
  <1>4. ASSUME drain.step # "idle"
        PROVE  drain.id \in Message /\ Current \in Item
    <2>1. items[IndexOf(drain.id)] \in Item /\ items[IndexOf(drain.id)].id \in Message
      BY <1>1, <1>3, <1>4, QueueFields
    <2> QED BY <2>1, <1>3, <1>4 DEF Current
  <1>5. drain.step # "idle" =>
          \A i \in DOMAIN items : items[i].id = drain.id => i = IndexOf(drain.id)
    BY <1>1, <1>3 DEF Fits
  <1> QED BY <1>1, <1>2, <1>3, <1>4, <1>5

\* The queue gets no item and forgets no progress.
KeepsItems ==
  /\ Fits(items') /\ Len(items') <= QueueLimit
  /\ \A i \in DOMAIN items' :
       \E j \in DOMAIN items :
         /\ items'[i].id = items[j].id
         /\ items'[i].primarySent = items[j].primarySent
         /\ items'[i].documentSent = items[j].documentSent
  /\ \A j \in DOMAIN items :
       items[j].id # drain.id => \E i \in DOMAIN items' : items'[i].id = items[j].id

ItemLeaves ==
  /\ KeepsItems
  /\ \A i \in DOMAIN items' : items'[i].id # drain.id
  /\ Promised!Removed(drain.id)

ItemStays ==
  /\ KeepsItems
  /\ \E i \in DOMAIN items' : items'[i].id = drain.id
  /\ Ids(items') = Ids(items)

LEMMA Leaving ==
  ASSUME Types, drain.step # "idle", items' = Without(drain.id)
  PROVE  ItemLeaves
  <1> DEFINE k == IndexOf(drain.id)
  <1>1. /\ Fits(items) /\ k \in DOMAIN items /\ items[k].id = drain.id
        /\ \A i \in DOMAIN items : items[i].id = drain.id => i = k
    BY Found
  <1>2. items' = RemoveAt(items, k)
    BY DEF Without
  <1> HIDE DEF k
  <1>3. /\ Fits(items')
        /\ Len(items') = Len(items) - 1
        /\ Ids(items') = RemoveAt(Ids(items), k)
        /\ \A i \in DOMAIN items' : \E j \in DOMAIN items : j # k /\ items'[i] = items[j]
        /\ \A j \in DOMAIN items : j # k => \E i \in DOMAIN items' : items'[i] = items[j]
    BY <1>1, <1>2, QueueRemoves
  <1>4. Len(items') <= QueueLimit
    BY <1>1, <1>3, QueueFields, GatewayAssumption DEF Types, TypeOK
  <1>5. KeepsItems
    BY <1>1, <1>3, <1>4 DEF KeepsItems
  <1>6. \A i \in DOMAIN items' : items'[i].id # drain.id
    BY <1>1, <1>3
  <1>7. Promised!Removed(drain.id)
    <2>1. k \in DOMAIN Ids(items) /\ Ids(items)[k] = drain.id
      BY <1>1 DEF Ids
    <2>2. \A q, i : Promised!RemoveAt(q, i) = RemoveAt(q, i)
      BY DEF Promised!RemoveAt, RemoveAt
    <2>3. Ids(items)' = Promised!RemoveAt(Ids(items), k)
      BY <1>3, <2>2
    <2> QED BY <2>1, <2>3 DEF Promised!Removed, Ids
  <1> QED BY <1>5, <1>6, <1>7 DEF ItemLeaves

LEMMA OnceMore ==
  ASSUME NEW item \in Item, ~(item.attempts + 1 >= MaxAttempts)
  PROVE  /\ Again(item) \in Item
         /\ Again(item).id = item.id
         /\ Again(item).primarySent = item.primarySent
         /\ Again(item).documentSent = item.documentSent
  <1>1. item.attempts + 1 \in 0 .. MaxAttempts - 1
    BY Limits, ItemFields
  <1>2. Again(item) \in Item
    BY <1>1 DEF Again, Item
  <1>3. Again(item).id = item.id
    BY DEF Again, Item
  <1>4. Again(item).primarySent = item.primarySent
    BY DEF Again, Item
  <1>5. Again(item).documentSent = item.documentSent
    BY DEF Again, Item
  <1> QED BY <1>2, <1>3, <1>4, <1>5

LEMMA Marking ==
  ASSUME Types, drain.step # "idle",
         ~(items[IndexOf(drain.id)].attempts + 1 >= MaxAttempts), items' = MarkedFailed
  PROVE  ItemStays
  <1> DEFINE k == IndexOf(drain.id)
             e == Again(items[k])
  <1>1. Fits(items) /\ k \in DOMAIN items /\ items[k].id = drain.id /\ items[k] \in Item
    BY Found, QueueFields DEF Current
  <1>2. items' = [items EXCEPT ![k] = e]
    BY DEF MarkedFailed
  <1>3. /\ e \in Item
        /\ e.id = items[k].id
        /\ e.primarySent = items[k].primarySent
        /\ e.documentSent = items[k].documentSent
    BY <1>1, OnceMore
  <1> HIDE DEF k, e
  <1>5. /\ Fits(items')
        /\ Len(items') = Len(items)
        /\ DOMAIN items' = DOMAIN items
        /\ items'[k] = e
        /\ \A i \in DOMAIN items : i # k => items'[i] = items[i]
        /\ Ids(items') = Ids(items)
    <2>1. /\ Fits([items EXCEPT ![k] = e])
          /\ Len([items EXCEPT ![k] = e]) = Len(items)
          /\ DOMAIN [items EXCEPT ![k] = e] = DOMAIN items
          /\ [items EXCEPT ![k] = e][k] = e
          /\ \A i \in DOMAIN items : i # k => [items EXCEPT ![k] = e][i] = items[i]
          /\ Ids([items EXCEPT ![k] = e]) = Ids(items)
      BY <1>1, <1>3, QueueChanges
    <2> QED BY <1>2, <2>1
  <1>6. \A i \in DOMAIN items :
          /\ items'[i].id = items[i].id
          /\ items'[i].primarySent = items[i].primarySent
          /\ items'[i].documentSent = items[i].documentSent
    BY <1>3, <1>5
  <1>7. KeepsItems
    BY <1>5, <1>6 DEF KeepsItems, Types, TypeOK
  <1> QED BY <1>1, <1>5, <1>6, <1>7 DEF ItemStays

\* The three ways in which the loop puts an item aside.
Dones == ItemLeaves /\ recent' = Remembered(drain.id) /\ UNCHANGED dead
GivesUp == ItemLeaves /\ dead' = dead \cup {drain.id} /\ UNCHANGED recent
Retries == ItemStays /\ UNCHANGED <<dead, recent>>

LEMMA DoneGoes ==
  ASSUME Types, drain.step # "idle", Done
  PROVE  Dones /\ Goes(items')
  <1>1. items' = Without(drain.id) /\ Loop(drain.sock, items', timer)
    BY DEF Done
  <1>2. ItemLeaves
    BY <1>1, Leaving
  <1>3. Goes(items')
    BY <1>1, <1>2, Found, LoopGoes DEF ItemLeaves, KeepsItems
  <1> QED BY <1>2, <1>3 DEF Done, Dones

LEMMA GiveUpGoes ==
  ASSUME Types, drain.step # "idle", GiveUp
  PROVE  GivesUp /\ Goes(items')
  <1>1. items' = Without(drain.id) /\ Loop(drain.sock, items', timer)
    BY DEF GiveUp
  <1>2. ItemLeaves
    BY <1>1, Leaving
  <1>3. Goes(items')
    BY <1>1, <1>2, Found, LoopGoes DEF ItemLeaves, KeepsItems
  <1> QED BY <1>2, <1>3 DEF GiveUp, GivesUp

LEMMA FailedGoes ==
  ASSUME Types, drain.step # "idle", Failed
  PROVE  (GivesUp \/ Retries) /\ Goes(items')
  <1>1. CASE GiveUp
    BY <1>1, GiveUpGoes
  <1>2. CASE /\ ~(items[IndexOf(drain.id)].attempts + 1 >= MaxAttempts)
             /\ items' = MarkedFailed
             /\ UNCHANGED <<dead, recent>>
             /\ Loop(drain.sock, MarkedFailed, timer)
    <2>1. ItemStays
      BY <1>2, Marking
    <2>2. Goes(items')
      BY <1>2, <2>1, Found, LoopGoes DEF ItemStays, KeepsItems
    <2> QED BY <1>2, <2>1, <2>2 DEF Retries
  <1> QED BY <1>1, <1>2 DEF Failed

-----------------------------------------------------------------------------
(* What is remembered and what was sent *)

LEMMA Remembers ==
  ASSUME Types, Arrivals, NEW id \in Message, id <= arrived
  PROVE  /\ Remembered(id) \in Seq(Message)
         /\ Len(Remembered(id)) <= RecentLimit
         /\ \A i \in DOMAIN Remembered(id) : Remembered(id)[i] <= arrived
         /\ \A i, j \in DOMAIN Remembered(id) : Remembered(id)[i] = Remembered(id)[j] => i = j
         /\ arrived <= RecentLimit => ToSet(recent) \cup {id} \subseteq ToSet(Remembered(id))
  <1>1. CASE id \in ToSet(recent)
    BY <1>1 DEF Remembered, Types, TypeOK, Arrivals
  <1>2. CASE id \notin ToSet(recent)
    <2> DEFINE all == Append(recent, id)
    <2>1. /\ recent \in Seq(Message) /\ Len(recent) <= RecentLimit
          /\ arrived \in Nat /\ RecentLimit \in Nat \ {0}
      BY GatewayAssumption DEF Types, TypeOK
    <2>2. /\ all \in Seq(Message)
          /\ DOMAIN recent = 1 .. Len(recent)
          /\ DOMAIN all = 1 .. Len(recent) + 1
          /\ Len(recent) \in Nat
          /\ Len(all) = Len(recent) + 1
          /\ \A i \in 1 .. Len(recent) : all[i] = recent[i]
          /\ all[Len(recent) + 1] = id
      BY <2>1, Appending
    <2>3. \A i \in DOMAIN recent : recent[i] # id
      BY <1>2 DEF ToSet
    <2> HIDE DEF all
    <2>4. \A i \in DOMAIN all : all[i] <= arrived
      BY <2>2 DEF Arrivals
    <2>5. \A i, j \in DOMAIN all : all[i] = all[j] => i = j
      BY <2>2, <2>3 DEF Arrivals
    <2>6. ToSet(all) = ToSet(recent) \cup {id}
      BY <2>2 DEF ToSet
    <2>7. CASE Len(all) > RecentLimit
      <3>1. all # <<>>
        BY <2>1, <2>2, <2>7
      <3>2. /\ Tail(all) \in Seq(Message)
            /\ Len(Tail(all)) = Len(all) - 1
            /\ \A i \in 1 .. Len(Tail(all)) : Tail(all)[i] = all[i + 1]
        BY <2>2, <3>1, HeadTailProperties
      <3>3. DOMAIN Tail(all) = 1 .. Len(all) - 1
        BY <3>2, LenProperties
      <3>4. ~(arrived <= RecentLimit)
        <4>1. all \in [1 .. Len(all) -> 1 .. arrived]
          <5>1. \A i \in 1 .. Len(all) : all[i] \in 1 .. arrived
            <6> TAKE i \in 1 .. Len(all)
            <6>1. all[i] \in Message /\ i \in DOMAIN all
              BY <2>2, ElementOfSeq
            <6>2. all[i] \in Nat /\ 1 <= all[i]
              BY <6>1, Limits DEF Message
            <6> QED BY <2>1, <2>4, <6>1, <6>2
          <5> QED BY <2>2, <5>1, LenProperties
        <4>2. all \in Injection(1 .. Len(all), 1 .. arrived)
          BY <4>1, <2>2, <2>5 DEF Injection, IsInjective
        <4>3. /\ IsFiniteSet(1 .. Len(all)) /\ Cardinality(1 .. Len(all)) = Len(all)
              /\ IsFiniteSet(1 .. arrived) /\ Cardinality(1 .. arrived) = arrived
          <5>1. \A n \in Nat : IsFiniteSet(1 .. n) /\ Cardinality(1 .. n) = n
            BY FS_Interval
          <5> QED BY <2>1, <2>2, <5>1
        <4>4. Len(all) <= arrived
          BY <4>2, <4>3, FS_Injection
        <4> QED BY <2>1, <2>2, <2>7, <4>4
      <3>5. Remembered(id) = Tail(all)
        BY <1>2, <2>7 DEF Remembered, all
      <3>6. \A i \in DOMAIN Tail(all) : i + 1 \in DOMAIN all /\ Tail(all)[i] = all[i + 1]
        BY <2>2, <3>2, <3>3
      <3>7. \A i, j \in DOMAIN Tail(all) : Tail(all)[i] = Tail(all)[j] => i = j
        BY <2>2, <2>5, <3>3, <3>6
      <3>8. Len(Tail(all)) <= RecentLimit
        BY <2>1, <2>2, <3>2
      <3> QED BY <2>4, <3>2, <3>4, <3>5, <3>6, <3>7, <3>8
    <2>8. CASE ~(Len(all) > RecentLimit)
      <3>1. Remembered(id) = all
        BY <1>2, <2>8 DEF Remembered, all
      <3> QED BY <2>1, <2>2, <2>4, <2>5, <2>6, <2>8, <3>1
    <2> QED BY <2>7, <2>8
  <1> QED BY <1>1, <1>2

\* What was sent after the step.
Gets(id, part) == \E i \in DOMAIN sent' : sent'[i] = [id |-> id, part |-> part]

LEMMA Posts ==
  ASSUME Types, Arrivals, drain.step # "idle", drain.id <= arrived, Sending, Post
  PROVE  /\ sent' \in Seq([id : Message, part : Part])
         /\ \A i \in DOMAIN sent' : sent'[i].id <= arrived
         /\ \A id, part : Gets(id, part) <=> Got(id, part) \/ (id = drain.id /\ part = drain.step)
  <1> DEFINE e == [id |-> drain.id, part |-> drain.step]
  <1>1. e \in [id : Message, part : Part] /\ e.id = drain.id
    BY Found DEF Sending
  <1>2. sent' = Append(sent, e) /\ sent \in Seq([id : Message, part : Part])
    BY DEF Post, Types, TypeOK
  <1>3. \A id, part : e = [id |-> id, part |-> part] <=> id = drain.id /\ part = drain.step
    OBVIOUS
  <1> HIDE DEF e
  <1>4. /\ sent' \in Seq([id : Message, part : Part])
        /\ DOMAIN sent = 1 .. Len(sent)
        /\ DOMAIN sent' = 1 .. Len(sent) + 1
        /\ Len(sent) \in Nat
        /\ \A i \in 1 .. Len(sent) : sent'[i] = sent[i]
        /\ sent'[Len(sent) + 1] = e
    BY <1>1, <1>2, Appending
  <1>5. \A i \in DOMAIN sent' : sent'[i].id <= arrived
    BY <1>1, <1>4 DEF Arrivals
  <1>6. \A x : (\E i \in DOMAIN sent' : sent'[i] = x) <=> (\E i \in DOMAIN sent : sent[i] = x) \/ e = x
    BY <1>4
  <1>7. \A id, part : (\E i \in DOMAIN sent' : sent'[i] = [id |-> id, part |-> part])
          <=> (\E i \in DOMAIN sent : sent[i] = [id |-> id, part |-> part])
                \/ e = [id |-> id, part |-> part]
    BY <1>6
  <1>8. \A id, part : Gets(id, part) <=> Got(id, part) \/ (id = drain.id /\ part = drain.step)
    BY <1>3, <1>7 DEF Got, Gets
  <1> QED BY <1>4, <1>5, <1>8

-----------------------------------------------------------------------------
(* The invariant, when the loop puts its item aside *)

Aside ==
  /\ drain.step # "idle"
  /\ Goes(items')
  /\ Dones \/ GivesUp \/ Retries
  /\ UNCHANGED <<arrived, socket>>
  /\ linked \subseteq linked'
  /\ handled' \in Seq(Message) /\ ignored' \subseteq Message
  /\ Unsure => Unsure'
  /\ UNCHANGED sent \/ (Sending /\ Post /\ (Retries => Unsure'))

LEMMA Arrived ==
  ASSUME IInv, drain.step # "idle"
  PROVE  drain.id \in 1 .. arrived /\ drain.id \in Message /\ arrived \in Nat
  <1>1. drain.id \in Message /\ drain.id <= arrived
    BY Found DEF IInv, Arrivals
  <1>2. arrived \in Nat
    BY Limits DEF IInv, Types, TypeOK
  <1> QED BY <1>1, <1>2, Limits DEF Message

LEMMA AsideSent ==
  ASSUME IInv, Aside
  PROVE  /\ sent' \in Seq([id : Message, part : Part])
         /\ \A i \in DOMAIN sent' : sent'[i].id <= arrived
         /\ \A id, part : Got(id, part) => Gets(id, part)
         /\ \A id, part :
              Gets(id, part) => \/ Got(id, part)
                                \/ id = drain.id /\ (Retries => Unsure')
  <1>1. CASE UNCHANGED sent
    BY <1>1 DEF IInv, Types, TypeOK, Arrivals, Got, Gets
  <1>2. CASE Sending /\ Post /\ (Retries => Unsure')
    <2>1. drain.step # "idle" /\ drain.id <= arrived /\ Types /\ Arrivals
      BY Arrived DEF Aside, IInv
    <2> QED BY <1>2, <2>1, Posts
  <1> QED BY <1>1, <1>2 DEF Aside

LEMMA AsideRecent ==
  ASSUME IInv, Aside
  PROVE  /\ recent' \in Seq(Message) /\ Len(recent') <= RecentLimit
         /\ \A i \in DOMAIN recent' : recent'[i] <= arrived
         /\ \A i, j \in DOMAIN recent' : recent'[i] = recent'[j] => i = j
         /\ arrived <= RecentLimit => ToSet(recent) \subseteq ToSet(recent')
         /\ Dones /\ arrived <= RecentLimit => drain.id \in ToSet(recent')
  <1>1. CASE Dones
    <2>1. /\ Types /\ Arrivals /\ drain.id \in Message /\ drain.id <= arrived
          /\ recent' = Remembered(drain.id)
      BY <1>1, Arrived DEF Aside, IInv, Dones
    <2> QED BY <2>1, Remembers
  <1>2. CASE ~Dones
    <2>1. recent' = recent
      BY <1>2 DEF Aside, GivesUp, Retries
    <2> QED BY <1>2, <2>1 DEF IInv, Types, TypeOK, Arrivals
  <1> QED BY <1>1, <1>2

LEMMA AsideItems ==
  ASSUME IInv, Aside
  PROVE  KeepsItems /\ (Retries \/ \A i \in DOMAIN items' : items'[i].id # drain.id)
  BY DEF Aside, Dones, GivesUp, Retries, ItemLeaves, ItemStays

LEMMA AsideDead ==
  ASSUME IInv, Aside
  PROVE  dead \subseteq dead' /\ dead' \subseteq dead \cup {drain.id}
  BY DEF Aside, Dones, GivesUp, Retries

LEMMA AsideTypes ==
  ASSUME IInv, Aside
  PROVE  Types' /\ Arrivals' /\ Taken' /\ Steps'
  <1>1. /\ UNCHANGED <<arrived, state, sock, sockets>> /\ Goes(items')
        /\ handled' \in Seq(Message) /\ ignored' \subseteq Message
    BY DEF Aside, socket
  <1>2. Fits(items') /\ Len(items') <= QueueLimit
    BY AsideItems DEF KeepsItems
  <1>3. drain' \in Drains' /\ timer' \in 0 .. sockets'
    BY <1>1 DEF Goes, Drains
  <1>4. Taken' /\ Steps'
    BY <1>1 DEF Goes, Taken, Steps, Part
  <1>5. drain'.step # "idle" => \E i \in DOMAIN items' : items'[i].id = drain'.id
    BY <1>4 DEF Taken, HeadOf, Heads
  <1>6. dead' \subseteq Message /\ \A m \in dead' : m <= arrived'
    <2>1. drain.id \in Message /\ drain.id <= arrived
      BY Arrived DEF Aside, IInv
    <2> QED BY <1>1, <2>1, AsideDead DEF IInv, Types, TypeOK, Arrivals
  <1>7. drain'.step \in {"idle", "call"} \cup Part
    BY <1>3 DEF Drains
  <1>8. TypeOK'
    BY <1>1, <1>2, <1>3, <1>5, <1>6, <1>7, AsideRecent, AsideSent DEF IInv, Types, TypeOK, Fits
  <1>9. Types'
    BY <1>1, <1>3, <1>8 DEF IInv, Types
  <1>10. \A i \in DOMAIN items' : items'[i].id <= arrived'
    BY <1>1, AsideItems DEF KeepsItems, IInv, Arrivals
  <1>11. Arrivals'
    BY <1>1, <1>6, <1>10, AsideRecent, AsideSent DEF Arrivals
  <1> QED BY <1>4, <1>9, <1>11

LEMMA AsideProgress ==
  ASSUME IInv, Aside
  PROVE  Progressed' /\ Answered'
  <1>1. Progressed'
    <2> SUFFICES ASSUME NEW i \in DOMAIN items'
                 PROVE  /\ ~items'[i].documentSent
                        /\ items'[i].primarySent =>
                             /\ KindOf[items'[i].id] = "decide"
                             /\ GroupOf[items'[i].id] \in linked'
                             /\ Gets(items'[i].id, "reply")
      BY DEF Progressed, Got, Gets
    <2>1. PICK j \in DOMAIN items :
            /\ items'[i].id = items[j].id
            /\ items'[i].primarySent = items[j].primarySent
            /\ items'[i].documentSent = items[j].documentSent
      BY AsideItems DEF KeepsItems
    <2>2. /\ ~items[j].documentSent
          /\ items[j].primarySent =>
               /\ KindOf[items[j].id] = "decide"
               /\ GroupOf[items[j].id] \in linked
               /\ Got(items[j].id, "reply")
      BY DEF IInv, Progressed
    <2>3. items[j].primarySent => Gets(items'[i].id, "reply")
      BY <2>1, <2>2, AsideSent
    <2> QED BY <2>1, <2>2, <2>3 DEF Aside
  <1>2. Answered'
    <2> SUFFICES ASSUME ~Unsure', NEW i \in DOMAIN items', NEW part \in Part,
                        items'[i].id \notin dead', Gets(items'[i].id, part)
                 PROVE  part = "reply" /\ items'[i].primarySent
      BY DEF Answered, Got, Gets
    <2>1. PICK j \in DOMAIN items :
            /\ items'[i].id = items[j].id
            /\ items'[i].primarySent = items[j].primarySent
      BY AsideItems DEF KeepsItems
    <2>2. ~Unsure
      BY DEF Aside
    <2>3. items[j].id \notin dead
      BY <2>1, AsideDead
    <2>4. Got(items[j].id, part)
      BY <2>1, AsideSent, AsideItems
    <2> QED BY <2>1, <2>2, <2>3, <2>4 DEF IInv, Answered
  <1> QED BY <1>1, <1>2

LEMMA AsideRemembers ==
  ASSUME IInv, Aside
  PROVE  Remembering'
  <1> SUFFICES ASSUME ~Unsure', NEW m \in 1 .. arrived'
               PROVE  \/ \E i \in DOMAIN items' : items'[i].id = m
                      \/ m \in dead'
                      \/ m \in ToSet(recent')
    BY DEF Remembering, Queued
  <1>1. ~Unsure /\ m \in 1 .. arrived /\ arrived <= RecentLimit
    <2>1. ~Unsure /\ arrived' = arrived
      BY DEF Aside
    <2>2. ~(arrived > RecentLimit)
      BY <2>1 DEF Unsure
    <2>3. arrived \in Nat /\ RecentLimit \in Nat
      BY Limits DEF IInv, Types, TypeOK
    <2> QED BY <2>1, <2>2, <2>3
  <1>2. (\E j \in DOMAIN items : items[j].id = m) \/ m \in dead \/ m \in ToSet(recent)
    BY <1>1 DEF IInv, Remembering, Queued
  <1>3. CASE m = drain.id
    <2>1. CASE Dones
      BY <1>1, <1>3, <2>1, AsideRecent
    <2>2. CASE GivesUp
      BY <1>3, <2>2 DEF GivesUp
    <2>3. CASE Retries
      BY <1>3, <2>3 DEF Retries, ItemStays
    <2> QED BY <2>1, <2>2, <2>3 DEF Aside
  <1>4. CASE m # drain.id
    <2>1. CASE \E j \in DOMAIN items : items[j].id = m
      BY <1>4, <2>1, AsideItems DEF KeepsItems
    <2>2. CASE m \in dead
      BY <2>2, AsideDead
    <2>3. CASE m \in ToSet(recent)
      BY <1>1, <2>3, AsideRecent
    <2> QED BY <1>2, <2>1, <2>2, <2>3
  <1> QED BY <1>3, <1>4

LEMMA AsideKeeps ==
  ASSUME IInv, Aside
  PROVE  IInv'
  BY AsideTypes, AsideProgress, AsideRemembers DEF IInv

-----------------------------------------------------------------------------
(* The invariant, when the loop goes on with its item *)

LEMMA PlaceOf ==
  ASSUME NEW q, Fits(q), NEW k \in DOMAIN q
  PROVE  (CHOOSE i \in DOMAIN q : q[i].id = q[k].id) = k
  BY DEF Fits

LEMMA Stepping ==
  ASSUME IInv, drain.step # "idle", NEW step \in Part, drain' = [drain EXCEPT !.step = step]
  PROVE  /\ drain' \in Drains
         /\ drain'.step = step /\ drain'.id = drain.id /\ drain'.sock = drain.sock
  BY DEF IInv, Types, Drains

\* The loop awaits the sending of a part that was not sent yet.
LEMMA AwaitKeeps ==
  ASSUME IInv, drain.step # "idle", NEW step \in Part,
         drain' = [drain EXCEPT !.step = step],
         UNCHANGED <<arrived, items, dead, recent, timer, state, sock, sockets, sent, faults>>,
         linked \subseteq linked', handled' \in Seq(Message), ignored' \subseteq Message,
         step \in {"reply", "unlinked"} => KindOf[drain.id] \in {"ask", "decide"},
         step \in {"reply", "document"} => Group \in linked',
         step = "document" => KindOf[drain.id] = "decide" /\ Current.primarySent,
         step \in {"linked", "refused"} => KindOf[drain.id] = "link",
         step \in Part \ {"document"} => ~Current.primarySent
  PROVE  IInv'
  <1>1. /\ drain' \in Drains
        /\ drain'.step = step /\ drain'.id = drain.id /\ drain'.sock = drain.sock
    BY Stepping
  <1>2. drain' \in Drains'
    BY <1>1 DEF Drains
  <1>3. Current' = Current /\ Group' = Group
    BY <1>1 DEF Current, IndexOf, Group
  <1>4. Types'
    BY <1>1, <1>2 DEF IInv, Types, TypeOK, Part
  <1>5. Arrivals'
    BY DEF IInv, Arrivals
  <1>6. Taken'
    BY <1>1 DEF IInv, Taken, HeadOf, Heads
  <1>7. Steps'
    BY <1>1, <1>3 DEF Steps
  <1>8. Unsure' = Unsure
    BY DEF Unsure
  <1>9. Progressed' /\ Answered' /\ Remembering'
    BY <1>8 DEF IInv, Progressed, Answered, Remembering, Got, Queued
  <1> QED BY <1>4, <1>5, <1>6, <1>7, <1>9 DEF IInv

\* The reply of a decision was sent: its document is next.
LEMMA ProgressKeeps ==
  ASSUME IInv, drain.step = "reply", KindOf[drain.id] = "decide",
         Post, items' = Progress, drain' = [drain EXCEPT !.step = "document"],
         UNCHANGED <<arrived, dead, recent, timer, state, sock, sockets, linked, handled,
                     ignored, faults>>
  PROVE  IInv' /\ Ids(items') = Ids(items)
  <1> DEFINE k == IndexOf(drain.id)
             e == Further(items[k])
  <1>1. /\ Types /\ Arrivals /\ drain.id <= arrived /\ Sending /\ drain.step # "idle"
        /\ "document" \in Part
    BY Arrived DEF IInv, Sending, Part
  <1>2. /\ Fits(items) /\ k \in DOMAIN items /\ items[k].id = drain.id /\ items[k] \in Item
        /\ \A i \in DOMAIN items : items[i].id = drain.id => i = k
    BY <1>1, Found DEF Current
  <1>3. /\ e \in Item
        /\ e.id = drain.id
        /\ e.primarySent = TRUE
        /\ e.documentSent = items[k].documentSent
    BY <1>2 DEF Further, Item
  <1>4. items' = [items EXCEPT ![k] = e]
    BY DEF Progress
  <1> HIDE DEF k, e
  <1>5. /\ Fits(items')
        /\ Len(items') = Len(items)
        /\ DOMAIN items' = DOMAIN items
        /\ items'[k] = e
        /\ \A i \in DOMAIN items : i # k => items'[i] = items[i]
        /\ Ids(items') = Ids(items)
        /\ \A id : HeadOf(items, id) => HeadOf(items', id)
    <2>1. /\ Fits([items EXCEPT ![k] = e])
          /\ Len([items EXCEPT ![k] = e]) = Len(items)
          /\ DOMAIN [items EXCEPT ![k] = e] = DOMAIN items
          /\ [items EXCEPT ![k] = e][k] = e
          /\ \A i \in DOMAIN items : i # k => [items EXCEPT ![k] = e][i] = items[i]
          /\ Ids([items EXCEPT ![k] = e]) = Ids(items)
          /\ \A id : HeadOf(items, id) => HeadOf([items EXCEPT ![k] = e], id)
      BY <1>2, <1>3, QueueChanges
    <2> QED BY <1>4, <2>1
  <1>6. /\ drain' \in Drains
        /\ drain'.step = "document" /\ drain'.id = drain.id /\ drain'.sock = drain.sock
    BY <1>1, Stepping
  <1>7. /\ sent' \in Seq([id : Message, part : Part])
        /\ \A i \in DOMAIN sent' : sent'[i].id <= arrived
        /\ \A id, part : Gets(id, part) <=> Got(id, part) \/ (id = drain.id /\ part = "reply")
    BY <1>1, Posts
  <1>8. Current' = e
    <2>1. (CHOOSE i \in DOMAIN items' : items'[i].id = items'[k].id) = k
      BY <1>2, <1>5, PlaceOf
    <2>2. items'[k].id = drain'.id
      BY <1>3, <1>5, <1>6
    <2>3. IndexOf(drain.id)' = k
      BY <2>1, <2>2 DEF IndexOf
    <2> QED BY <1>5, <2>3 DEF Current
  <1>9. Types'
    <2>1. drain' \in Drains'
      BY <1>6 DEF Drains
    <2>2. drain'.step \in {"idle", "call"} \cup Part
      BY <1>1, <1>6
    <2>3. \E i \in DOMAIN items' : items'[i].id = drain'.id
      BY <1>2, <1>3, <1>5, <1>6
    <2>4. TypeOK'
      BY <1>5, <1>7, <2>2, <2>3 DEF IInv, Types, TypeOK, Fits
    <2> QED BY <2>1, <2>4 DEF IInv, Types
  <1>10. Arrivals'
    BY <1>1, <1>3, <1>5, <1>7 DEF Arrivals
  <1>11. Taken'
    BY <1>1, <1>5, <1>6 DEF IInv, Taken
  <1>12. Group \in linked /\ Group' = Group
    BY <1>6 DEF IInv, Steps, Group
  <1>13. Steps'
    BY <1>3, <1>6, <1>8, <1>12 DEF Steps
  <1>14. Progressed'
    <2> SUFFICES ASSUME NEW i \in DOMAIN items'
                 PROVE  /\ ~items'[i].documentSent
                        /\ items'[i].primarySent =>
                             /\ KindOf[items'[i].id] = "decide"
                             /\ GroupOf[items'[i].id] \in linked'
                             /\ Gets(items'[i].id, "reply")
      BY DEF Progressed, Got, Gets
    <2>1. CASE i = k
      BY <1>2, <1>3, <1>5, <1>7, <1>12, <2>1 DEF IInv, Progressed, Group
    <2>2. CASE i # k
      BY <1>5, <1>7, <2>2 DEF IInv, Progressed
    <2> QED BY <2>1, <2>2
  <1>15. Answered'
    <2> SUFFICES ASSUME ~Unsure', NEW i \in DOMAIN items', NEW part \in Part,
                        items'[i].id \notin dead', Gets(items'[i].id, part)
                 PROVE  part = "reply" /\ items'[i].primarySent
      BY DEF Answered, Got, Gets
    <2>1. ~Unsure
      BY DEF Unsure
    <2>2. CASE i = k
      <3>1. part = "reply" \/ Got(items[k].id, part)
        BY <1>2, <1>3, <1>5, <1>7, <2>2
      <3>2. items[k].id \notin dead
        BY <1>2, <1>3, <1>5, <2>2
      <3>3. part = "reply"
        BY <1>2, <2>1, <3>1, <3>2 DEF IInv, Answered
      <3> QED BY <1>3, <1>5, <2>2, <3>3
    <2>3. CASE i # k
      <3>1. items'[i] = items[i] /\ i \in DOMAIN items /\ items[i].id # drain.id
        BY <1>2, <1>5, <2>3
      <3>2. Got(items[i].id, part) /\ items[i].id \notin dead
        BY <1>7, <3>1
      <3> QED BY <2>1, <3>1, <3>2 DEF IInv, Answered
    <2> QED BY <2>2, <2>3
  <1>16. Remembering'
    <2>1. Unsure' = Unsure
      BY DEF Unsure
    <2>2. \A m : (\E i \in DOMAIN items : items[i].id = m) => \E i \in DOMAIN items' : items'[i].id = m
      BY <1>2, <1>3, <1>5
    <2> QED BY <2>1, <2>2 DEF IInv, Remembering, Queued
  <1> QED BY <1>5, <1>9, <1>10, <1>11, <1>13, <1>14, <1>15, <1>16 DEF IInv

-----------------------------------------------------------------------------
(* The invariant, when something else happens *)

\* The loop does not move, or it is started.
Starts(q) == drain' = drain \/ Goes(q)

\* Sockets come and go, timers fire, and the loop may start.
LEMMA SocketKeeps ==
  ASSUME IInv,
         UNCHANGED <<arrived, items, dead, recent, linked, handled, sent, ignored>>,
         Unsure => Unsure',
         state' \in {"connecting", "connected", "reconnecting", "logged_out"},
         \/ sockets' = sockets /\ sock' \in {0, sock}
         \/ sockets' = sockets + 1 /\ sock' = sockets',
         timer' \in 0 .. sockets,
         Starts(items)
  PROVE  IInv'
  <1>1. drain' \in Drains'
    BY DEF IInv, Types, Starts, Goes, Drains
  <1>2. Taken'
    BY <1>1 DEF Starts, Goes, IInv, Taken, Drains, HeadOf, Heads
  <1>3. drain'.step # "idle" => \E i \in DOMAIN items' : items'[i].id = drain'.id
    BY <1>2 DEF Taken, HeadOf, Heads
  <1>4. timer' \in 0 .. sockets' /\ sock' \in {0, sockets'} /\ sockets' \in Nat \ {0}
    BY DEF IInv, Types, TypeOK
  <1>5. drain'.step \in {"idle", "call"} \cup Part
    BY <1>1 DEF Drains
  <1>6. TypeOK'
    BY <1>3, <1>4, <1>5 DEF IInv, Types, TypeOK
  <1>7. Types'
    BY <1>1, <1>4, <1>6 DEF IInv, Types
  <1>8. Arrivals'
    BY DEF IInv, Arrivals
  <1>9. Steps'
    <2>1. CASE drain' = drain
      BY <2>1 DEF IInv, Steps, Current, IndexOf, Group
    <2>2. CASE Goes(items)
      BY <2>2 DEF Goes, Steps, Part
    <2> QED BY <2>1, <2>2 DEF Starts
  <1>10. Progressed' /\ Answered' /\ Remembering'
    BY DEF IInv, Progressed, Answered, Remembering, Got, Queued
  <1> QED BY <1>2, <1>7, <1>8, <1>9, <1>10 DEF IInv

\* The process dies: what it awaited may have happened.
LEMMA CrashKeeps ==
  ASSUME IInv, Crash
  PROVE  IInv' /\ Unsure'
  <1>1. Unsure'
    BY DEF Crash, Fault, Unsure
  <1>2. /\ UNCHANGED <<arrived, items, ignored>> /\ recent' = <<>> /\ drain' = Idle /\ timer' = 0
        /\ state' = "connecting" /\ sock' = sockets + 1 /\ sockets' = sockets + 1
    BY DEF Crash
  <1>3. linked \subseteq linked' /\ handled' \in Seq(Message)
    <2>1. CASE Requested
      <3>1. drain.step # "idle"
        BY <2>1 DEF Requested, Calling
      <3>2. CASE Accepts(drain.id) /\ UNCHANGED linked
        BY <3>1, <3>2, Arrived, Appending DEF Accepts, IInv, Types
      <3>3. CASE linked' = linked \cup {Group} /\ UNCHANGED handled
        BY <3>3 DEF IInv, Types
      <3> QED BY <2>1, <3>2, <3>3 DEF Requested
    <2>2. CASE UNCHANGED backend
      BY <2>2 DEF backend, IInv, Types
    <2> QED BY <2>1, <2>2 DEF Crash, backend
  <1>4. /\ dead' \subseteq Message
        /\ \A m \in dead' : m <= arrived
    <2>1. CASE UNCHANGED dead
      BY <2>1 DEF IInv, Types, TypeOK, Arrivals
    <2>2. CASE drain.step # "idle" /\ dead' = dead \cup {drain.id}
      BY <2>2, Arrived DEF IInv, Types, TypeOK, Arrivals
    <2> QED BY <2>1, <2>2 DEF Crash, backend
  <1>5. /\ sent' \in Seq([id : Message, part : Part])
        /\ \A i \in DOMAIN sent' : sent'[i].id <= arrived
        /\ \A id, part : Got(id, part) => Gets(id, part)
    <2>1. CASE UNCHANGED sent
      BY <2>1 DEF IInv, Types, TypeOK, Arrivals, Got, Gets
    <2>2. CASE Sending /\ Post
      <3>1. drain.step # "idle"
        BY <2>2 DEF Sending, Part
      <3>2. Types /\ Arrivals /\ drain.id <= arrived
        BY <3>1, Arrived DEF IInv
      <3> QED BY <2>2, <3>1, <3>2, Posts
    <2> QED BY <2>1, <2>2 DEF Crash, backend
  <1>6. /\ drain' \in Drains' /\ drain'.step = "idle"
    BY <1>2, Limits DEF Drains, Idle, IInv, Types
  <1>7. TypeOK'
    BY <1>2, <1>4, <1>5, <1>6, Limits DEF IInv, Types, TypeOK
  <1>8. Types'
    BY <1>2, <1>3, <1>6, <1>7 DEF IInv, Types
  <1>9. Arrivals'
    BY <1>2, <1>4, <1>5 DEF IInv, Arrivals
  <1>10. Taken' /\ Steps'
    BY <1>6 DEF Taken, Steps, Part
  <1>11. Progressed'
    <2>1. \A i \in DOMAIN items :
            /\ ~items[i].documentSent
            /\ items[i].primarySent =>
                 /\ KindOf[items[i].id] = "decide"
                 /\ GroupOf[items[i].id] \in linked'
                 /\ Gets(items[i].id, "reply")
      BY <1>3, <1>5 DEF IInv, Progressed
    <2> QED BY <1>2, <2>1 DEF Progressed, Got, Gets
  <1>12. Answered' /\ Remembering'
    BY <1>1 DEF Answered, Remembering
  <1> QED BY <1>1, <1>8, <1>9, <1>10, <1>11, <1>12 DEF IInv

\* The items are the same but for something the invariant does not look at, or
\* there are more of them: the loop keeps its item, or it starts.
LEMMA QueueKeeps ==
  ASSUME IInv, Fits(items'), Len(items') <= QueueLimit,
         UNCHANGED <<recent, state, sock, sockets, linked, handled, sent, ignored>>,
         \A i \in DOMAIN items :
           /\ i \in DOMAIN items'
           /\ items'[i].id = items[i].id
           /\ items'[i].primarySent = items[i].primarySent,
         \A id : HeadOf(items, id) => HeadOf(items', id),
         timer' \in 0 .. sockets,
         Starts(items'),
         arrived' \in 0 .. LastMessage, arrived <= arrived',
         dead' \subseteq Message, \A m \in dead' : m <= arrived',
         \A i \in DOMAIN items' : items'[i].id <= arrived'
  PROVE  Types' /\ Arrivals' /\ Taken' /\ Steps'
  <1>1. drain' \in Drains'
    BY DEF IInv, Types, Starts, Goes, Drains
  <1>2. Taken'
    BY <1>1 DEF Starts, Goes, IInv, Taken, Drains
  <1>3. drain'.step # "idle" => \E i \in DOMAIN items' : items'[i].id = drain'.id
    BY <1>2 DEF Taken, HeadOf, Heads
  <1>4. drain'.step \in {"idle", "call"} \cup Part
    BY <1>1 DEF Drains
  <1>5. TypeOK'
    BY <1>3, <1>4 DEF IInv, Types, TypeOK, Fits
  <1>6. Types'
    BY <1>1, <1>5 DEF IInv, Types
  <1>7. arrived \in Nat /\ arrived' \in Nat
    BY Limits DEF IInv, Types, TypeOK
  <1>8. Arrivals'
    <2>1. \A i \in DOMAIN recent : recent[i] \in Nat
      <3>1. recent \in Seq(Message)
        BY DEF IInv, Types, TypeOK
      <3>2. \A i \in DOMAIN recent : recent[i] \in Message
        BY <3>1, ElementOfSeq, LenProperties
      <3> QED BY <3>2, Limits DEF Message
    <2>2. \A i \in DOMAIN sent : sent[i].id \in Nat
      <3>1. sent \in Seq([id : Message, part : Part])
        BY DEF IInv, Types, TypeOK
      <3>2. \A i \in DOMAIN sent : sent[i] \in [id : Message, part : Part]
        BY <3>1, ElementOfSeq, LenProperties
      <3> QED BY <3>2, Limits DEF Message
    <2>3. \A i \in DOMAIN recent : recent[i] <= arrived'
      BY <1>7, <2>1 DEF IInv, Arrivals
    <2>4. \A i \in DOMAIN sent : sent[i].id <= arrived'
      BY <1>7, <2>2 DEF IInv, Arrivals
    <2> QED BY <2>3, <2>4 DEF IInv, Arrivals
  <1>9. Steps'
    <2>1. CASE drain' = drain /\ drain.step # "idle"
      <3> DEFINE k == IndexOf(drain.id)
      <3>1. k \in DOMAIN items /\ items[k].id = drain.id
        BY <2>1, Found DEF IInv
      <3>2. k \in DOMAIN items' /\ items'[k].id = drain'.id
              /\ items'[k].primarySent = items[k].primarySent
        BY <2>1, <3>1
      <3> HIDE DEF k
      <3>3. (CHOOSE i \in DOMAIN items' : items'[i].id = items'[k].id) = k
        BY <3>2, PlaceOf
      <3>4. Current'.primarySent = Current.primarySent
        BY <3>2, <3>3 DEF Current, IndexOf, k
      <3> QED BY <2>1, <3>4 DEF IInv, Steps, Group
    <2>2. CASE drain' = drain /\ drain.step = "idle"
      BY <2>2 DEF Steps, Part
    <2>3. CASE Goes(items')
      BY <2>3 DEF Goes, Steps, Part
    <2> QED BY <2>1, <2>2, <2>3 DEF Starts
  <1> QED BY <1>2, <1>6, <1>8, <1>9

LEMMA TimeKeeps ==
  ASSUME IInv, TimePasses
  PROVE  IInv' /\ Ids(items') = Ids(items)
  <1>1. PICK k \in DOMAIN items : items' = [items EXCEPT ![k] = [items[k] EXCEPT !.ready = TRUE]]
    BY DEF TimePasses
  <1> DEFINE e == [items[k] EXCEPT !.ready = TRUE]
  <1>2. Fits(items) /\ items[k] \in Item
    BY Found, QueueFields DEF IInv
  <1>3. /\ e \in Item /\ e.id = items[k].id /\ e.primarySent = items[k].primarySent
        /\ e.documentSent = items[k].documentSent
    BY <1>2 DEF Item
  <1> HIDE DEF e
  <1>4. items' = [items EXCEPT ![k] = e]
    BY <1>1 DEF e
  <1>5. /\ Fits(items')
        /\ Len(items') = Len(items)
        /\ DOMAIN items' = DOMAIN items
        /\ items'[k] = e
        /\ \A i \in DOMAIN items : i # k => items'[i] = items[i]
        /\ Ids(items') = Ids(items)
        /\ \A id : HeadOf(items, id) => HeadOf(items', id)
    <2>1. /\ Fits([items EXCEPT ![k] = e])
          /\ Len([items EXCEPT ![k] = e]) = Len(items)
          /\ DOMAIN [items EXCEPT ![k] = e] = DOMAIN items
          /\ [items EXCEPT ![k] = e][k] = e
          /\ \A i \in DOMAIN items : i # k => [items EXCEPT ![k] = e][i] = items[i]
          /\ Ids([items EXCEPT ![k] = e]) = Ids(items)
          /\ \A id : HeadOf(items, id) => HeadOf([items EXCEPT ![k] = e], id)
      BY <1>2, <1>3, QueueChanges
    <2> QED BY <1>4, <2>1
  <1>6. \A i \in DOMAIN items :
          /\ items'[i].id = items[i].id
          /\ items'[i].primarySent = items[i].primarySent
          /\ items'[i].documentSent = items[i].documentSent
    BY <1>3, <1>5
  <1>7. UNCHANGED <<arrived, dead, recent, state, sock, sockets, drain, timer, handled, linked,
                    sent, ignored, faults>>
    BY DEF TimePasses, socket, backend, outside
  <1>8. Types' /\ Arrivals' /\ Taken' /\ Steps'
    <2>1. /\ arrived \in Nat /\ arrived \in 0 .. LastMessage /\ Len(items) <= QueueLimit
          /\ timer \in 0 .. sockets
          /\ dead \subseteq Message /\ \A m \in dead : m <= arrived
          /\ \A i \in DOMAIN items : items[i].id <= arrived
      BY Limits DEF IInv, Types, TypeOK, Arrivals
    <2> QED BY <1>5, <1>6, <1>7, <2>1, QueueKeeps DEF Starts
  <1>9. Unsure' = Unsure
    BY <1>7 DEF Unsure
  <1>10. Progressed'
    <2>1. \A i \in DOMAIN items' : items'[i].primarySent => Got(items[i].id, "reply")
      BY <1>5, <1>6 DEF IInv, Progressed
    <2>2. \A id, part : Got(id, part) => Gets(id, part)
      BY <1>7 DEF Got, Gets
    <2>3. \A i \in DOMAIN items' : items'[i].primarySent => Gets(items'[i].id, "reply")
      BY <1>5, <1>6, <2>1, <2>2
    <2> QED BY <1>5, <1>6, <1>7, <2>3 DEF IInv, Progressed, Got, Gets
  <1>11. Answered'
    <2> SUFFICES ASSUME ~Unsure', NEW i \in DOMAIN items', NEW part \in Part,
                        items'[i].id \notin dead', Gets(items'[i].id, part)
                 PROVE  part = "reply" /\ items'[i].primarySent
      BY DEF Answered, Got, Gets
    <2>1. /\ i \in DOMAIN items /\ items'[i].id = items[i].id /\ items[i].id \notin dead
          /\ items'[i].primarySent = items[i].primarySent
      BY <1>5, <1>6, <1>7
    <2>2. Got(items[i].id, part)
      BY <1>7, <2>1 DEF Got, Gets
    <2> QED BY <1>9, <2>1, <2>2 DEF IInv, Answered
  <1>12. Remembering'
    <2>1. \A m : (\E i \in DOMAIN items : items[i].id = m) => \E i \in DOMAIN items' : items'[i].id = m
      BY <1>5, <1>6
    <2> QED BY <1>7, <1>9, <2>1 DEF IInv, Remembering, Queued
  <1> QED BY <1>5, <1>8, <1>10, <1>11, <1>12 DEF IInv

\* A message is taken in, as a new one or again.
LEMMA ReceiveKeeps ==
  ASSUME IInv, NEW m \in Message, Receive(m),
         \/ arrived' = arrived /\ m <= arrived
         \/ arrived' = arrived + 1 /\ m = arrived + 1,
         Unsure => Unsure'
  PROVE  /\ IInv'
         /\ \/ UNCHANGED <<items, dead>> /\ (m \in ToSet(recent) \/ Queued(m))
            \/ /\ m \notin ToSet(recent) /\ ~Queued(m)
               /\ \/ items' = items /\ dead' = dead \cup {m}
                  \/ Ids(items') = Append(Ids(items), m) /\ dead' = dead
  <1>1. /\ Accepted(m)
        /\ UNCHANGED <<recent, state, sock, sockets, handled, linked, sent, ignored>>
    BY DEF Receive, Accepted, socket, backend, outside
  <1>2. /\ Fits(items) /\ Len(items) <= QueueLimit /\ timer \in 0 .. sockets
        /\ sock \in 0 .. sockets /\ 0 \in 0 .. sockets
    BY Found DEF IInv, Types, TypeOK
  <1>3. /\ arrived \in Nat /\ arrived' \in 0 .. LastMessage /\ arrived <= arrived' /\ m <= arrived'
        /\ arrived' \in Nat /\ m \in Nat
    BY Limits DEF IInv, Types, TypeOK, Message
  <1>4. \/ UNCHANGED <<items, dead>> /\ (m \in ToSet(recent) \/ Queued(m))
        \/ /\ m \notin ToSet(recent) /\ ~Queued(m)
           /\ items' = items /\ dead' = dead \cup {m}
        \/ /\ m \notin ToSet(recent) /\ ~Queued(m) /\ Len(items) < QueueLimit
           /\ items' = Append(items, NewItem(m)) /\ dead' = dead
    BY <1>1, <1>2, Limits, QueueFields DEF Accepted
  <1>5. /\ Fits(items') /\ Len(items') <= QueueLimit
        /\ \A id : HeadOf(items, id) => HeadOf(items', id)
        /\ \A i \in DOMAIN items : i \in DOMAIN items' /\ items'[i] = items[i]
        /\ \A i \in DOMAIN items' : i \in DOMAIN items \/ (~Queued(m) /\ items'[i] = NewItem(m)
                                                             /\ m \notin ToSet(recent))
        /\ items' # items => Ids(items') = Append(Ids(items), m)
    <2>1. CASE items' = items
      BY <1>2, <2>1
    <2>2. CASE /\ m \notin ToSet(recent) /\ ~Queued(m) /\ Len(items) < QueueLimit
               /\ items' = Append(items, NewItem(m))
      <3>1. \A i \in DOMAIN items : items[i].id # m
        BY <2>2 DEF Queued
      <3>2. /\ Fits(Append(items, NewItem(m)))
            /\ Len(Append(items, NewItem(m))) = Len(items) + 1
            /\ Ids(Append(items, NewItem(m))) = Append(Ids(items), m)
            /\ \A id : HeadOf(items, id) => HeadOf(Append(items, NewItem(m)), id)
        BY <1>2, <3>1, QueueGrows
      <3>3. NewItem(m) \in Item
        BY Limits DEF NewItem, Item
      <3>4. /\ DOMAIN items = 1 .. Len(items)
            /\ DOMAIN Append(items, NewItem(m)) = 1 .. Len(items) + 1
            /\ Len(items) \in Nat
            /\ \A i \in 1 .. Len(items) : Append(items, NewItem(m))[i] = items[i]
            /\ Append(items, NewItem(m))[Len(items) + 1] = NewItem(m)
        BY <1>2, <3>3, Appending DEF Fits
      <3>5. Len(items') <= QueueLimit
        BY <2>2, <3>2, <3>4, Limits
      <3>6. \A i \in DOMAIN items : i \in DOMAIN items' /\ items'[i] = items[i]
        BY <2>2, <3>4
      <3>7. \A i \in DOMAIN items' : i \in DOMAIN items \/ items'[i] = NewItem(m)
        BY <2>2, <3>4
      <3> QED BY <2>2, <3>2, <3>5, <3>6, <3>7
    <2> QED BY <1>4, <2>1, <2>2
  <1>6. NewItem(m).id = m /\ ~NewItem(m).primarySent /\ ~NewItem(m).documentSent
    BY DEF NewItem
  <1>7. Starts(items') /\ timer' \in 0 .. sockets
    <2>1. CASE drain.step = "idle"
      <3>1. Loop(sock, items', 0)
        BY <2>1 DEF Receive, TryDrain
      <3> QED BY <1>2, <1>5, <3>1, LoopGoes DEF IInv, Starts, Goes
    <2>2. CASE drain.step # "idle"
      BY <1>2, <2>2 DEF Receive, TryDrain, Starts
    <2> QED BY <2>1, <2>2
  <1>8. /\ dead \subseteq dead' /\ dead' \subseteq Message /\ \A d \in dead' : d <= arrived'
    <2>1. \A d \in dead : d \in Nat /\ d <= arrived
      BY Limits DEF IInv, Types, TypeOK, Arrivals, Message
    <2>2. \A d \in dead : d <= arrived'
      BY <1>3, <2>1
    <2> QED BY <1>3, <1>4, <2>2 DEF IInv, Types, TypeOK
  <1>9. \A i \in DOMAIN items' : items'[i].id <= arrived'
    <2>1. \A i \in DOMAIN items : items[i].id \in Nat /\ items[i].id <= arrived
      BY <1>2, QueueFields, Limits DEF IInv, Arrivals, Message
    <2> QED BY <1>3, <1>5, <1>6, <2>1
  <1>10. Types' /\ Arrivals' /\ Taken' /\ Steps'
    BY <1>1, <1>3, <1>5, <1>7, <1>8, <1>9, QueueKeeps
  <1>11. Progressed'
    BY <1>1, <1>5, <1>6 DEF IInv, Progressed, Got
  <1>12. ~Unsure' /\ m \notin ToSet(recent) /\ ~Queued(m) =>
           m \in dead \/ \A part : ~Got(m, part)
    <2>1. CASE arrived' = arrived
      <3>1. m \in 1 .. arrived
        BY <1>3, <2>1, Limits DEF Message
      <3> QED BY <3>1 DEF IInv, Remembering
    <2>2. CASE m = arrived + 1
      <3>1. \A i \in DOMAIN sent : sent[i].id # m
        BY <1>3, <2>2 DEF IInv, Arrivals
      <3> QED BY <3>1 DEF Got
    <2> QED BY <2>1, <2>2
  <1>13. Answered'
    <2> SUFFICES ASSUME ~Unsure', NEW i \in DOMAIN items', NEW part \in Part,
                        items'[i].id \notin dead', Gets(items'[i].id, part)
                 PROVE  part = "reply" /\ items'[i].primarySent
      BY DEF Answered, Got, Gets
    <2>1. Got(items'[i].id, part) /\ items'[i].id \notin dead
      BY <1>1, <1>8 DEF Got, Gets
    <2>2. CASE i \in DOMAIN items
      BY <1>5, <2>1, <2>2 DEF IInv, Answered
    <2>3. CASE i \notin DOMAIN items
      BY <1>5, <1>6, <1>12, <2>1, <2>3
    <2> QED BY <2>2, <2>3
  <1>14. Remembering'
    <2> SUFFICES ASSUME ~Unsure', NEW x \in 1 .. arrived'
                 PROVE  \/ \E i \in DOMAIN items' : items'[i].id = x
                        \/ x \in dead'
                        \/ x \in ToSet(recent')
      BY DEF Remembering, Queued
    <2>1. CASE x = m
      <3>1. CASE items' = items
        BY <1>1, <1>4, <2>1, <3>1 DEF Queued
      <3>2. CASE items' # items
        BY <1>4, <1>5, <1>6, <2>1, <3>2, QueueFields, <1>2 DEF Queued
      <3> QED BY <3>1, <3>2
    <2>2. CASE x # m
      <3>1. x \in 1 .. arrived
        BY <1>3, <2>2
      <3> QED BY <1>1, <1>5, <1>8, <3>1 DEF IInv, Remembering, Queued
    <2> QED BY <2>1, <2>2
  <1> QED BY <1>4, <1>5, <1>10, <1>11, <1>13, <1>14 DEF IInv

-----------------------------------------------------------------------------
(* What Delivery sees *)

Implements == [Promised!Next]_(Promised!vars)

LEMMA Stutters ==
  ASSUME UNCHANGED <<arrived, dead, handled, ignored, sent>>, Ids(items') = Ids(items),
         Unsure' = Unsure
  PROVE  Implements
  BY DEF Implements, Promised!vars, Ids

LEMMA TurnOf ==
  ASSUME IInv, drain.step # "idle"
  PROVE  Promised!Turn(drain.id)
  <1>1. Fits(items) /\ HeadOf(items, drain.id)
    BY Found DEF IInv, Taken
  <1>2. PICK k \in DOMAIN items :
          /\ items[k].id = drain.id
          /\ \A j \in DOMAIN items : j < k => GroupOf[items[j].id] # GroupOf[items[k].id]
    BY <1>1 DEF HeadOf, Heads
  <1>3. \A j \in 1 .. k - 1 : j \in DOMAIN items /\ j < k
    BY <1>1, QueueFields
  <1>4. k \in DOMAIN Ids(items) /\ Ids(items)[k] = drain.id
    BY <1>2 DEF Ids
  <1>5. \A j \in 1 .. k - 1 : GroupOf[Ids(items)[j]] # GroupOf[drain.id]
    BY <1>2, <1>3 DEF Ids
  <1> QED BY <1>4, <1>5 DEF Promised!Turn, Ids

LEMMA SentIsGot ==
  \A id, part : Promised!Got(id, part) <=> Got(id, part)
  BY DEF Promised!Got, Promised!In, Got

\* What a step does to the message of the loop, for Delivery.
LEMMA Attended ==
  ASSUME IInv, drain.step # "idle", NEW m \in Message, m = drain.id,
         UNCHANGED arrived, Unsure => Unsure',
         \/ Promised!Handle(m) \/ Promised!Ignore(m) \/ Promised!Send(m)
         \/ UNCHANGED <<handled, ignored, sent>>,
         Promised!Stays(m) \/ Promised!Leaves(m) \/ Promised!Dies(m)
  PROVE  Implements
  <1>1. m \in 1 .. arrived
    BY Arrived
  <1>2. Promised!Turn(m)
    BY TurnOf
  <1>3. Promised!Attend
    BY <1>1, <1>2 DEF Promised!Attend
  <1> QED BY <1>3 DEF Implements, Promised!Next

LEMMA AsideDies ==
  ASSUME GivesUp, NEW m, m = drain.id
  PROVE  Promised!Dies(m)
  BY DEF GivesUp, ItemLeaves, Promised!Dies, Promised!Removed

LEMMA AsideStays ==
  ASSUME Retries, NEW m, m = drain.id
  PROVE  Promised!Stays(m)
  BY DEF Retries, ItemStays, Promised!Stays, Ids

LEMMA AsideLeaves ==
  ASSUME Dones, NEW m, m = drain.id, Promised!Settled(m)'
  PROVE  Promised!Leaves(m)
  BY DEF Dones, ItemLeaves, Promised!Leaves, Promised!Removed

LEMMA Settles ==
  ASSUME NEW m \in Message,
         KindOf[m] = "talk" => (\E i \in DOMAIN handled' : handled'[i] = m) \/ m \in ignored',
         KindOf[m] \in {"ask", "decide"} => Gets(m, "reply") \/ Gets(m, "unlinked"),
         KindOf[m] = "decide" => Gets(m, "document") \/ Gets(m, "unlinked"),
         KindOf[m] = "link" => Gets(m, "linked") \/ Gets(m, "refused")
  PROVE  Promised!Settled(m)'
  BY DEF Promised!Settled, Promised!In, Promised!Got, Gets

\* The backend accepts a message once.
LEMMA AcceptsOnce ==
  ASSUME Types, NEW m \in Message, Accepts(m)
  PROVE  /\ handled' \in Seq(Message)
         /\ \E i \in DOMAIN handled' : handled'[i] = m
         /\ UNCHANGED <<ignored, sent>> => Promised!Handle(m) \/ UNCHANGED handled
  <1>1. CASE m \in ToSet(handled)
    BY <1>1 DEF Accepts, ToSet, Types
  <1>2. CASE m \notin ToSet(handled)
    <2>1. handled' = Append(handled, m)
      BY <1>2 DEF Accepts
    <2>2. /\ handled' \in Seq(Message) /\ Len(handled) \in Nat
          /\ DOMAIN handled' = 1 .. Len(handled) + 1 /\ handled'[Len(handled) + 1] = m
      BY <2>1, Appending DEF Types
    <2>3. UNCHANGED <<ignored, sent>> => Promised!Handle(m)
      BY <1>2, <2>1 DEF Promised!Handle, Promised!In, ToSet
    <2>4. Len(handled) + 1 \in 1 .. Len(handled) + 1
      BY <2>2
    <2> QED BY <2>2, <2>3, <2>4
  <1> QED BY <1>1, <1>2

\* A part is sent that the group did not get, unless something may be repeated.
LEMMA SendsOnce ==
  ASSUME IInv, Sending, Post, NEW m, m = drain.id, UNCHANGED <<handled, ignored>>,
         Unsure => Unsure'
  PROVE  Promised!Send(m)
  <1>1. drain.step \in Part /\ drain.step # "idle"
    BY DEF Sending, Part
  <1>2. ~Unsure /\ m \notin dead => ~Got(m, drain.step)
    <2> SUFFICES ASSUME ~Unsure, m \notin dead, Got(m, drain.step)
                 PROVE  FALSE
      OBVIOUS
    <2> DEFINE k == IndexOf(drain.id)
    <2>1. k \in DOMAIN items /\ items[k].id = m /\ Current = items[k]
      BY <1>1, Found DEF IInv, Current
    <2> HIDE DEF k
    <2>2. drain.step = "reply" /\ Current.primarySent
      BY <1>1, <2>1 DEF IInv, Answered
    <2> QED BY <2>2 DEF IInv, Steps, Part
  <1>3. sent' = Append(sent, [id |-> m, part |-> drain.step])
    BY DEF Post
  <1>4. ~Promised!Got(m, drain.step) \/ m \in dead \/ Unsure'
    BY <1>2, SentIsGot
  <1> QED BY <1>1, <1>3, <1>4 DEF Promised!Send, Part

-----------------------------------------------------------------------------
(* The steps of the loop *)

\* The loop puts its item aside after a request.
LEMMA RequestAside ==
  ASSUME IInv, drain.step = "call", Goes(items'), NEW m \in Message, m = drain.id,
         (Dones /\ Promised!Settled(m)') \/ GivesUp \/ Retries,
         UNCHANGED <<arrived, state, sock, sockets, sent, faults>>,
         linked \subseteq linked', handled' \in Seq(Message), ignored' \subseteq Message,
         Promised!Handle(m) \/ Promised!Ignore(m) \/ UNCHANGED <<handled, ignored>>
  PROVE  IInv' /\ Implements
  <1>1. Unsure' = Unsure
    BY DEF Unsure
  <1>2. IInv'
    BY <1>1, AsideKeeps DEF Aside, socket
  <1>3. Promised!Stays(m) \/ Promised!Leaves(m) \/ Promised!Dies(m)
    BY AsideStays, AsideLeaves, AsideDies
  <1>4. drain.step # "idle"
    OBVIOUS
  <1>5. \/ Promised!Handle(m) \/ Promised!Ignore(m) \/ Promised!Send(m)
        \/ UNCHANGED <<handled, ignored, sent>>
    OBVIOUS
  <1> QED BY <1>1, <1>2, <1>3, <1>4, <1>5, Attended

\* The loop goes on to send something after a request.
LEMMA RequestAwaits ==
  ASSUME IInv, drain.step = "call", NEW step \in Part, Await(step),
         NEW m \in Message, m = drain.id,
         UNCHANGED <<arrived, state, sock, sockets, sent, ignored, faults>>,
         linked \subseteq linked', handled' \in Seq(Message),
         Promised!Handle(m) \/ UNCHANGED handled,
         step \in {"reply", "unlinked"} => KindOf[m] \in {"ask", "decide"},
         step \in {"reply", "document"} => Group \in linked',
         step = "document" => KindOf[m] = "decide" /\ Current.primarySent,
         step \in {"linked", "refused"} => KindOf[m] = "link",
         step \in Part \ {"document"} => ~Current.primarySent
  PROVE  IInv' /\ Implements
  <1>1. /\ drain.step # "idle"
        /\ drain' = [drain EXCEPT !.step = step]
        /\ UNCHANGED <<items, dead, recent, timer>>
        /\ ignored' \subseteq Message
    BY DEF Await, queue, IInv, Types
  <1>2. IInv'
    BY <1>1, AwaitKeeps
  <1>3. Unsure' = Unsure
    BY DEF Unsure
  <1>4. Promised!Stays(m)
    BY <1>1 DEF Promised!Stays
  <1>5. \/ Promised!Handle(m) \/ Promised!Ignore(m) \/ Promised!Send(m)
        \/ UNCHANGED <<handled, ignored, sent>>
    OBVIOUS
  <1> QED BY <1>1, <1>2, <1>3, <1>4, <1>5, Attended

LEMMA CurrentProgress ==
  ASSUME IInv, drain.step # "idle"
  PROVE  /\ ~Current.documentSent
         /\ Current.primarySent =>
              KindOf[drain.id] = "decide" /\ Group \in linked /\ Got(drain.id, "reply")
  BY Found DEF IInv, Progressed, Current, Group

LEMMA CallAnsweredStep ==
  ASSUME IInv, CallAnswered
  PROVE  IInv' /\ Implements
  <1>1. /\ drain.step = "call" /\ drain.step # "idle" /\ Types
        /\ KindOf[drain.id] \in {"talk", "ask", "decide"}
        /\ Group \in linked
        /\ Accepts(drain.id)
        /\ Deliver(drain.id)
        /\ UNCHANGED <<arrived, state, sock, sockets, linked, sent, ignored, faults>>
    BY DEF CallAnswered, Calling, socket, outside, IInv
  <1>2. PICK m \in Message : m = drain.id
    BY <1>1, Found
  <1>3. /\ handled' \in Seq(Message)
        /\ \E i \in DOMAIN handled' : handled'[i] = m
        /\ Promised!Handle(m) \/ UNCHANGED handled
        /\ linked \subseteq linked' /\ ignored' \subseteq Message /\ Group \in linked'
    BY <1>1, <1>2, AcceptsOnce DEF Types
  <1>4. CASE KindOf[m] = "talk" /\ Done
    <2>1. Promised!Settled(m)'
      BY <1>3, <1>4, Settles
    <2> QED BY <1>1, <1>2, <1>3, <1>4, <2>1, DoneGoes, RequestAside
  <1>5. CASE Failed
    <2>1. (GivesUp \/ Retries) /\ Goes(items')
      BY <1>1, <1>5, FailedGoes
    <2> QED BY <1>1, <1>2, <1>3, <2>1, RequestAside
  <1>6. CASE KindOf[m] # "talk" /\ ~Current.primarySent /\ Await("reply")
    <2>1. "reply" \in Part
      BY DEF Part
    <2> QED BY <1>1, <1>2, <1>3, <1>6, <2>1, RequestAwaits
  <1>7. CASE KindOf[m] = "decide" /\ Current.primarySent /\ Await("document")
    <2>1. "document" \in Part
      BY DEF Part
    <2> QED BY <1>1, <1>2, <1>3, <1>7, <2>1, RequestAwaits
  <1> QED BY <1>1, <1>2, <1>4, <1>5, <1>6, <1>7, CurrentProgress DEF Deliver

\* What sendPlainReply leaves to do.
LEMMA PlainReplyStep ==
  ASSUME IInv, drain.step = "call", NEW part \in {"unlinked", "linked", "refused"},
         PlainReply(part),
         KindOf[drain.id] = "decide" => Group \notin linked,
         part = "unlinked" => KindOf[drain.id] \in {"ask", "decide"},
         part \in {"linked", "refused"} => KindOf[drain.id] = "link",
         UNCHANGED <<arrived, state, sock, sockets, handled, sent, ignored, faults>>,
         linked \subseteq linked'
  PROVE  IInv' /\ Implements
  <1>1. drain.step # "idle" /\ Types /\ part \in Part
    BY DEF IInv, Part
  <1>2. PICK m \in Message : m = drain.id
    BY <1>1, Found
  <1>3. ~Current.primarySent
    BY <1>1, CurrentProgress
  <1>4. Await(part)
    BY <1>3 DEF PlainReply
  <1>5. handled' \in Seq(Message)
    BY <1>1 DEF Types
  <1> QED BY <1>1, <1>2, <1>3, <1>4, <1>5, RequestAwaits

LEMMA CallUnlinkedStep ==
  ASSUME IInv, CallUnlinked
  PROVE  IInv' /\ Implements
  <1>1. /\ drain.step = "call" /\ drain.step # "idle" /\ Types
        /\ KindOf[drain.id] \in {"talk", "ask", "decide"}
        /\ Group \notin linked
        /\ UNCHANGED <<arrived, state, sock, sockets, handled, linked, sent, faults>>
    BY DEF CallUnlinked, Calling, socket, backend, IInv
  <1>2. PICK m \in Message : m = drain.id
    BY <1>1, Found
  <1>3. CASE KindOf[m] = "talk" /\ ignored' = ignored \cup {m} /\ Done
    <2>1. Promised!Ignore(m)
      BY <1>1, <1>3 DEF Promised!Ignore
    <2>2. Promised!Settled(m)'
      BY <1>3, Settles
    <2>3. handled' \in Seq(Message) /\ ignored' \subseteq Message /\ linked \subseteq linked'
      BY <1>1, <1>3 DEF Types
    <2> QED BY <1>1, <1>2, <1>3, <2>1, <2>2, <2>3, DoneGoes, RequestAside
  <1>4. CASE KindOf[m] # "talk" /\ UNCHANGED ignored /\ PlainReply("unlinked")
    BY <1>1, <1>2, <1>4, PlainReplyStep
  <1> QED BY <1>2, <1>3, <1>4 DEF CallUnlinked

LEMMA CallLinksStep ==
  ASSUME IInv, CallLinks
  PROVE  IInv' /\ Implements
  <1>1. /\ drain.step = "call"
        /\ KindOf[drain.id] = "link"
        /\ UNCHANGED <<arrived, state, sock, sockets, handled, sent, ignored, faults>>
    BY DEF CallLinks, Calling, socket, outside
  <1>2. /\ linked \subseteq linked'
        /\ PlainReply("linked") \/ PlainReply("refused")
    BY DEF CallLinks
  <1> QED BY <1>1, <1>2, PlainReplyStep

LEMMA CallFailsStep ==
  ASSUME IInv, CallFails \/ CallRefused
  PROVE  IInv' /\ Implements
  <1>1. /\ drain.step = "call" /\ drain.step # "idle" /\ Types
        /\ UNCHANGED <<arrived, state, sock, sockets, sent, ignored, faults>>
    BY DEF CallFails, CallRefused, socket, outside, IInv
  <1>2. PICK m \in Message : m = drain.id
    BY <1>1, Found
  <1>3. (GivesUp \/ Retries) /\ Goes(items')
    BY <1>1, FailedGoes, GiveUpGoes DEF CallFails, CallRefused
  <1>4. /\ linked \subseteq linked' /\ handled' \in Seq(Message) /\ ignored' \subseteq Message
        /\ Promised!Handle(m) \/ UNCHANGED handled
    <2>1. CASE UNCHANGED backend
      BY <1>1, <2>1 DEF backend, Types
    <2>2. CASE linked' = linked \cup {Group} /\ UNCHANGED handled
      BY <1>1, <2>2 DEF Types
    <2>3. CASE Accepts(drain.id) /\ UNCHANGED linked
      BY <1>1, <1>2, <2>3, AcceptsOnce DEF Types
    <2> QED BY <2>1, <2>2, <2>3 DEF CallFails, CallRefused, Requested
  <1> QED BY <1>1, <1>2, <1>3, <1>4, RequestAside

LEMMA SendSucceedsStep ==
  ASSUME IInv, SendSucceeds
  PROVE  IInv' /\ Implements
  <1>1. /\ Sending /\ drain.step \in Part /\ drain.step # "idle" /\ Post /\ Types /\ Arrivals
        /\ UNCHANGED <<arrived, state, sock, sockets, handled, linked, ignored, faults>>
        /\ handled' \in Seq(Message) /\ ignored' \subseteq Message /\ linked \subseteq linked'
    BY DEF SendSucceeds, Sending, Part, socket, backend, IInv, Types
  <1>2. PICK m \in Message : m = drain.id
    BY <1>1, Found
  <1>3. Unsure' = Unsure
    BY <1>1 DEF Unsure
  <1>4. Promised!Send(m)
    BY <1>1, <1>2, <1>3, SendsOnce
  <1>5. \A id, part : Gets(id, part) <=> Got(id, part) \/ (id = m /\ part = drain.step)
    BY <1>1, <1>2, Arrived, Posts
  <1>6. CASE /\ drain.step = "reply" /\ KindOf[drain.id] = "decide"
             /\ items' = Progress
             /\ drain' = [drain EXCEPT !.step = "document"]
             /\ UNCHANGED <<dead, recent, timer>>
    <2>1. IInv' /\ Ids(items') = Ids(items)
      BY <1>1, <1>6, ProgressKeeps
    <2>2. Promised!Stays(m)
      BY <1>6, <2>1 DEF Promised!Stays, Ids
    <2> QED BY <1>1, <1>2, <1>3, <1>4, <2>1, <2>2, Attended
  <1>7. CASE Done /\ ~(drain.step = "reply" /\ KindOf[drain.id] = "decide")
    <2>1. Dones /\ Goes(items')
      BY <1>1, <1>7, DoneGoes
    <2>2. Aside
      <3>1. ~Retries
        BY <2>1, <1>1, Found DEF Retries, Dones, ItemLeaves, ItemStays
      <3> QED BY <1>1, <1>3, <2>1, <3>1 DEF Aside, socket
    <2>3. Promised!Settled(m)'
      <3>1. KindOf[m] # "talk"
        BY <1>1, <1>2 DEF IInv, Steps, Part
      <3>2. drain.step = "document" => Got(m, "reply")
        BY <1>1, <1>2, CurrentProgress DEF IInv, Steps
      <3>3. KindOf[m] \in {"ask", "decide"} => drain.step \in {"reply", "document", "unlinked"}
        BY <1>1, <1>2 DEF IInv, Steps, Part
      <3>4. KindOf[m] = "decide" => drain.step \in {"document", "unlinked"}
        BY <1>2, <1>7, <3>3
      <3>5. KindOf[m] = "link" => drain.step \in {"linked", "refused"}
        BY <1>1, <1>2 DEF IInv, Steps, Part
      <3> QED BY <1>5, <3>1, <3>2, <3>3, <3>4, <3>5, Settles
    <2>4. Promised!Leaves(m)
      BY <1>2, <2>1, <2>3, AsideLeaves
    <2> QED BY <1>1, <1>2, <1>3, <1>4, <2>2, <2>4, AsideKeeps, Attended
  <1> QED BY <1>1, <1>6, <1>7, CurrentProgress DEF SendSucceeds

LEMMA SendFailsStep ==
  ASSUME IInv, SendFails \/ SendUncertain
  PROVE  IInv' /\ Implements
  <1>1. /\ Sending /\ drain.step # "idle" /\ Types /\ Failed
        /\ UNCHANGED <<arrived, state, sock, sockets, handled, linked, ignored>>
        /\ handled' \in Seq(Message) /\ ignored' \subseteq Message /\ linked \subseteq linked'
    BY DEF SendFails, SendUncertain, Sending, Part, socket, backend, outside, IInv, Types
  <1>2. PICK m \in Message : m = drain.id
    BY <1>1, Found
  <1>3. (GivesUp \/ Retries) /\ Goes(items')
    BY <1>1, FailedGoes
  <1>4. \/ UNCHANGED <<sent, faults>>
        \/ Post /\ Unsure'
    BY DEF SendFails, SendUncertain, outside, Fault, Unsure
  <1>5. Unsure => Unsure'
    BY <1>1, <1>4 DEF Unsure
  <1>6. IInv'
    BY <1>1, <1>3, <1>4, <1>5, AsideKeeps DEF Aside, socket
  <1>7. Promised!Send(m) \/ UNCHANGED <<handled, ignored, sent>>
    BY <1>1, <1>2, <1>4, <1>5, SendsOnce
  <1>8. Promised!Stays(m) \/ Promised!Dies(m)
    BY <1>2, <1>3, AsideStays, AsideDies
  <1> QED BY <1>1, <1>2, <1>5, <1>6, <1>7, <1>8, Attended

-----------------------------------------------------------------------------
(* The events *)

LEMMA ReceiveNewStep ==
  ASSUME IInv, ReceiveNew
  PROVE  IInv' /\ Implements
  <1>1. /\ arrived < LastMessage /\ arrived \in Nat /\ arrived' = arrived + 1 /\ UNCHANGED faults
        /\ Receive(arrived + 1)
    BY Limits DEF ReceiveNew, IInv, Types, TypeOK
  <1>2. PICK m \in Message : m = arrived + 1
    BY <1>1, Limits DEF Message
  <1>3. Unsure => Unsure'
    BY <1>1, Limits DEF Unsure
  <1>4. /\ IInv'
        /\ \/ UNCHANGED <<items, dead>> /\ (m \in ToSet(recent) \/ Queued(m))
           \/ /\ m \notin ToSet(recent) /\ ~Queued(m)
              /\ \/ items' = items /\ dead' = dead \cup {m}
                 \/ Ids(items') = Append(Ids(items), m) /\ dead' = dead
    BY <1>1, <1>2, <1>3, ReceiveKeeps
  <1>5. m \notin ToSet(recent) /\ ~Queued(m)
    BY <1>1, <1>2 DEF IInv, Arrivals, ToSet, Queued
  <1>6. Promised!Enters(m)
    BY <1>4, <1>5 DEF Promised!Enters, Promised!In, Queued, Ids
  <1>7. UNCHANGED <<handled, ignored, sent>>
    BY <1>1 DEF Receive, backend, outside
  <1>8. Promised!Notify
    <2>1. Promised!Enters(arrived + 1)
      BY <1>2, <1>6 DEF Promised!Enters, Promised!In
    <2> QED BY <1>1, <1>3, <1>7, <2>1 DEF Promised!Notify
  <1> QED BY <1>4, <1>8 DEF Implements, Promised!Next

LEMMA ReceiveRepeatedStep ==
  ASSUME IInv, ReceiveRepeated
  PROVE  IInv' /\ Implements
  <1>1. PICK m \in 1 .. arrived : Receive(m)
    BY DEF ReceiveRepeated
  <1>2. /\ arrived' = arrived /\ m \in Message /\ m <= arrived
        /\ UNCHANGED <<handled, ignored, sent>>
    BY <1>1, Limits DEF ReceiveRepeated, Receive, backend, outside, IInv, Types, TypeOK, Message
  <1>3. Unsure' = Unsure
    <2>1. faults'.kinds = faults.kinds \cup {"repeat"}
      BY DEF ReceiveRepeated, Fault
    <2>2. faults'.kinds \cap {"crash", "uncertain"} = faults.kinds \cap {"crash", "uncertain"}
      BY <2>1
    <2> QED BY <1>2, <2>2 DEF Unsure
  <1>4. /\ IInv'
        /\ \/ UNCHANGED <<items, dead>> /\ (m \in ToSet(recent) \/ Queued(m))
           \/ /\ m \notin ToSet(recent) /\ ~Queued(m)
              /\ \/ items' = items /\ dead' = dead \cup {m}
                 \/ Ids(items') = Append(Ids(items), m) /\ dead' = dead
    BY <1>1, <1>2, <1>3, ReceiveKeeps
  <1>5. CASE UNCHANGED <<items, dead>>
    BY <1>2, <1>3, <1>4, <1>5, Stutters
  <1>6. CASE /\ m \notin ToSet(recent) /\ ~Queued(m)
             /\ \/ items' = items /\ dead' = dead \cup {m}
                \/ Ids(items') = Append(Ids(items), m) /\ dead' = dead
    <2>1. Promised!Enters(m)
      BY <1>6 DEF Promised!Enters, Promised!In, Queued, Ids
    <2>2. m \in dead \/ Unsure
      BY <1>1, <1>6 DEF IInv, Remembering
    <2>3. Promised!NotifyAgain
      BY <1>1, <1>2, <1>3, <2>1, <2>2 DEF Promised!NotifyAgain
    <2> QED BY <1>4, <2>3 DEF Implements, Promised!Next
  <1> QED BY <1>4, <1>5, <1>6

LEMMA SocketSteps ==
  ASSUME IInv, TimerFires \/ Disconnect \/ LoggedOut \/ Reconnect \/ Open
  PROVE  IInv' /\ Implements
  <1>1. UNCHANGED <<arrived, items, dead, recent, linked, handled, sent, ignored>>
    BY DEF TimerFires, Disconnect, LoggedOut, Reconnect, Open, queue, socket, backend, outside
  <1>2. faults'.kinds \cap {"crash", "uncertain"} = faults.kinds \cap {"crash", "uncertain"}
    BY DEF TimerFires, Disconnect, LoggedOut, Reconnect, Open, Fault
  <1>3. Unsure' = Unsure
    BY <1>1, <1>2 DEF Unsure
  <1>4. /\ Fits(items) /\ timer \in 0 .. sockets /\ sock \in 0 .. sockets /\ 0 \in 0 .. sockets
        /\ Types
    BY Found DEF IInv, Types, TypeOK
  <1>5. Starts(items) /\ timer' \in 0 .. sockets
    <2>1. CASE UNCHANGED <<drain, timer>>
      BY <1>4, <2>1 DEF Starts
    <2>2. CASE Loop(sock, items, 0) \/ Drained(sock, items, 0)
      BY <1>4, <2>2, LoopGoes DEF Starts, Goes
    <2>3. CASE timer' = 0 /\ UNCHANGED drain
      BY <1>4, <2>3 DEF Starts
    <2> QED BY <2>1, <2>2, <2>3 DEF TimerFires, Disconnect, LoggedOut, Reconnect, Open
  <1>6. /\ state' \in {"connecting", "connected", "reconnecting", "logged_out"}
        /\ \/ sockets' = sockets /\ sock' \in {0, sock}
           \/ sockets' = sockets + 1 /\ sock' = sockets'
    BY <1>4 DEF TimerFires, Disconnect, LoggedOut, Reconnect, Open, socket, Types, TypeOK
  <1>7. IInv'
    BY <1>1, <1>3, <1>5, <1>6, SocketKeeps
  <1> QED BY <1>1, <1>3, <1>7, Stutters

LEMMA TimePassesStep ==
  ASSUME IInv, TimePasses
  PROVE  IInv' /\ Implements
  <1>1. UNCHANGED <<arrived, dead, handled, ignored, sent, faults>>
    BY DEF TimePasses, backend, outside
  <1>2. Unsure' = Unsure
    BY <1>1 DEF Unsure
  <1> QED BY <1>1, <1>2, TimeKeeps, Stutters

LEMMA CrashStep ==
  ASSUME IInv, Crash
  PROVE  IInv' /\ Implements
  <1>1. IInv' /\ Unsure'
    BY CrashKeeps
  <1>2. UNCHANGED <<arrived, items, ignored>>
    BY DEF Crash
  <1>3. CASE UNCHANGED <<dead, handled, sent>>
    <2>1. Promised!Forget
      BY <1>1, <1>2, <1>3 DEF Promised!Forget
    <2> QED BY <1>1, <2>1 DEF Implements, Promised!Next
  <1>4. CASE drain.step # "idle"
    <2>1. PICK m \in Message : m = drain.id
      BY <1>4, Found DEF IInv
    <2>2. CASE Requested /\ UNCHANGED <<dead, sent>>
      <3>1. Accepts(drain.id) \/ UNCHANGED handled
        BY <2>2 DEF Requested
      <3>2. Promised!Handle(m) \/ UNCHANGED <<handled, ignored, sent>>
        BY <1>2, <2>1, <2>2, <3>1, AcceptsOnce DEF IInv
      <3>3. Promised!Stays(m)
        BY <1>2, <2>2 DEF Promised!Stays
      <3> QED BY <1>1, <1>2, <1>4, <2>1, <3>2, <3>3, Attended
    <2>3. CASE Sending /\ Post /\ UNCHANGED <<dead, handled>>
      <3>1. Promised!Send(m)
        BY <1>1, <1>2, <2>1, <2>3, SendsOnce
      <3>2. Promised!Stays(m)
        BY <1>2, <2>3 DEF Promised!Stays
      <3> QED BY <1>1, <1>2, <1>4, <2>1, <3>1, <3>2, Attended
    <2>4. CASE dead' = dead \cup {drain.id} /\ UNCHANGED <<handled, sent>>
      <3>1. Promised!Dies(m)
        BY <1>2, <2>1, <2>4 DEF Promised!Dies
      <3> QED BY <1>1, <1>2, <1>4, <2>1, <2>4, <3>1, Attended
    <2> QED BY <1>1, <1>3, <2>2, <2>3, <2>4 DEF Crash, backend
  <1>5. CASE drain.step = "idle"
    <2>1. ~Requested /\ ~Sending
      BY <1>5 DEF Requested, Calling, Sending, Part
    <2> QED BY <1>3, <1>5, <2>1 DEF Crash, backend
  <1> QED BY <1>4, <1>5

-----------------------------------------------------------------------------
LEMMA Begins ==
  ASSUME Init
  PROVE  IInv /\ Promised!Init
  <1>1. TypeOK
    BY Limits DEF Init, TypeOK, Idle
  <1>2. Types
    BY <1>1, Limits DEF Init, Types, Drains, Idle
  <1>3. Arrivals /\ Taken /\ Steps
    BY DEF Init, Arrivals, Taken, Steps, Idle, Part
  <1>4. Progressed /\ Answered /\ Remembering
    BY DEF Init, Progressed, Answered, Remembering
  <1>5. ~Unsure
    BY Limits DEF Init, Unsure
  <1>6. Promised!Init
    BY <1>5 DEF Init, Promised!Init
  <1> QED BY <1>2, <1>3, <1>4, <1>6 DEF IInv

LEMMA NextKeeps ==
  ASSUME IInv, [Next]_vars
  PROVE  IInv' /\ Implements
  <1>1. CASE Awaited
    BY <1>1, CallAnsweredStep, CallUnlinkedStep, CallLinksStep, CallFailsStep,
       SendSucceedsStep, SendFailsStep DEF Awaited
  <1>2. CASE ReceiveNew \/ ReceiveRepeated
    BY <1>2, ReceiveNewStep, ReceiveRepeatedStep
  <1>3. CASE TimePasses
    BY <1>3, TimePassesStep
  <1>4. CASE TimerFires \/ Disconnect \/ LoggedOut \/ Reconnect \/ Open
    BY <1>4, SocketSteps
  <1>5. CASE Crash
    BY <1>5, CrashStep
  <1>6. CASE UNCHANGED vars
    <2>1. /\ UNCHANGED <<arrived, items, dead, recent, linked, handled, sent, ignored, faults>>
          /\ UNCHANGED <<state, sock, sockets, drain, timer>>
      BY <1>6 DEF vars, queue, socket, backend, outside
    <2>2. Unsure' = Unsure
      BY <2>1 DEF Unsure
    <2>3. /\ state \in {"connecting", "connected", "reconnecting", "logged_out"}
          /\ timer \in 0 .. sockets
      BY DEF IInv, Types, TypeOK
    <2>4. IInv'
      BY <2>1, <2>2, <2>3, SocketKeeps DEF Starts
    <2> QED BY <2>1, <2>2, <2>4, Stutters
  <1> QED BY <1>1, <1>2, <1>3, <1>4, <1>5, <1>6 DEF Next

(* The queue, its memory and the loop are always well formed: no message is  *)
(* queued twice, no item outlives MAX_PENDING_ATTEMPTS, and the loop works   *)
(* on an item that is still queued (persistent-queue.js, index.js).          *)
THEOREM Typed == Spec => []TypeOK
  <1>1. Init => IInv
    BY Begins
  <1>2. IInv /\ [Next]_vars => IInv'
    BY NextKeeps
  <1>3. IInv => TypeOK
    BY DEF IInv, Types
  <1> QED BY <1>1, <1>2, <1>3, PTL DEF Spec

(* The gateway implements Delivery: whatever sockets, processes, requests    *)
(* and confirmations are lost, messages of a group are attended in their     *)
(* order, leave the queue only settled or as dead letters, and no part of an *)
(* answer is sent twice while nothing was lost or forgotten.                 *)
THEOREM Delivers == Spec => DeliversInOrder
  <1>1. Init => IInv /\ Promised!Init
    BY Begins
  <1>2. IInv /\ [Next]_vars => IInv' /\ [Promised!Next]_Promised!vars
    BY NextKeeps DEF Implements
  <1> QED BY <1>1, <1>2, PTL DEF Spec, DeliversInOrder, Promised!Spec
=============================================================================
