------------------------- MODULE GroupAccess_proofs -------------------------
(***************************************************************************)
(* Safety of GroupAccess for any number of threads, accounts, groups and   *)
(* sessions.  The inductive invariant says what a thread may rely on       *)
(* between the read with which its request begins and the save with which  *)
(* it ends: the lock of a group keeps the sessions of that group as they   *)
(* were, and, as long as sessions without a group stay as get() leaves     *)
(* them (~OddPending), no read holds a copy that undoes a link.            *)
(***************************************************************************)
EXTENDS GroupAccess, FiniteSetTheorems, TLAPS

\* A code is the code of a session that no group has; a session that a read
\* will normalise is linked.
Pending ==
  \A s \in DOMAIN stored :
    /\ stored[s].code => stored[s].group = {}
    /\ stored[s].dirty => stored[s].group # {}

\* One thread at a time between the two ends of a group's lock.
Holds(r) == r.op \in {"link", "resolve"}

Alone ==
  \A w, v \in Worker :
    /\ Holds(worker[w])
    /\ Holds(worker[v])
    /\ worker[w].group = worker[v].group
    => w = v

\* What was read when request r began and is still true.
Fits(r) ==
  /\ r.op \in {"link", "transfer", "assign", "read"} => r.target \in DOMAIN stored
  /\ r.op = "link" => SessionsOf(r.group) \subseteq {r.target}
  /\ r.op = "resolve" => r.found = SessionsOf(r.group)
  /\ r.op = "read" => /\ r.copy.group = stored[r.target].group
                      /\ r.copy.group # {}
                      /\ ~r.copy.code
                      /\ ~r.copy.dirty

IInv ==
  /\ ~OddPending
  /\ TypeOK
  /\ OneSessionPerGroup
  /\ GatewayRemembersRight
  /\ Pending
  /\ Alone
  /\ \A w \in Worker : Fits(worker[w])

\* What a step leaves of links and codes.
Kept ==
  \A s \in DOMAIN stored :
    /\ stored[s].group # {} => stored'[s].group = stored[s].group
    /\ stored'[s].code => stored[s].code /\ stored'[s].group = {}

-----------------------------------------------------------------------------
(* Fields *)

LEMMA SessionFields ==
  ASSUME NEW s \in Session
  PROVE  /\ s.owner \in AtMostOne(User)
         /\ s.assigned \in SUBSET User
         /\ s.code \in BOOLEAN
         /\ s.group \in AtMostOne(Group)
         /\ s.archived \in BOOLEAN
         /\ s.dirty \in BOOLEAN
BY DEF Session

LEMMA OpenedType ==
  ASSUME TypeOK, NEW s \in DOMAIN stored
  PROVE  /\ Opened(s) \in Session
         /\ Opened(s).owner = stored[s].owner
         /\ Opened(s).assigned = stored[s].assigned
         /\ Opened(s).code = stored[s].code
         /\ Opened(s).group = stored[s].group
         /\ Opened(s).archived = stored[s].archived
         /\ Opened(s).dirty = FALSE
<1>1. stored[s] \in Session
  BY DEF TypeOK
<1>2. QED
  BY <1>1 DEF Opened, Session

\* Overwriting one session of the store.
LEMMA SaveType ==
  ASSUME TypeOK, NEW s \in DOMAIN stored, NEW x \in Session, Saves(s, x)
  PROVE  /\ stored' \in Seq(Session)
         /\ DOMAIN stored' = DOMAIN stored
         /\ stored'[s] = x
         /\ \A t \in DOMAIN stored : t # s => stored'[t] = stored[t]
BY DEF TypeOK, Saves

LEMMA EndsType ==
  ASSUME TypeOK, NEW w \in Worker, Ends(w)
  PROVE  /\ worker' \in [Worker -> Request]
         /\ worker'[w] = Idle
         /\ \A v \in Worker : v # w => worker'[v] = worker[v]
BY DEF TypeOK, Ends, Request

LEMMA TakesType ==
  ASSUME TypeOK, NEW w \in Worker, NEW r \in Request, Takes(w, r)
  PROVE  /\ worker' \in [Worker -> Request]
         /\ worker'[w] = r
         /\ \A v \in Worker : v # w => worker'[v] = worker[v]
BY DEF TypeOK, Takes

-----------------------------------------------------------------------------
(* Steps of one kind *)

\* Threads go on as they are, or end.
Quieter ==
  /\ worker' \in [Worker -> Request]
  /\ \A v \in Worker : worker'[v] \in {worker[v], Idle}

LEMMA EndsQuieter ==
  ASSUME TypeOK, NEW w \in Worker, Ends(w)
  PROVE  Quieter
BY EndsType DEF Quieter

LEMMA StaysQuieter ==
  ASSUME TypeOK, worker' = worker
  PROVE  Quieter
BY DEF Quieter, TypeOK

LEMMA IdleFields ==
  /\ Idle \in Request
  /\ Idle.op = "idle"
BY DEF Idle, Request

LEMMA QuieterAlone ==
  ASSUME Alone, Quieter
  PROVE  Alone'
<1>1. \A v \in Worker : Holds(worker[v])' => worker'[v] = worker[v]
  BY IdleFields DEF Quieter, Holds
<1>2. QED
  BY <1>1 DEF Alone, Holds

\* A request begins: nothing is written, and what it read is true.
LEMMA BeginSafe ==
  ASSUME IInv, NEW w \in Worker, NEW r \in Request, Takes(w, r),
         UNCHANGED <<backend, account, stored, known>>,
         Fits(r), Holds(r) => ~GroupLocked(r.group)
  PROVE  IInv' /\ Kept
<1> USE DEF IInv
<1>1. /\ worker' \in [Worker -> Request]
      /\ worker'[w] = r
      /\ \A v \in Worker : v # w => worker'[v] = worker[v]
  BY TakesType
<1>2. TypeOK'
  BY <1>1 DEF TypeOK
<1>3. OneSessionPerGroup' /\ GatewayRemembersRight' /\ Pending'
  BY DEF OneSessionPerGroup, GatewayRemembersRight, Pending
<1>4. Alone'
  BY <1>1 DEF Alone, Holds, GroupLocked
<1>5. ASSUME NEW v \in Worker
      PROVE  Fits(worker[v])'
  <2>1. CASE v = w
    BY <1>1, <2>1 DEF Fits, SessionsOf
  <2>2. CASE v # w
    <3>1. worker'[v] = worker[v] /\ Fits(worker[v])
      BY <1>1, <2>2
    <3>2. QED
      BY <3>1 DEF Fits, SessionsOf
  <2>3. QED
    BY <2>1, <2>2
<1>6. Kept
  BY DEF Kept, Pending
<1>7. QED
  BY <1>2, <1>3, <1>4, <1>5, <1>6

\* A session is saved and stays the session of the same group.
LEMMA SaveSafe ==
  ASSUME IInv, NEW s \in DOMAIN stored, NEW x \in Session, Saves(s, x), Quieter,
         x.group = stored[s].group, x.code => stored[s].code,
         x.dirty => x.group # {},
         UNCHANGED <<backend, account>>,
         known' \in [Group -> AtMostOne(DOMAIN stored)],
         \A g \in Group : \A t \in known'[g] :
           t \in DOMAIN stored /\ stored[t].group = {g}
  PROVE  IInv' /\ Kept
<1> USE DEF IInv
<1>1. /\ stored' \in Seq(Session)
      /\ DOMAIN stored' = DOMAIN stored
      /\ stored'[s] = x
      /\ \A t \in DOMAIN stored : t # s => stored'[t] = stored[t]
  BY SaveType
<1>2. \A t \in DOMAIN stored : stored'[t].group = stored[t].group
  BY <1>1
<1>3. TypeOK'
  BY <1>1 DEF TypeOK, Quieter
<1>4. OneSessionPerGroup'
  BY <1>1, <1>2 DEF OneSessionPerGroup
<1>5. GatewayRemembersRight'
  BY <1>2 DEF GatewayRemembersRight
<1>6. Pending'
  BY <1>1, <1>2 DEF Pending
<1>7. Alone'
  BY QuieterAlone
<1>8. ASSUME NEW v \in Worker
      PROVE  Fits(worker[v])'
  <2>1. CASE worker'[v] = Idle
    BY <2>1, IdleFields DEF Fits
  <2>2. CASE worker'[v] = worker[v]
    <3>1. Fits(worker[v])
      OBVIOUS
    <3>2. \A g : SessionsOf(g)' = SessionsOf(g)
      BY <1>1, <1>2 DEF SessionsOf
    <3>3. QED
      BY <2>2, <3>1, <3>2, <1>1, <1>2 DEF Fits
  <2>3. QED
    BY <2>1, <2>2 DEF Quieter
<1>9. Kept
  BY <1>1, <1>2 DEF Kept, Pending
<1>10. QED
  BY <1>3, <1>4, <1>5, <1>6, <1>7, <1>8, <1>9

\* A session is created; a thread that holds a group holds another one.
LEMMA AppendSafe ==
  ASSUME IInv, NEW x \in Session, stored' = Append(stored, x), Quieter,
         x.code => x.group = {}, ~x.dirty,
         \A g \in x.group : SessionsOf(g) = {},
         \A v \in Worker :
           Holds(worker'[v]) => x.group # {worker'[v].group},
         UNCHANGED <<backend, account>>,
         known' \in [Group -> AtMostOne(DOMAIN stored')],
         \A g \in Group : \A t \in known'[g] : stored'[t].group = {g}
  PROVE  IInv' /\ Kept
<1> USE DEF IInv
<1> DEFINE n == Len(stored) + 1
<1>1. /\ stored' \in Seq(Session)
      /\ DOMAIN stored' = DOMAIN stored \cup {n}
      /\ n \notin DOMAIN stored
      /\ stored'[n] = x
      /\ \A t \in DOMAIN stored : stored'[t] = stored[t]
  BY DEF TypeOK
<1> HIDE DEF n
<1>2. x.group \in AtMostOne(Group)
  BY SessionFields
<1>3. TypeOK'
  BY <1>1 DEF TypeOK, Quieter
<1>4. OneSessionPerGroup'
  <2>1. ASSUME NEW t \in DOMAIN stored, stored[t].group = x.group, x.group # {}
        PROVE  FALSE
    <3>1. PICK g \in x.group : x.group = {g}
      BY <1>2, <2>1 DEF AtMostOne
    <3>2. t \in SessionsOf(g)
      BY <2>1, <3>1 DEF SessionsOf
    <3>3. QED
      BY <3>1, <3>2
  <2>2. QED
    BY <1>1, <2>1 DEF OneSessionPerGroup
<1>5. GatewayRemembersRight'
  BY DEF GatewayRemembersRight
<1>6. Pending'
  BY <1>1 DEF Pending
<1>7. Alone'
  BY QuieterAlone
<1>8. ASSUME NEW v \in Worker
      PROVE  Fits(worker[v])'
  <2>1. CASE worker'[v] = Idle
    BY <2>1, IdleFields DEF Fits
  <2>2. CASE worker'[v] = worker[v]
    <3>1. Fits(worker[v])
      OBVIOUS
    <3>2. ASSUME Holds(worker[v])
          PROVE  SessionsOf(worker[v].group)' = SessionsOf(worker[v].group)
      <4>1. x.group # {worker[v].group} /\ worker'[v].group = worker[v].group
        BY <2>2, <3>2
      <4>2. QED
        BY <1>1, <4>1 DEF SessionsOf
    <3>3. QED
      BY <2>2, <3>1, <3>2, <1>1 DEF Fits, Holds
  <2>3. QED
    BY <2>1, <2>2 DEF Quieter
<1>9. Kept
  BY <1>1 DEF Kept, Pending
<1>10. QED
  BY <1>3, <1>4, <1>5, <1>6, <1>7, <1>8, <1>9

\* A session becomes the session of a group that no other thread holds.
LEMMA LinkSafe ==
  ASSUME IInv, NEW s \in DOMAIN stored, NEW g \in Group, NEW x \in Session,
         Saves(s, x), Quieter,
         stored[s].group = {}, x.group = {g}, ~x.code,
         SessionsOf(g) \subseteq {s},
         \A v \in Worker : Holds(worker'[v]) => worker'[v].group # g,
         UNCHANGED <<backend, account>>,
         known' \in {known, [known EXCEPT ![g] = {s}]}
  PROVE  IInv' /\ Kept
<1> USE DEF IInv
<1>1. /\ stored' \in Seq(Session)
      /\ DOMAIN stored' = DOMAIN stored
      /\ stored'[s] = x
      /\ \A t \in DOMAIN stored : t # s => stored'[t] = stored[t]
  BY SaveType
<1>2. TypeOK'
  <2>1. known' \in [Group -> AtMostOne(DOMAIN stored)]
    BY DEF TypeOK, AtMostOne
  <2>2. QED
    BY <1>1, <2>1 DEF TypeOK, Quieter
<1>3. OneSessionPerGroup'
  BY <1>1 DEF OneSessionPerGroup, SessionsOf
<1>4. GatewayRemembersRight'
  <2>1. ASSUME NEW h \in Group, NEW t \in known[h]
        PROVE  t \in DOMAIN stored /\ t # s /\ stored[t].group = {h}
    BY DEF GatewayRemembersRight, TypeOK, AtMostOne
  <2>2. known \in [Group -> AtMostOne(DOMAIN stored)]
    BY DEF TypeOK
  <2>3. QED
    BY <1>1, <2>1, <2>2 DEF GatewayRemembersRight
<1>5. Pending'
  BY <1>1 DEF Pending
<1>6. Alone'
  BY QuieterAlone
<1>7. ASSUME NEW v \in Worker
      PROVE  Fits(worker[v])'
  <2>1. CASE worker'[v] = Idle
    BY <2>1, IdleFields DEF Fits
  <2>2. CASE worker'[v] = worker[v]
    <3>1. Fits(worker[v])
      OBVIOUS
    <3>2. ASSUME Holds(worker[v])
          PROVE  SessionsOf(worker[v].group)' = SessionsOf(worker[v].group)
      <4>1. worker[v].group # g /\ worker'[v].group = worker[v].group
        BY <2>2, <3>2
      <4>2. QED
        BY <1>1, <4>1 DEF SessionsOf
    <3>3. ASSUME worker[v].op = "read"
          PROVE  worker[v].target # s
      BY <3>1, <3>3 DEF Fits
    <3>4. QED
      BY <2>2, <3>1, <3>2, <3>3, <1>1 DEF Fits, Holds
  <2>3. QED
    BY <2>1, <2>2 DEF Quieter
<1>8. Kept
  BY <1>1 DEF Kept, Pending
<1>9. QED
  BY <1>2, <1>3, <1>4, <1>5, <1>6, <1>7, <1>8

\* Only accounts change, or only threads that held nothing.
LEMMA AccountSafe ==
  ASSUME IInv, UNCHANGED <<backend, stored, known>>, Quieter,
         account' \in [User -> {"none", "active", "inactive"}]
  PROVE  IInv' /\ Kept
<1> USE DEF IInv
<1>1. TypeOK'
  BY DEF TypeOK, Quieter
<1>2. OneSessionPerGroup' /\ GatewayRemembersRight' /\ Pending'
  BY DEF OneSessionPerGroup, GatewayRemembersRight, Pending
<1>3. Alone'
  BY QuieterAlone
<1>4. ASSUME NEW v \in Worker
      PROVE  Fits(worker[v])'
  <2>1. CASE worker'[v] = Idle
    BY <2>1, IdleFields DEF Fits
  <2>2. CASE worker'[v] = worker[v]
    <3>1. Fits(worker[v])
      OBVIOUS
    <3>2. QED
      BY <2>2, <3>1 DEF Fits, SessionsOf
  <2>3. QED
    BY <2>1, <2>2 DEF Quieter
<1>5. Kept
  BY DEF Kept, Pending
<1>6. QED
  BY <1>1, <1>2, <1>3, <1>4, <1>5

-----------------------------------------------------------------------------
(* The steps *)

LEMMA RequestFields ==
  ASSUME NEW r \in Request
  PROVE  /\ r.op \in {"create", "deactivate", "counted"} => r.user \in User
         /\ r.op \in {"link", "resolve"} => r.group \in Group
         /\ r.op \in {"transfer", "assign"} => r.users \in SUBSET User
         /\ r.op = "read" => r.copy \in Session
BY DEF Request, Idle

LEMMA AccountsSafe ==
  ASSUME IInv, Accounts
  PROVE  IInv' /\ Kept
<1> TypeOK
  BY DEF IInv
<1>1. ASSUME NEW u \in Members, Register(u)
      PROVE  IInv' /\ Kept
  BY <1>1, AccountSafe, StaysQuieter DEF Register, TypeOK
<1>2. ASSUME NEW u \in User, Reactivate(u)
      PROVE  IInv' /\ Kept
  BY <1>2, AccountSafe, StaysQuieter DEF Reactivate, TypeOK
<1>3. ASSUME NEW w \in Worker, NEW u \in User, NEW actor \in Admins,
             BeginDeactivate(w, actor, u)
      PROVE  IInv' /\ Kept
  <2> DEFINE r == [op |-> "deactivate", user |-> u]
  <2>1. r \in Request /\ Fits(r) /\ ~Holds(r)
    BY DEF Request, Fits, Holds
  <2>2. Takes(w, r) /\ UNCHANGED <<backend, account, stored, known>>
    BY <1>3 DEF BeginDeactivate
  <2> HIDE DEF r
  <2>3. QED
    BY <2>1, <2>2, BeginSafe
<1>4. ASSUME NEW w \in Worker, CountAdmins(w)
      PROVE  IInv' /\ Kept
  <2>1. CASE Ends(w)
    BY <1>4, <2>1, AccountSafe, EndsQuieter DEF CountAdmins, TypeOK
  <2>2. CASE Takes(w, [worker[w] EXCEPT !.op = "counted"])
    <3> DEFINE r == [worker[w] EXCEPT !.op = "counted"]
    <3>1. worker[w] \in Request /\ worker[w].op = "deactivate"
      BY <1>4 DEF CountAdmins, Serving, TypeOK
    <3>2. r \in Request /\ r.op = "counted"
      BY <3>1 DEF Request, Idle
    <3>3. Fits(r) /\ ~Holds(r)
      BY <3>2 DEF Fits, Holds
    <3>4. Takes(w, r) /\ UNCHANGED <<backend, account, stored, known>>
      BY <1>4, <2>2 DEF CountAdmins
    <3> HIDE DEF r
    <3>5. QED
      BY <3>2, <3>3, <3>4, BeginSafe
  <2>3. QED
    BY <1>4, <2>1, <2>2 DEF CountAdmins
<1>5. ASSUME NEW w \in Worker, FinishDeactivate(w)
      PROVE  IInv' /\ Kept
  <2>1. Quieter
    BY <1>5, EndsQuieter DEF FinishDeactivate
  <2>2. account' \in [User -> {"none", "active", "inactive"}]
    BY <1>5 DEF FinishDeactivate, TypeOK
  <2>3. QED
    BY <1>5, <2>1, <2>2, AccountSafe DEF FinishDeactivate
<1>6. QED
  BY <1>1, <1>2, <1>3, <1>4, <1>5 DEF Accounts

LEMMA KnownFacts ==
  ASSUME IInv
  PROVE  /\ TypeOK
         /\ known \in [Group -> AtMostOne(DOMAIN stored)]
         /\ \A g \in Group : \A t \in known[g] :
              t \in DOMAIN stored /\ stored[t].group = {g}
BY DEF IInv, TypeOK, GatewayRemembersRight, AtMostOne

\* What one thread holds nobody else holds, and it ends.
LEMMA HeldNoMore ==
  ASSUME IInv, NEW w \in Worker, Holds(worker[w]), Ends(w)
  PROVE  \A v \in Worker : Holds(worker'[v]) => worker'[v].group # worker[w].group
<1>1. worker'[w] = Idle /\ \A v \in Worker : v # w => worker'[v] = worker[v]
  BY EndsType DEF IInv
<1>2. ~Holds(worker'[w])
  BY <1>1, IdleFields DEF Holds
<1>3. QED
  BY <1>1, <1>2 DEF IInv, Alone

\* The created session belongs to no group.
LEMMA CreateSafe ==
  ASSUME IInv, NEW w \in Worker, FinishCreate(w)
  PROVE  IInv' /\ Kept
<1> DEFINE owner == {worker[w].user} \ Admins
           x == [owner |-> owner, assigned |-> owner, code |-> owner # {},
                 group |-> {}, archived |-> FALSE, dirty |-> FALSE]
<1>1. worker[w] \in Request /\ worker[w].op = "create"
  BY DEF FinishCreate, Serving, IInv, TypeOK
<1>2. worker[w].user \in User
  BY <1>1, RequestFields
<1>3. x \in Session
  BY <1>2 DEF Session, AtMostOne
<1>4. x.group = {} /\ ~x.dirty
  OBVIOUS
<1>5. stored' = Append(stored, x)
  BY DEF FinishCreate
<1>6. Quieter /\ UNCHANGED <<backend, account, known>>
  BY EndsQuieter DEF FinishCreate, IInv
<1> HIDE DEF x
<1>7. stored \in Seq(Session)
  BY DEF IInv, TypeOK
<1>8. /\ DOMAIN stored \subseteq DOMAIN stored'
      /\ \A t \in DOMAIN stored : stored'[t] = stored[t]
  BY <1>3, <1>5, <1>7
<1>9. known' \in [Group -> AtMostOne(DOMAIN stored')]
  BY <1>6, <1>8, KnownFacts DEF AtMostOne
<1>10. \A g \in Group : \A t \in known'[g] : stored'[t].group = {g}
  BY <1>6, <1>8, KnownFacts
<1>11. QED
  BY <1>3, <1>4, <1>5, <1>6, <1>9, <1>10, AppendSafe

LEMMA TransferSafe ==
  ASSUME IInv, NEW w \in Worker, FinishTransfer(w)
  PROVE  IInv' /\ Kept
<1> DEFINE s == worker[w].target
           o == Opened(s)
           x == [o EXCEPT !.owner = worker[w].users,
                          !.assigned = (@ \ o.owner) \cup worker[w].users]
<1>1. worker[w] \in Request /\ worker[w].op = "transfer" /\ Fits(worker[w])
  BY DEF FinishTransfer, Serving, IInv, TypeOK
<1>2. s \in DOMAIN stored
  BY <1>1 DEF Fits
<1>3. worker[w].users \in AtMostOne(User) /\ worker[w].users \subseteq User
  BY <1>1 DEF Request, Idle, AtMostOne
<1>4. /\ o \in Session
      /\ o.group = stored[s].group
      /\ o.code = stored[s].code
      /\ ~o.dirty
  BY <1>2, KnownFacts, OpenedType
<1>5. Saves(s, x) /\ UNCHANGED <<backend, account, known>> /\ Quieter
  BY EndsQuieter, KnownFacts DEF FinishTransfer
<1>6. x \in Session /\ x.group = o.group /\ x.code = o.code /\ ~x.dirty
  <2> HIDE DEF o
  <2>1. QED
    BY <1>3, <1>4 DEF Session
<1> HIDE DEF s, x, o
<1>7. QED
  BY <1>2, <1>4, <1>5, <1>6, SaveSafe, KnownFacts

LEMMA AssignSafe ==
  ASSUME IInv, NEW w \in Worker, FinishAssign(w)
  PROVE  IInv' /\ Kept
<1> DEFINE s == worker[w].target
           o == Opened(s)
           x == [o EXCEPT !.assigned = worker[w].users]
<1>1. worker[w] \in Request /\ worker[w].op = "assign" /\ Fits(worker[w])
  BY DEF FinishAssign, Serving, IInv, TypeOK
<1>2. s \in DOMAIN stored
  BY <1>1 DEF Fits
<1>3. worker[w].users \subseteq User
  BY <1>1, RequestFields
<1>4. /\ o \in Session
      /\ o.group = stored[s].group
      /\ o.code = stored[s].code
      /\ ~o.dirty
  BY <1>2, KnownFacts, OpenedType
<1>5. Saves(s, x) /\ UNCHANGED <<backend, account, known>> /\ Quieter
  BY EndsQuieter, KnownFacts DEF FinishAssign
<1>6. x \in Session /\ x.group = o.group /\ x.code = o.code /\ ~x.dirty
  <2> HIDE DEF o
  <2>1. QED
    BY <1>3, <1>4 DEF Session
<1> HIDE DEF s, x, o
<1>7. QED
  BY <1>2, <1>4, <1>5, <1>6, SaveSafe, KnownFacts

LEMMA ArchiveSafe ==
  ASSUME IInv, NEW s \in DOMAIN stored, NEW archived \in BOOLEAN,
         SetArchived(s, archived)
  PROVE  IInv' /\ Kept
<1> DEFINE o == Opened(s)
           x == [o EXCEPT !.archived = archived]
<1>1. /\ o \in Session
      /\ o.group = stored[s].group
      /\ o.code = stored[s].code
      /\ ~o.dirty
  BY KnownFacts, OpenedType
<1>2. Saves(s, x) /\ UNCHANGED <<backend, account, known>> /\ Quieter
  BY StaysQuieter, KnownFacts DEF SetArchived
<1>3. x \in Session /\ x.group = o.group /\ x.code = o.code /\ ~x.dirty
  <2> HIDE DEF o
  <2>1. QED
    BY <1>1 DEF Session
<1> HIDE DEF x, o
<1>4. QED
  BY <1>1, <1>2, <1>3, SaveSafe, KnownFacts

LEMMA SessionsSafe ==
  ASSUME IInv, Sessions
  PROVE  IInv' /\ Kept
<1>1. ASSUME NEW w \in Worker, NEW u \in User, BeginCreate(w, u)
      PROVE  IInv' /\ Kept
  <2> DEFINE r == [op |-> "create", user |-> u]
  <2>1. r \in Request /\ Fits(r) /\ ~Holds(r)
    BY DEF Request, Fits, Holds
  <2>2. Takes(w, r) /\ UNCHANGED <<backend, account, stored, known>>
    BY <1>1 DEF BeginCreate
  <2> HIDE DEF r
  <2>3. QED
    BY <2>1, <2>2, BeginSafe
<1>2. ASSUME NEW w \in Worker, NEW s \in DOMAIN stored, NEW u \in Members,
             BeginTransfer(w, s, u)
      PROVE  IInv' /\ Kept
  <2> DEFINE r == [op |-> "transfer", target |-> s, users |-> {u}]
  <2>1. s \in Nat /\ u \in User
    BY DEF IInv, TypeOK, User
  <2>2. r \in Request /\ Fits(r) /\ ~Holds(r)
    BY <2>1 DEF Request, Fits, Holds
  <2>3. Takes(w, r) /\ UNCHANGED <<backend, account, stored, known>>
    BY <1>2 DEF BeginTransfer
  <2> HIDE DEF r
  <2>4. QED
    BY <2>2, <2>3, BeginSafe
<1>3. ASSUME NEW w \in Worker, NEW s \in DOMAIN stored, NEW users \in AccessLists,
             BeginAssign(w, s, users)
      PROVE  IInv' /\ Kept
  <2> DEFINE r == [op |-> "assign", target |-> s, users |-> users]
  <2>1. s \in Nat /\ users \subseteq User
    BY AccessAssumption DEF IInv, TypeOK
  <2>2. r \in Request /\ Fits(r) /\ ~Holds(r)
    BY <2>1 DEF Request, Fits, Holds
  <2>3. Takes(w, r) /\ UNCHANGED <<backend, account, stored, known>>
    BY <1>3 DEF BeginAssign
  <2> HIDE DEF r
  <2>4. QED
    BY <2>2, <2>3, BeginSafe
<1>4. QED
  BY <1>1, <1>2, <1>3, CreateSafe, TransferSafe, AssignSafe, ArchiveSafe
  DEF Sessions, Transfers

\* The code is still there: the session becomes the session of the group.
LEMMA LinkStepSafe ==
  ASSUME IInv, NEW w \in Worker, FinishLink(w)
  PROVE  IInv' /\ Kept
<1> DEFINE g == worker[w].group
           s == worker[w].target
           o == Opened(s)
           x == [o EXCEPT !.group = {g}, !.code = FALSE]
<1>1. worker[w] \in Request /\ worker[w].op = "link" /\ Fits(worker[w])
  BY DEF FinishLink, Serving, IInv, TypeOK
<1>2. s \in DOMAIN stored /\ SessionsOf(g) \subseteq {s} /\ g \in Group
  BY <1>1, RequestFields DEF Fits
<1>3. /\ o \in Session
      /\ o.group = stored[s].group
      /\ o.code = stored[s].code
      /\ ~o.dirty
  BY <1>2, KnownFacts, OpenedType
<1>4. Quieter /\ Ends(w) /\ UNCHANGED <<backend, account>>
  BY EndsQuieter, KnownFacts DEF FinishLink
<1>5. CASE stored[s].code
  <2>1. Saves(s, x)
    BY <1>5 DEF FinishLink
  <2>2. x \in Session /\ x.group = {g} /\ ~x.code
    <3> HIDE DEF o, g
    <3>1. QED
      BY <1>2, <1>3 DEF Session, AtMostOne
  <2>3. known' \in {known, [known EXCEPT ![g] = {s}]}
    BY <1>5 DEF FinishLink, Answered
  <2>4. stored[s].group = {}
    BY <1>2, <1>5 DEF IInv, Pending
  <2>5. \A v \in Worker : Holds(worker'[v]) => worker'[v].group # g
    BY <1>1, <1>4, HeldNoMore DEF Holds
  <2> HIDE DEF g, s, x, o
  <2>6. QED
    BY <1>2, <1>4, <2>1, <2>2, <2>3, <2>4, <2>5, LinkSafe
<1>6. CASE ~stored[s].code
  <2>1. Saves(s, o) /\ UNCHANGED known
    BY <1>6 DEF FinishLink
  <2> HIDE DEF g, s, x, o
  <2>2. QED
    BY <1>2, <1>3, <1>4, <2>1, SaveSafe, KnownFacts
<1>7. QED
  BY <1>5, <1>6

\* A group that is resolved has its session, or gets its first one.
LEMMA ResolveStepSafe ==
  ASSUME IInv, NEW w \in Worker, FinishResolve(w)
  PROVE  IInv' /\ Kept
<1> DEFINE g == worker[w].group
           still == {s \in worker[w].found : stored[s].group = {g}}
           x == [owner |-> {}, assigned |-> {}, code |-> FALSE,
                 group |-> {g}, archived |-> FALSE, dirty |-> FALSE]
<1>1. worker[w] \in Request /\ worker[w].op = "resolve" /\ Fits(worker[w])
  BY DEF FinishResolve, Serving, IInv, TypeOK
<1>2. worker[w].found = SessionsOf(g) /\ g \in Group
  BY <1>1, RequestFields DEF Fits
<1>3. Quieter /\ Ends(w) /\ UNCHANGED <<backend, account>>
  BY EndsQuieter, KnownFacts DEF FinishResolve
<1>4. ASSUME NEW s \in still, Saves(s, Opened(s)), Answered(g, s)
      PROVE  IInv' /\ Kept
  <2>1. s \in DOMAIN stored /\ stored[s].group = {g}
    BY <1>2 DEF SessionsOf
  <2>2. /\ Opened(s) \in Session
        /\ Opened(s).group = stored[s].group
        /\ Opened(s).code = stored[s].code
        /\ ~Opened(s).dirty
    BY <2>1, KnownFacts, OpenedType
  <2> HIDE DEF g
  <2>3. /\ known' \in [Group -> AtMostOne(DOMAIN stored)]
        /\ \A h \in Group : \A t \in known'[h] :
             t \in DOMAIN stored /\ stored[t].group = {h}
    <3>1. known' \in {known, [known EXCEPT ![g] = {s}]}
      BY <1>4 DEF Answered
    <3>2. {s} \in AtMostOne(DOMAIN stored)
      BY <2>1 DEF AtMostOne
    <3>3. QED
      BY <1>2, <2>1, <3>1, <3>2, KnownFacts, SMTT(30)
  <2>4. QED
    BY <1>3, <1>4, <2>1, <2>2, <2>3, SaveSafe
<1>5. ASSUME still = {}, stored' = Append(stored, x), Answered(g, Len(stored) + 1)
      PROVE  IInv' /\ Kept
  <2>1. SessionsOf(g) = {}
    BY <1>2, <1>5 DEF SessionsOf
  <2>2. x \in Session
    BY <1>2 DEF Session, AtMostOne
  <2>3. x.group = {g} /\ ~x.code /\ ~x.dirty
    OBVIOUS
  <2>4. \A v \in Worker : Holds(worker'[v]) => worker'[v].group # g
    BY <1>1, <1>3, HeldNoMore DEF Holds
  <2> DEFINE n == Len(stored) + 1
  <2> HIDE DEF g, x
  <2>5. stored \in Seq(Session)
    BY DEF IInv, TypeOK
  <2>6. /\ DOMAIN stored' = DOMAIN stored \cup {n}
        /\ stored'[n] = x
        /\ \A t \in DOMAIN stored : stored'[t] = stored[t]
    BY <1>5, <2>2, <2>5
  <2>7. known' \in {known, [known EXCEPT ![g] = {n}]}
    BY <1>5 DEF Answered
  <2> HIDE DEF n
  <2>8. known' \in [Group -> AtMostOne(DOMAIN stored')]
    BY <1>2, <2>6, <2>7, KnownFacts DEF AtMostOne
  <2>9. \A h \in Group : \A t \in known'[h] : stored'[t].group = {h}
    BY <1>2, <2>3, <2>6, <2>7, KnownFacts
  <2>10. QED
    BY <1>3, <1>5, <2>1, <2>2, <2>3, <2>4, <2>8, <2>9, AppendSafe
<1>6. QED
  BY <1>4, <1>5 DEF FinishResolve

LEMMA ConfigureSafe ==
  ASSUME IInv, NEW g \in Group, ConfigureChannel(g)
  PROVE  IInv' /\ Kept
<1>1. PICK s \in known[g] : /\ Saves(s, [Opened(s) EXCEPT !.group = {g}])
                            /\ UNCHANGED <<backend, account, known, worker>>
  BY DEF ConfigureChannel
<1>2. s \in DOMAIN stored /\ stored[s].group = {g}
  BY KnownFacts
<1> DEFINE o == Opened(s)
           x == [o EXCEPT !.group = {g}]
<1>3. /\ o \in Session
      /\ o.group = stored[s].group
      /\ o.code = stored[s].code
      /\ ~o.dirty
  BY <1>2, KnownFacts, OpenedType
<1>4. x \in Session /\ x.group = {g} /\ x.code = o.code /\ ~x.dirty
  <2> HIDE DEF o
  <2>1. QED
    BY <1>2, <1>3 DEF Session, AtMostOne
<1>5. Saves(s, x) /\ Quieter
  BY <1>1, StaysQuieter, KnownFacts
<1> HIDE DEF x, o
<1>6. QED
  BY <1>1, <1>2, <1>3, <1>4, <1>5, SaveSafe, KnownFacts

LEMMA GroupsSafe ==
  ASSUME IInv, Groups
  PROVE  IInv' /\ Kept
<1>1. ASSUME NEW w \in Worker, NEW g \in Group, NEW s \in DOMAIN stored,
             BeginLink(w, g, s)
      PROVE  IInv' /\ Kept
  <2> DEFINE r == [op |-> "link", group |-> g, target |-> s]
  <2>1. s \in Nat
    BY DEF IInv, TypeOK
  <2>2. r \in Request /\ Fits(r) /\ ~GroupLocked(r.group)
    BY <1>1, <2>1 DEF BeginLink, Request, Fits
  <2>3. Takes(w, r) /\ UNCHANGED <<backend, account, stored, known>>
    BY <1>1 DEF BeginLink
  <2> HIDE DEF r
  <2>4. QED
    BY <2>2, <2>3, BeginSafe
<1>2. ASSUME NEW w \in Worker, NEW g \in Group, BeginResolve(w, g)
      PROVE  IInv' /\ Kept
  <2> DEFINE r == [op |-> "resolve", group |-> g, found |-> SessionsOf(g)]
  <2>1. SessionsOf(g) \subseteq Nat
    BY DEF IInv, TypeOK, SessionsOf
  <2>2. r \in Request /\ Fits(r) /\ ~GroupLocked(r.group)
    BY <1>2, <2>1 DEF BeginResolve, Request, Fits
  <2>3. Takes(w, r) /\ UNCHANGED <<backend, account, stored, known>>
    BY <1>2 DEF BeginResolve
  <2> HIDE DEF r
  <2>4. QED
    BY <2>2, <2>3, BeginSafe
<1>3. QED
  BY <1>1, <1>2, LinkStepSafe, ResolveStepSafe, ConfigureSafe DEF Groups

\* What a read saves has the group of the session and no code.
LEMMA ReadsSafe ==
  ASSUME IInv, Reads
  PROVE  IInv' /\ Kept
<1>1. ASSUME NEW s \in DOMAIN stored, StoresUntidy(s)
      PROVE  IInv' /\ Kept
  <2> DEFINE o == stored[s]
             x == [o EXCEPT !.dirty = TRUE]
  <2>1. o \in Session /\ o.group # {}
    BY <1>1, KnownFacts DEF StoresUntidy, TypeOK, IInv
  <2>2. Saves(s, x) /\ UNCHANGED <<backend, account, known>> /\ Quieter
    BY <1>1, StaysQuieter, KnownFacts DEF StoresUntidy
  <2>3. x \in Session /\ x.group = o.group /\ x.code = o.code
    <3> HIDE DEF o
    <3>1. QED
      BY <2>1 DEF Session
  <2> HIDE DEF x
  <2>4. QED
    BY <2>1, <2>2, <2>3, SaveSafe, KnownFacts
<1>2. ASSUME NEW w \in Worker, NEW s \in DOMAIN stored, BeginRead(w, s)
      PROVE  IInv' /\ Kept
  <2> DEFINE r == [op |-> "read", target |-> s, copy |-> Opened(s)]
  <2>1. s \in Nat
    BY DEF IInv, TypeOK
  <2>2. Opened(s) \in Session
    BY KnownFacts, OpenedType
  <2>3. stored[s].group # {} /\ ~stored[s].code
    BY <1>2 DEF BeginRead, IInv, Pending
  <2>4. r \in Request /\ ~Holds(r)
    BY <2>1, <2>2 DEF Request, Holds
  <2>5. Fits(r)
    BY <2>3, KnownFacts, OpenedType DEF Fits
  <2>6. Takes(w, r) /\ UNCHANGED <<backend, account, stored, known>>
    BY <1>2 DEF BeginRead
  <2> HIDE DEF r
  <2>7. QED
    BY <2>4, <2>5, <2>6, BeginSafe
<1>3. ASSUME NEW w \in Worker, FinishRead(w)
      PROVE  IInv' /\ Kept
  <2> DEFINE s == worker[w].target
             x == worker[w].copy
  <2>1. worker[w] \in Request /\ worker[w].op = "read" /\ Fits(worker[w])
    BY <1>3 DEF FinishRead, Serving, IInv, TypeOK
  <2>2. /\ s \in DOMAIN stored
        /\ x \in Session
        /\ x.group = stored[s].group
        /\ ~x.code
        /\ ~x.dirty
    BY <2>1, RequestFields DEF Fits
  <2>3. Saves(s, x) /\ UNCHANGED <<backend, account, known>> /\ Quieter
    BY <1>3, EndsQuieter, KnownFacts DEF FinishRead
  <2> HIDE DEF s, x
  <2>4. QED
    BY <2>2, <2>3, SaveSafe, KnownFacts
<1>4. QED
  BY <1>1, <1>2, <1>3 DEF Reads

-----------------------------------------------------------------------------
(* Theorems *)

LEMMA InitSafe ==
  ASSUME Init, ~OddPending
  PROVE  IInv
<1>1. TypeOK
  BY IdleFields DEF Init, TypeOK, AtMostOne
<1>2. \A w \in Worker : worker[w] = Idle
  BY DEF Init
<1>3. OneSessionPerGroup /\ GatewayRemembersRight /\ Pending
  BY DEF Init, OneSessionPerGroup, GatewayRemembersRight, Pending
<1>4. Alone /\ \A w \in Worker : Fits(worker[w])
  BY <1>2, IdleFields DEF Alone, Holds, Fits
<1>5. QED
  BY <1>1, <1>3, <1>4 DEF IInv

LEMMA StutterSafe ==
  ASSUME IInv, UNCHANGED vars
  PROVE  IInv' /\ Kept
BY AccountSafe, StaysQuieter, KnownFacts DEF vars, TypeOK

LEMMA StepSafe ==
  ASSUME IInv, [Next]_vars
  PROVE  IInv' /\ Kept
BY AccountsSafe, SessionsSafe, GroupsSafe, ReadsSafe, StutterSafe DEF Next

\* The inductive invariant of the access model: the locks of the groups and
\* the second look at the code under the session's lock keep it.
THEOREM Invariant == Spec /\ ~OddPending => []IInv
<1>1. Init /\ ~OddPending => IInv
  BY InitSafe
<1>2. IInv /\ [Next]_vars => IInv'
  BY StepSafe
<1>3. QED
  BY <1>1, <1>2, PTL DEF Spec

\* Every variable keeps its type.
THEOREM Typed == Spec /\ ~OddPending => []TypeOK
BY Invariant, PTL DEF IInv

\* A group has at most one session, for any number of groups, accounts and
\* threads, as long as no session has something to normalise before it is
\* linked: resolutions and links of one group exclude each other, and a code is
\* compared again under the lock of its session.
THEOREM OneSession == Spec /\ ~OddPending => []OneSessionPerGroup
BY Invariant, PTL DEF IInv

\* What the gateway remembers of a group is the session that group has, as long
\* as no session has something to normalise before it is linked.
THEOREM Remembers == Spec /\ ~OddPending => []GatewayRemembersRight
BY Invariant, PTL DEF IInv

\* A linked session stays linked to its group and its code does not return, as
\* long as no session has something to normalise before it is linked: only such
\* a session is saved by a read that began before the link (AccessUnlinked).
THEOREM LinkForever == Spec /\ ~OddPending => LinkIsForever
<1>1. Init /\ ~OddPending => IInv
  BY InitSafe
<1>2. IInv /\ [Next]_vars => IInv' /\ [Kept]_vars
  BY StepSafe DEF Kept
<1>3. QED
  BY <1>1, <1>2, PTL DEF Spec, LinkIsForever, Kept

-----------------------------------------------------------------------------
(* Administrators *)

\* The JSON files let one administrator at a time be counted and deactivated.
\* Only the accounts matter: not the sessions, and not OddPending either.
Governed ==
  /\ account \in [User -> {"none", "active", "inactive"}]
  /\ AdminStays

LEMMA InitGoverned ==
  ASSUME Admins # {}, Init
  PROVE  Governed
BY DEF Init, Governed, AdminStays, ActiveAdmins, User

\* An account that becomes active takes nobody's place.
LEMMA ActivationGoverned ==
  ASSUME Governed, NEW u \in User, UNCHANGED backend,
         account' = [account EXCEPT ![u] = "active"]
  PROVE  Governed'
<1>1. account' \in [User -> {"none", "active", "inactive"}]
  BY DEF Governed
<1>2. ActiveAdmins \subseteq ActiveAdmins'
  BY DEF Governed, ActiveAdmins, User
<1>3. QED
  BY <1>1, <1>2 DEF Governed, AdminStays

\* The last active administrator is refused: somebody else is left otherwise.
LEMMA DeactivationGoverned ==
  ASSUME Governed, NEW w \in Worker, FinishDeactivate(w)
  PROVE  Governed'
<1> DEFINE u == worker[w].user
<1> HIDE DEF u
<1>1. UNCHANGED backend
  BY DEF FinishDeactivate
<1>2. IF backend = "json" /\ u \in ActiveAdmins /\ Cardinality(ActiveAdmins) <= 1
      THEN UNCHANGED account
      ELSE account' = [account EXCEPT ![u] = "inactive"]
  BY DEF FinishDeactivate, u
<1>3. account' \in [User -> {"none", "active", "inactive"}]
  BY <1>2 DEF Governed
<1>4. ASSUME backend = "json"
      PROVE  ActiveAdmins' # {}
  <2>1. CASE account' = account
    BY <1>4, <2>1 DEF Governed, AdminStays, ActiveAdmins
  <2>2. CASE /\ ~(u \in ActiveAdmins /\ Cardinality(ActiveAdmins) <= 1)
             /\ account' = [account EXCEPT ![u] = "inactive"]
    <3>1. PICK v \in ActiveAdmins : v # u
      <4>1. CASE u \notin ActiveAdmins
        BY <1>4, <4>1 DEF Governed, AdminStays
      <4>2. CASE u \in ActiveAdmins
        <5>1. Cardinality({u}) = 1
          BY FS_Singleton
        <5>2. ActiveAdmins # {u}
          BY <2>2, <4>2, <5>1
        <5>3. QED
          BY <4>2, <5>2
      <4>3. QED
        BY <4>1, <4>2
    <3>2. account'[v] = "active"
      BY <2>2, <3>1 DEF Governed, ActiveAdmins, User
    <3>3. QED
      BY <3>1, <3>2 DEF ActiveAdmins
  <2>3. QED
    BY <1>2, <1>4, <2>1, <2>2
<1>5. QED
  BY <1>1, <1>3, <1>4 DEF Governed, AdminStays

LEMMA QuietGoverned ==
  ASSUME Governed, UNCHANGED <<backend, account>>
  PROVE  Governed'
BY DEF Governed, AdminStays, ActiveAdmins

LEMMA StepGoverned ==
  ASSUME Governed, [Next]_vars
  PROVE  Governed'
<1>1. CASE Accounts
  <2>1. ASSUME NEW u \in Members, Register(u)
        PROVE  Governed'
    BY <2>1, ActivationGoverned DEF Register, User
  <2>2. ASSUME NEW u \in User, Reactivate(u)
        PROVE  Governed'
    BY <2>2, ActivationGoverned DEF Reactivate
  <2>3. ASSUME NEW w \in Worker, NEW actor \in Admins, NEW u \in User,
               BeginDeactivate(w, actor, u)
        PROVE  Governed'
    BY <2>3, QuietGoverned DEF BeginDeactivate
  <2>4. ASSUME NEW w \in Worker, CountAdmins(w)
        PROVE  Governed'
    BY <2>4, QuietGoverned DEF CountAdmins
  <2>5. QED
    BY <1>1, <2>1, <2>2, <2>3, <2>4, DeactivationGoverned DEF Accounts
<1>2. CASE Sessions
  <2>1. UNCHANGED <<backend, account>>
    BY <1>2 DEF Sessions, Transfers, BeginCreate, BeginTransfer, BeginAssign,
       FinishCreate, FinishAssign, FinishTransfer, SetArchived
  <2>2. QED
    BY <2>1, QuietGoverned
<1>3. CASE Groups
  <2>1. UNCHANGED <<backend, account>>
    BY <1>3 DEF Groups, BeginLink, BeginResolve, FinishLink, FinishResolve,
       ConfigureChannel
  <2>2. QED
    BY <2>1, QuietGoverned
<1>4. CASE Reads
  <2>1. UNCHANGED <<backend, account>>
    BY <1>4 DEF Reads, StoresUntidy, BeginRead, FinishRead
  <2>2. QED
    BY <2>1, QuietGoverned
<1>5. CASE UNCHANGED vars
  BY <1>5, QuietGoverned DEF vars
<1>6. QED
  BY <1>1, <1>2, <1>3, <1>4, <1>5 DEF Next

\* With the JSON files some administrator is always active, however many
\* threads deactivate administrators at once.  It needs an installation that
\* was given one: without PANEL_ADMIN_PASSWORD and without the demo accounts
\* nobody is created, and there is nobody to deactivate.
THEOREM AdminRemains == Admins # {} /\ Spec => []AdminStays
<1>1. Admins # {} /\ Init => Governed
  BY InitGoverned
<1>2. Governed /\ [Next]_vars => Governed'
  BY StepGoverned
<1>3. Governed => AdminStays
  BY DEF Governed
<1>4. QED
  BY <1>1, <1>2, <1>3, PTL DEF Spec
=============================================================================
