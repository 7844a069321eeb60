------------------------- MODULE LlmKeyPool_proofs -------------------------
(***************************************************************************)
(* Safety of LlmKeyPool for any number of threads, keys and cached texts.  *)
(* What administrators decided needs no more than the types: every outcome *)
(* is merged into the record as it is under the lock, never written over   *)
(* it.                                                                     *)
(***************************************************************************)
EXTENDS LlmKeyPool, FiniteSetTheorems, SequenceTheorems, TLAPS

\* A key has the instant of a rest only while it rests.
Coherent == {key \in Key : key.until # "none" => key.status = "cooldown"}

\* A table of well-formed keys with ids below n, no secret twice.
Sound(table, n) ==
  /\ DOMAIN table \subseteq 1..(n - 1)
  /\ \A id \in DOMAIN table : table[id] \in Coherent
  /\ \A i, j \in DOMAIN table : table[i].secret = table[j].secret => i = j

\* A table derived from another without new keys or new secrets.
Derived(table, other) ==
  /\ DOMAIN table \subseteq DOMAIN other
  /\ \A id \in DOMAIN table :
       table[id] \in Coherent /\ table[id].secret = other[id].secret

KeysInv == nextId \in Nat \ {0} /\ Sound(keys, nextId)

-----------------------------------------------------------------------------
(* Keys *)

LEMMA KeyFields ==
  ASSUME NEW key \in Coherent
  PROVE  /\ key.secret \in Secret
         /\ key.enabled \in BOOLEAN
         /\ key.legacy \in BOOLEAN
BY DEF Coherent, Key

LEMMA NewKeyType ==
  ASSUME NEW secret \in Secret, NEW legacy \in BOOLEAN
  PROVE  /\ NewKey(secret, legacy) \in Coherent
         /\ NewKey(secret, legacy).secret = secret
BY DEF NewKey, Coherent, Key

LEMMA SuccessType ==
  ASSUME NEW key \in Coherent
  PROVE  /\ MarkSuccess(key) \in Coherent
         /\ MarkSuccess(key).secret = key.secret
         /\ MarkSuccess(key).enabled = key.enabled
BY DEF MarkSuccess, Coherent, Key

LEMMA FailureType ==
  ASSUME NEW key \in Coherent, NEW outcome
  PROVE  /\ MarkFailure(key, outcome) \in Coherent
         /\ MarkFailure(key, outcome).secret = key.secret
         /\ MarkFailure(key, outcome).enabled = key.enabled
<1> DEFINE status == CASE outcome = "quota"        -> "cooldown"
                       [] outcome = "invalid"      -> "invalid"
                       [] outcome = "incompatible" -> "incompatible"
                       [] OTHER                    -> key.status
<1> DEFINE until == IF outcome = "quota" THEN "ahead" ELSE "none"
<1>1. key.status \in {"unverified", "ready", "cooldown", "invalid",
                      "incompatible", "disabled"}
  BY DEF Coherent, Key
<1>2. status \in {"unverified", "ready", "cooldown", "invalid",
                  "incompatible", "disabled"}
  BY <1>1
<1>3. /\ until \in {"none", "ahead", "passed"}
      /\ until # "none" => status = "cooldown"
  OBVIOUS
<1>4. MarkFailure(key, outcome)
        = [key EXCEPT !.status = status, !.until = until]
  BY DEF MarkFailure
<1> HIDE DEF status, until
<1>5. QED
  BY <1>2, <1>3, <1>4 DEF Coherent, Key

LEMMA DerivedSound ==
  ASSUME NEW n \in Nat, NEW other, NEW table,
         Sound(other, n), Derived(table, other)
  PROVE  Sound(table, n)
BY DEF Sound, Derived

LEMMA WithSound ==
  ASSUME NEW n \in Nat \ {0}, Sound(keys, n), NEW key \in Coherent,
         ~Registered(key.secret)
  PROVE  Sound(With(n, key), n + 1)
<1> DEFINE t == With(n, key)
<1>1. DOMAIN t = DOMAIN keys \cup {n}
  BY DEF With
<1>2. t[n] = key /\ \A i \in DOMAIN keys : t[i] = keys[i]
  BY DEF With, Sound
<1>3. n \notin DOMAIN keys /\ DOMAIN t \subseteq 1..n
  BY <1>1 DEF Sound
<1>4. \A i \in DOMAIN keys : keys[i].secret # key.secret
  BY DEF Registered
<1> HIDE DEF t
<1>5. \A id \in DOMAIN t : t[id] \in Coherent
  BY <1>1, <1>2 DEF Sound
<1>6. \A i, j \in DOMAIN t : t[i].secret = t[j].secret => i = j
  BY <1>1, <1>2, <1>3, <1>4 DEF Sound
<1>7. QED
  BY <1>3, <1>5, <1>6 DEF Sound, t

LEMMA ImportSound ==
  ASSUME KeysInv, EnsureLegacyImport
  PROVE  /\ nextId' \in Nat \ {0}
         /\ nextId <= nextId'
         /\ Sound(AfterImport, nextId')
         /\ \A id \in DOMAIN keys : id \in DOMAIN AfterImport
                                    /\ AfterImport[id] = keys[id]
         /\ DOMAIN AfterImport \subseteq DOMAIN keys \cup {nextId}
<1>1. CASE Imports
  <2> DEFINE secret == CHOOSE secret \in EnvSecret : TRUE
  <2>1. secret \in EnvSecret /\ secret \in Secret /\ ~Registered(secret)
    BY <1>1, PoolAssumption DEF Imports, ImportDue
  <2> HIDE DEF secret
  <2>2. NewKey(secret, TRUE) \in Coherent /\ NewKey(secret, TRUE).secret = secret
    BY <2>1, NewKeyType
  <2>3. AfterImport = With(nextId, NewKey(secret, TRUE))
    BY <1>1 DEF AfterImport, secret
  <2>4. Sound(With(nextId, NewKey(secret, TRUE)), nextId + 1)
    BY <2>1, <2>2, WithSound DEF KeysInv
  <2>5. nextId' = nextId + 1
    BY <1>1 DEF EnsureLegacyImport
  <2>6. \A id \in DOMAIN keys : id # nextId
    BY DEF KeysInv, Sound
  <2>7. nextId \in Nat \ {0}
    BY DEF KeysInv
  <2> DEFINE key == NewKey(secret, TRUE)
  <2> HIDE DEF key
  <2>8. /\ DOMAIN With(nextId, key) = DOMAIN keys \cup {nextId}
        /\ \A id \in DOMAIN keys : With(nextId, key)[id] = keys[id]
    BY <2>6 DEF With
  <2>9. AfterImport = With(nextId, key) /\ Sound(With(nextId, key), nextId + 1)
    BY <2>3, <2>4 DEF key
  <2>10. QED
    BY <2>5, <2>7, <2>8, <2>9
<1>2. CASE ~Imports
  BY <1>2 DEF KeysInv, AfterImport, EnsureLegacyImport
<1>3. QED
  BY <1>1, <1>2

LEMMA RefreshDerived ==
  ASSUME NEW table, \A id \in DOMAIN table : table[id] \in Coherent
  PROVE  /\ Derived(Refreshed(table), table)
         /\ DOMAIN Refreshed(table) = DOMAIN table
         /\ \A id \in DOMAIN table : Refreshed(table)[id].enabled = table[id].enabled
<1> DEFINE new(id) == [table[id] EXCEPT !.status = "ready", !.until = "none"]
<1>1. ASSUME NEW id \in DOMAIN table
      PROVE  new(id) \in Coherent /\ new(id).secret = table[id].secret
             /\ new(id).enabled = table[id].enabled
  <2>1. table[id] \in Coherent
    OBVIOUS
  <2>2. QED
    BY <2>1 DEF Coherent, Key
<1>2. \A id \in DOMAIN table : Refreshed(table)[id] \in {new(id), table[id]}
  BY DEF Refreshed
<1>3. DOMAIN Refreshed(table) = DOMAIN table
  BY DEF Refreshed
<1> HIDE DEF new
<1>4. QED
  BY <1>1, <1>2, <1>3 DEF Derived

LEMMA MarkDerived ==
  ASSUME KeysInv, NEW id, NEW outcome, Mark(id, outcome)
  PROVE  /\ Derived(keys', keys)
         /\ DOMAIN keys' = DOMAIN keys
         /\ \A i \in DOMAIN keys : keys'[i].enabled = keys[i].enabled
<1>1. DOMAIN keys' = DOMAIN keys
  BY DEF Mark
<1>2. \A i \in DOMAIN keys :
        keys'[i] \in {keys[i], MarkSuccess(keys[i]), MarkFailure(keys[i], outcome)}
  BY DEF Mark
<1>3. \A i \in DOMAIN keys : keys[i] \in Coherent
  BY DEF KeysInv, Sound
<1>4. QED
  BY <1>1, <1>2, <1>3, SuccessType, FailureType DEF Derived

-----------------------------------------------------------------------------
(* Every step of the keys *)

LEMMA ImportedTable ==
  ASSUME KeysInv, EnsureLegacyImport, keys' = Refreshed(AfterImport)
  PROVE  /\ KeysInv'
         /\ nextId <= nextId'
         /\ DOMAIN keys' \subseteq DOMAIN keys \cup {nextId}
         /\ \A id \in DOMAIN keys : keys'[id].enabled = keys[id].enabled
<1> DEFINE t == AfterImport
<1>1. /\ nextId' \in Nat \ {0} /\ nextId <= nextId' /\ Sound(t, nextId')
      /\ \A id \in DOMAIN keys : id \in DOMAIN t /\ t[id] = keys[id]
      /\ DOMAIN t \subseteq DOMAIN keys \cup {nextId}
  BY ImportSound
<1> HIDE DEF t
<1>2. \A id \in DOMAIN t : t[id] \in Coherent
  BY <1>1 DEF Sound
<1>3. /\ Derived(Refreshed(t), t)
      /\ DOMAIN Refreshed(t) = DOMAIN t
      /\ \A id \in DOMAIN t : Refreshed(t)[id].enabled = t[id].enabled
  BY <1>2, RefreshDerived
<1>4. keys' = Refreshed(t)
  BY DEF t
<1>5. Sound(keys', nextId')
  BY <1>1, <1>3, <1>4, DerivedSound
<1>6. QED
  BY <1>1, <1>3, <1>4, <1>5 DEF KeysInv

LEMMA MarkedTable ==
  ASSUME KeysInv, NEW id, NEW outcome, Mark(id, outcome), UNCHANGED nextId
  PROVE  /\ KeysInv'
         /\ DOMAIN keys' = DOMAIN keys
         /\ \A i \in DOMAIN keys : keys'[i].enabled = keys[i].enabled
<1>1. /\ Derived(keys', keys)
      /\ DOMAIN keys' = DOMAIN keys
      /\ \A i \in DOMAIN keys : keys'[i].enabled = keys[i].enabled
  BY MarkDerived
<1>2. Sound(keys', nextId)
  BY <1>1, DerivedSound DEF KeysInv
<1>3. QED
  BY <1>1, <1>2 DEF KeysInv

\* What any step does to the keys: none comes back, and a step of a request
\* switches none on or off.
TableStep ==
  /\ KeysInv'
  /\ nextId <= nextId'
  /\ DOMAIN keys' \subseteq DOMAIN keys \cup {nextId}
  /\ worker' # worker =>
       \A id \in DOMAIN keys \cap DOMAIN keys' :
         keys'[id].enabled = keys[id].enabled

LEMMA SameTable ==
  ASSUME KeysInv, UNCHANGED <<keys, nextId>>
  PROVE  TableStep
BY DEF TableStep, KeysInv

LEMMA AdministrationStep ==
  ASSUME KeysInv, Administration
  PROVE  TableStep
<1>1. ASSUME NEW secret \in Secret, Add(secret)
      PROVE  TableStep
  <2> DEFINE key == NewKey(secret, FALSE)
  <2>1. key \in Coherent /\ key.secret = secret
    BY NewKeyType
  <2>2. ~Registered(secret) /\ keys' = With(nextId, key)
        /\ nextId' = nextId + 1 /\ worker' = worker
    BY <1>1 DEF Add
  <2> HIDE DEF key
  <2>3. Sound(With(nextId, key), nextId + 1)
    BY <2>1, <2>2, WithSound DEF KeysInv
  <2>4. DOMAIN With(nextId, key) = DOMAIN keys \cup {nextId}
    BY DEF With
  <2>5. QED
    BY <2>2, <2>3, <2>4 DEF TableStep, KeysInv
<1>2. ASSUME NEW id \in DOMAIN keys, NEW enabled \in BOOLEAN,
             Enable(id, enabled)
      PROVE  TableStep
  <2> DEFINE status == IF enabled THEN "unverified" ELSE "disabled"
  <2> DEFINE key == [keys[id] EXCEPT !.enabled = enabled, !.until = "none",
                                     !.status = status]
  <2>1. keys[id] \in Coherent
    BY DEF KeysInv, Sound
  <2>2. key \in Coherent /\ key.secret = keys[id].secret
    BY <2>1 DEF Coherent, Key
  <2>3. keys' = [keys EXCEPT ![id] = key]
    BY <1>2 DEF Enable
  <2>4. nextId' = nextId /\ worker' = worker
    BY <1>2 DEF Enable
  <2> HIDE DEF key
  <2>5. DOMAIN keys' = DOMAIN keys /\ keys'[id] = key
        /\ \A i \in DOMAIN keys \ {id} : keys'[i] = keys[i]
    BY <2>3
  <2>6. Derived(keys', keys)
    BY <2>2, <2>5 DEF Derived, KeysInv, Sound
  <2>7. Sound(keys', nextId)
    BY <2>6, DerivedSound DEF KeysInv
  <2>8. QED
    BY <2>4, <2>5, <2>7 DEF TableStep, KeysInv
<1>3. ASSUME NEW id \in DOMAIN keys, Delete(id)
      PROVE  TableStep
  <2>1. /\ DOMAIN keys' = DOMAIN keys \ {id}
        /\ \A i \in DOMAIN keys' : keys'[i] = keys[i]
        /\ nextId' = nextId /\ worker' = worker
    BY <1>3 DEF Delete
  <2>2. Derived(keys', keys)
    BY <2>1 DEF Derived, KeysInv, Sound
  <2>3. Sound(keys', nextId)
    BY <2>2, DerivedSound DEF KeysInv
  <2>4. QED
    BY <2>1, <2>3 DEF TableStep, KeysInv
<1>4. CASE Relabel \/ TestUnstored
  BY <1>4, SameTable DEF Relabel, TestUnstored
<1>5. ASSUME ListState
      PROVE  TableStep
  BY <1>5, ImportedTable DEF ListState, TableStep
<1>6. ASSUME NEW id \in DOMAIN keys, NEW outcome, Test(id, outcome)
      PROVE  TableStep
  BY <1>6, MarkedTable DEF Test, TableStep, KeysInv
<1>7. QED
  BY <1>1, <1>2, <1>3, <1>4, <1>5, <1>6 DEF Administration

LEMMA ServeStep ==
  ASSUME KeysInv, NEW w \in Worker, Serve(w)
  PROVE  TableStep
<1>1. CASE TakeKeys(w)
  BY <1>1, ImportedTable DEF TakeKeys, TableStep
<1>2. ASSUME NEW id, Succeeds(w, id)
      PROVE  TableStep
  BY <1>2, MarkedTable DEF Succeeds, TableStep, KeysInv
<1>3. ASSUME NEW id, IsDown(w, id)
      PROVE  TableStep
  BY <1>3, MarkedTable DEF IsDown, TableStep, KeysInv
<1>4. ASSUME NEW id, NEW outcome, Rotates(w, id, outcome)
      PROVE  TableStep
  BY <1>4, MarkedTable DEF Rotates, TableStep, KeysInv
<1>5. CASE TakeCached(w) \/ IsPaused(w) \/ NoKeys(w) \/ Breaks(w)
           \/ GivesUp(w) \/ Remembers(w) \/ Picks(w) \/ PickFails(w)
           \/ MakesRoom(w) \/ Stores(w) \/ Returns(w)
  BY <1>5, SameTable DEF TakeCached, IsPaused, NoKeys, Breaks, GivesUp,
                         Remembers, Picks, PickFails, MakesRoom, Stores, Returns
<1>6. QED
  BY <1>1, <1>2, <1>3, <1>4, <1>5 DEF Serve

LEMMA NextTable ==
  ASSUME KeysInv, [Next]_vars
  PROVE  TableStep
<1>1. CASE Administration
  BY <1>1, AdministrationStep
<1>2. CASE \E w \in Worker : Serve(w)
  BY <1>2, ServeStep
<1>3. ASSUME NEW w, NEW message, Asked(w, message)
      PROVE  TableStep
  BY <1>3, SameTable DEF Asked
<1>4. ASSUME NEW id \in DOMAIN keys, RestPasses(id)
      PROVE  TableStep
  <2> DEFINE key == [keys[id] EXCEPT !.until = "passed"]
  <2>1. keys[id] \in Coherent
    BY DEF KeysInv, Sound
  <2>2. /\ key \in Coherent /\ key.secret = keys[id].secret
        /\ key.enabled = keys[id].enabled
    BY <1>4, <2>1 DEF Coherent, Key, RestPasses
  <2>3. keys' = [keys EXCEPT ![id] = key] /\ nextId' = nextId
    BY <1>4 DEF RestPasses
  <2> HIDE DEF key
  <2>4. DOMAIN keys' = DOMAIN keys /\ keys'[id] = key
        /\ \A i \in DOMAIN keys \ {id} : keys'[i] = keys[i]
    BY <2>3
  <2>5. Derived(keys', keys)
    BY <2>2, <2>4 DEF Derived, KeysInv, Sound
  <2>6. Sound(keys', nextId)
    BY <2>5, DerivedSound DEF KeysInv
  <2>7. QED
    BY <2>2, <2>3, <2>4, <2>6 DEF TableStep, KeysInv
<1>5. CASE PauseEnds \/ Restart
  BY <1>5, SameTable DEF PauseEnds, Restart
<1>6. CASE UNCHANGED vars
  BY <1>6, SameTable DEF vars
<1>7. QED
  BY <1>1, <1>2, <1>3, <1>4, <1>5, <1>6 DEF Next

LEMMA InitTable == Init => KeysInv
BY DEF Init, KeysInv, Sound

LEMMA TableInvariant == Spec => []KeysInv
<1>1. KeysInv /\ [Next]_vars => KeysInv'
  BY NextTable DEF TableStep
<1>2. QED
  BY InitTable, <1>1, PTL DEF Spec

\* No Gemini key is stored twice, for any set of keys and of threads.
THEOREM OneSecret == Spec => []NoSecretTwice
<1>1. KeysInv => NoSecretTwice
  BY DEF KeysInv, Sound, NoSecretTwice
<1>2. QED
  BY <1>1, TableInvariant, PTL

\* An administrator's word stands, for any set of keys and of threads: what
\* was deleted stays deleted, what a request records switches nothing on.
THEOREM LastWord == Spec => AdministratorsDecide
<1> DEFINE A == \A id \in 1..(nextId - 1) :
                  /\ id \notin DOMAIN keys => id \notin DOMAIN keys'
                  /\ id \in DOMAIN keys \cap DOMAIN keys' /\ worker' # worker
                       => keys'[id].enabled = keys[id].enabled
<1>1. KeysInv /\ TableStep => A
  BY DEF KeysInv, TableStep
<1>2. KeysInv /\ [Next]_vars => [A]_vars
  BY <1>1, NextTable
<1>3. QED
  BY <1>2, TableInvariant, PTL DEF Spec, AdministratorsDecide

-----------------------------------------------------------------------------
(* Requests and the cache *)

WorkInv == cache \in Seq(Message) /\ worker \in [Worker -> Request]

Waits == {"cached", "admitted", "empty", "remember", "pick", "store"}

LEMMA RequestFields ==
  ASSUME NEW r \in Request
  PROVE  /\ r.phase \in Waits \cup {"idle", "drop", "trying", "done"}
         /\ r.phase \in Waits \cup {"drop", "trying"} => r.message \in Message
         /\ r.phase = "trying" =>
              r = [phase |-> "trying", message |-> r.message,
                   left |-> r.left, quota |-> r.quota]
              /\ r.left \in SUBSET Nat /\ r.quota \in BOOLEAN
BY DEF Request, Idle, Waits

LEMMA WaitType ==
  ASSUME NEW m \in Message, NEW phase \in Waits
  PROVE  [phase |-> phase, message |-> m] \in Request
BY DEF Request, Waits

LEMMA DropType ==
  ASSUME NEW m \in Message, NEW oldest \in Message
  PROVE  [phase |-> "drop", message |-> m, oldest |-> oldest] \in Request
BY DEF Request

LEMMA TrialType ==
  ASSUME NEW m \in Message, NEW left \in SUBSET Nat, NEW quota \in BOOLEAN
  PROVE  [phase |-> "trying", message |-> m, left |-> left, quota |-> quota]
           \in Request
BY DEF Request

LEMMA DoneType ==
  ASSUME NEW answer \in {"model", "cache", "lost", "rules"}
  PROVE  [phase |-> "done", answer |-> answer] \in Request
BY DEF Request

LEMMA IdleType == Idle \in Request /\ Idle.phase = "idle"
BY DEF Request, Idle

\* One thread gets a new request record.
Becomes(w, r) == r \in Request /\ worker' = [worker EXCEPT ![w] = r]

LEMMA GoesType ==
  ASSUME WorkInv, NEW w \in Worker, NEW phase \in Waits, Goes(w, phase),
         worker[w].phase \in Waits \cup {"drop", "trying"}
  PROVE  \E r : Becomes(w, r) /\ r.phase = phase
<1> DEFINE r == [phase |-> phase, message |-> worker[w].message]
<1>1. worker[w].message \in Message
  BY RequestFields DEF WorkInv
<1>2. r \in Request /\ r.phase = phase
  BY <1>1, WaitType
<1>3. worker' = [worker EXCEPT ![w] = r]
  BY DEF Goes
<1> HIDE DEF r
<1>4. QED
  BY <1>2, <1>3 DEF Becomes

LEMMA EndsType ==
  ASSUME NEW w \in Worker, NEW answer \in {"model", "cache", "lost", "rules"},
         Ends(w, answer)
  PROVE  \E r : Becomes(w, r) /\ r.phase = "done"
<1> DEFINE r == [phase |-> "done", answer |-> answer]
<1>1. r \in Request /\ r.phase = "done"
  BY DoneType
<1>2. worker' = [worker EXCEPT ![w] = r]
  BY DEF Ends
<1> HIDE DEF r
<1>3. QED
  BY <1>1, <1>2 DEF Becomes

\* A step of a thread that leaves the cache.
Elsewhere(w) == cache' = cache /\ \E r : Becomes(w, r)

LEMMA CandidateType ==
  ASSUME KeysInv'
  PROVE  CandidateIds(audit', keys') \subseteq Nat
<1>1. DOMAIN keys' \subseteq Nat
  BY DEF KeysInv, Sound
<1>2. \A id \in CandidateIds(audit', keys') : id \in DOMAIN keys' \cup {LegacyEnv}
  BY DEF CandidateIds
<1>3. QED
  BY <1>1, <1>2 DEF LegacyEnv

LEMMA TriesMoves ==
  ASSUME NEW w \in Worker, NEW left \in SUBSET Nat, NEW quota \in BOOLEAN,
         worker[w].message \in Message, Tries(w, left, quota), cache' = cache
  PROVE  Elsewhere(w)
<1> DEFINE r == [phase |-> "trying", message |-> worker[w].message,
                 left |-> left, quota |-> quota]
<1>1. worker' = [worker EXCEPT ![w] = r]
  BY DEF Tries
<1>2. r \in Request
  BY TrialType
<1> HIDE DEF r
<1>3. QED
  BY <1>1, <1>2 DEF Elsewhere, Becomes

LEMMA TakeKeysMoves ==
  ASSUME KeysInv, WorkInv, NEW w \in Worker, TakeKeys(w)
  PROVE  Elsewhere(w)
<1> DEFINE ids == CandidateIds(audit', keys')
<1>1. KeysInv'
  BY ImportedTable DEF TakeKeys
<1>2. ids \subseteq Nat
  BY <1>1, CandidateType
<1>3. /\ worker[w].phase = "admitted" /\ cache' = cache
      /\ worker[w].message \in Message
  BY RequestFields DEF TakeKeys, In, WorkInv, Waits
<1>4. CASE ids = {}
  <2>1. Goes(w, "empty")
    BY <1>4 DEF TakeKeys
  <2>2. \E r : Becomes(w, r) /\ r.phase = "empty"
    BY <2>1, <1>3, GoesType DEF Waits
  <2>3. QED
    BY <2>2, <1>3 DEF Elsewhere, In
<1>5. CASE ids # {}
  BY <1>2, <1>3, <1>5, TriesMoves DEF TakeKeys, In
<1>6. QED
  BY <1>4, <1>5

LEMMA RotatesMoves ==
  ASSUME WorkInv, NEW w \in Worker, NEW id, NEW outcome, Rotates(w, id, outcome)
  PROVE  Elsewhere(w)
<1> DEFINE left == worker[w].left \ {id}
<1> DEFINE quota == (worker[w].quota \/ outcome = "quota")
<1>1. /\ worker[w] \in Request /\ worker[w].phase = "trying"
      /\ cache' = cache /\ Tries(w, left, quota)
  BY DEF Rotates, Trying, In, WorkInv
<1>2. /\ worker[w].message \in Message
      /\ worker[w].left \in SUBSET Nat /\ worker[w].quota \in BOOLEAN
  BY <1>1, RequestFields
<1>3. left \in SUBSET Nat /\ quota \in BOOLEAN
  BY <1>2
<1> HIDE DEF left, quota
<1>4. QED
  BY <1>1, <1>2, <1>3, TriesMoves DEF In

LEMMA EndsMoves ==
  ASSUME NEW w \in Worker, NEW answer \in {"model", "cache", "lost", "rules"},
         Ends(w, answer), cache' = cache
  PROVE  Elsewhere(w)
BY EndsType DEF Elsewhere

LEMMA PicksMoves ==
  ASSUME WorkInv, NEW w \in Worker, Picks(w)
  PROVE  Elsewhere(w)
<1> DEFINE oldest == Head(cache)
<1>1. /\ cache # <<>> /\ cache \in Seq(Message) /\ cache' = cache
      /\ worker[w].message \in Message
  BY RequestFields DEF Picks, WorkInv, In, Waits
<1>2. oldest \in Message
  BY <1>1
<1> DEFINE r == [phase |-> "drop", message |-> worker[w].message,
                 oldest |-> oldest]
<1>3. worker' = [worker EXCEPT ![w] = r]
  BY DEF Picks
<1> HIDE DEF oldest
<1>4. r \in Request
  BY <1>1, <1>2, DropType
<1> HIDE DEF r
<1>5. QED
  BY <1>1, <1>3, <1>4 DEF Elsewhere, Becomes

\* Serve(w) makes room, stores, or leaves the cache.
LEMMA ServeMoves ==
  ASSUME KeysInv, WorkInv, NEW w \in Worker, Serve(w)
  PROVE  Elsewhere(w) \/ MakesRoom(w) \/ Stores(w)
<1>1. CASE TakeCached(w) \/ IsPaused(w) \/ NoKeys(w) \/ Breaks(w) \/ GivesUp(w)
           \/ PickFails(w)
  BY <1>1, EndsMoves DEF TakeCached, IsPaused, NoKeys, Breaks, GivesUp, PickFails
<1>2. CASE TakeKeys(w)
  BY <1>2, TakeKeysMoves
<1>3. ASSUME NEW id, Succeeds(w, id)
      PROVE  Elsewhere(w)
  <2>1. /\ worker[w].phase = "trying" /\ cache' = cache
        /\ Goes(w, "remember")
    BY <1>3 DEF Succeeds, Trying, In
  <2>2. QED
    BY <2>1, GoesType DEF Waits, Elsewhere
<1>4. ASSUME NEW id, IsDown(w, id)
      PROVE  Elsewhere(w)
  BY <1>4, EndsMoves DEF IsDown
<1>5. ASSUME NEW id, NEW outcome, Rotates(w, id, outcome)
      PROVE  Elsewhere(w)
  BY <1>5, RotatesMoves
<1>6. CASE Returns(w)
  BY <1>6, IdleType DEF Returns, Becomes, Elsewhere
<1>7. CASE Remembers(w)
  <2> DEFINE phase == IF Len(cache) >= CacheSize THEN "pick" ELSE "store"
  <2>1. /\ worker[w].phase = "remember" /\ cache' = cache
        /\ Goes(w, phase)
    BY <1>7 DEF Remembers, In
  <2>2. phase \in Waits
    BY DEF Waits
  <2> HIDE DEF phase
  <2>3. QED
    BY <2>1, <2>2, GoesType DEF Waits, Elsewhere
<1>8. CASE Picks(w)
  BY <1>8, PicksMoves
<1>9. QED
  BY <1>1, <1>2, <1>3, <1>4, <1>5, <1>6, <1>7, <1>8 DEF Serve

LEMMA ElsewhereTyped ==
  ASSUME WorkInv, NEW w \in Worker, Elsewhere(w)
  PROVE  WorkInv'
BY DEF Elsewhere, Becomes, WorkInv

LEMMA MakesRoomTyped ==
  ASSUME WorkInv, NEW w \in Worker, MakesRoom(w)
  PROVE  WorkInv'
<1>1. PICK r : Becomes(w, r)
  <2>1. worker[w].phase = "drop" /\ Goes(w, "store")
    BY DEF MakesRoom, In
  <2>2. QED
    BY <2>1, GoesType DEF Waits
<1>2. ASSUME NEW i \in DOMAIN cache
      PROVE  RemoveAt(cache, i) \in Seq(Message)
  <2>1. /\ cache \in Seq(Message) /\ Len(cache) \in Nat
        /\ i \in 1..Len(cache)
    BY DEF WorkInv
  <2>2. SubSeq(cache, 1, i - 1) \in Seq(Message)
    BY <2>1, SubSeqProperties
  <2>3. SubSeq(cache, i + 1, Len(cache)) \in Seq(Message)
    BY <2>1, SubSeqProperties
  <2>4. QED
    BY <2>2, <2>3, ConcatProperties DEF RemoveAt
<1>3. cache' \in Seq(Message)
  BY <1>2 DEF MakesRoom, WorkInv
<1>4. QED
  BY <1>1, <1>3 DEF Becomes, WorkInv

LEMMA StoresTyped ==
  ASSUME WorkInv, NEW w \in Worker, Stores(w)
  PROVE  WorkInv'
<1>1. PICK r : Becomes(w, r)
  BY EndsType DEF Stores
<1>2. worker[w].message \in Message
  BY RequestFields DEF Stores, WorkInv, In, Waits
<1>3. cache' \in Seq(Message)
  BY <1>2 DEF Stores, WorkInv
<1>4. QED
  BY <1>1, <1>3 DEF Becomes, WorkInv

LEMMA NextWorks ==
  ASSUME KeysInv, WorkInv, [Next]_vars
  PROVE  WorkInv'
<1>1. ASSUME NEW w \in Worker, Serve(w)
      PROVE  WorkInv'
  BY <1>1, ServeMoves, ElsewhereTyped, MakesRoomTyped, StoresTyped
<1>2. ASSUME NEW w \in Worker, NEW message \in Message, Asked(w, message)
      PROVE  WorkInv'
  <2> DEFINE phase == IF Contains(cache, message) THEN "cached" ELSE "admitted"
  <2> DEFINE r == [phase |-> phase, message |-> message]
  <2>1. worker' = [worker EXCEPT ![w] = r] /\ cache' = cache
    BY <1>2 DEF Asked
  <2>2. phase \in Waits
    BY DEF Waits
  <2> HIDE DEF phase
  <2>3. r \in Request
    BY <2>2, WaitType
  <2> HIDE DEF r
  <2>4. QED
    BY <2>1, <2>3, ElsewhereTyped DEF Elsewhere, Becomes
<1>3. ASSUME UNCHANGED <<cache, worker>>
      PROVE  WorkInv'
  BY <1>3 DEF WorkInv
<1>4. CASE Administration
  BY <1>3, <1>4 DEF Administration, Add, Enable, Relabel, Delete, ListState,
                    Test, TestUnstored
<1>5. CASE PauseEnds \/ UNCHANGED vars \/ \E id \in DOMAIN keys : RestPasses(id)
  BY <1>3, <1>5 DEF PauseEnds, RestPasses, vars
<1>6. CASE Restart
  BY <1>6, IdleType DEF Restart, WorkInv
<1>7. QED
  BY <1>1, <1>2, <1>4, <1>5, <1>6 DEF Next

LEMMA WorkInvariant == Spec => [](KeysInv /\ WorkInv)
<1>1. Init => KeysInv /\ WorkInv
  BY InitTable, IdleType DEF Init, WorkInv
<1>2. KeysInv /\ WorkInv /\ [Next]_vars => KeysInv' /\ WorkInv'
  BY NextTable, NextWorks DEF TableStep
<1>3. QED
  BY <1>1, <1>2, PTL DEF Spec

-----------------------------------------------------------------------------
(* What a request takes *)

LEMMA CandidatesUsable ==
  ASSUME KeysInv', NEW id \in CandidateIds(audit', keys') \ {LegacyEnv}
  PROVE  keys'[id].enabled /\ keys'[id].until = "none"
<1>1. id \in DOMAIN keys' /\ Available(keys'[id])
  BY Zenon DEF CandidateIds
<1>2. keys'[id] \in Coherent
  BY <1>1 DEF KeysInv, Sound
<1>3. keys'[id].enabled /\ keys'[id].status # "cooldown"
  BY <1>1 DEF Available
<1>4. QED
  BY <1>2, <1>3 DEF Coherent

LEMMA TakenUsable ==
  ASSUME KeysInv, WorkInv, NEW v \in Worker, TakeKeys(v),
         worker'[v].phase = "trying",
         NEW id \in worker'[v].left \ {LegacyEnv}
  PROVE  keys'[id].enabled /\ keys'[id].until = "none"
<1> DEFINE ids == CandidateIds(audit', keys')
<1>1. KeysInv'
  BY ImportedTable DEF TakeKeys
<1>2. CASE ids = {}
  BY <1>2 DEF TakeKeys, Goes, WorkInv
<1>3. CASE ids # {}
  <2>1. Tries(v, ids, FALSE)
    BY <1>3 DEF TakeKeys
  <2> HIDE DEF ids
  <2>2. worker'[v].left = ids
    BY <2>1 DEF Tries, WorkInv
  <2>3. id \in CandidateIds(audit', keys') \ {LegacyEnv}
    BY <2>2 DEF ids
  <2>4. QED
    BY <1>1, <2>3, CandidatesUsable
<1>4. QED
  BY <1>2, <1>3

\* The step by which an admitted thread begins to try is the one that takes
\* the keys.
LEMMA TakesThen ==
  ASSUME KeysInv, WorkInv, [Next]_vars, NEW v \in Worker, In(v, "admitted"),
         worker'[v].phase = "trying"
  PROVE  TakeKeys(v)
<1>1. worker[v].phase = "admitted"
  BY DEF In
<1>2. ASSUME NEW w \in Worker, Serve(w), w # v
      PROVE  FALSE
  <2>1. ASSUME NEW r, Becomes(w, r)
        PROVE  FALSE
    BY <1>1, <1>2, <2>1 DEF Becomes, WorkInv
  <2>2. CASE Elsewhere(w)
    BY <2>1, <2>2 DEF Elsewhere
  <2>3. CASE MakesRoom(w)
    <3>1. worker[w].phase = "drop" /\ Goes(w, "store")
      BY <2>3 DEF MakesRoom, In
    <3>2. QED
      BY <2>1, <3>1, GoesType DEF Waits
  <2>4. CASE Stores(w)
    BY <2>1, <2>4, EndsType DEF Stores
  <2>5. QED
    BY <1>2, <2>2, <2>3, <2>4, ServeMoves
<1>3. CASE Serve(v)
  <2>1. CASE IsPaused(v)
    BY <2>1 DEF IsPaused, Ends, WorkInv
  <2>2. ~In(v, "trying") /\ ~In(v, "cached") /\ ~In(v, "empty")
        /\ ~In(v, "remember") /\ ~In(v, "pick") /\ ~In(v, "drop")
        /\ ~In(v, "store") /\ ~In(v, "done")
    BY <1>1 DEF In
  <2>3. IsPaused(v) \/ TakeKeys(v)
    BY <1>3, <2>2 DEF Serve, TakeCached, NoKeys, Trying, Succeeds, IsDown,
                      Rotates, Breaks, GivesUp, Remembers, Picks, PickFails,
                      MakesRoom, Stores, Returns
  <2>4. QED
    BY <2>1, <2>3
<1>4. ASSUME NEW w \in Worker, NEW message, Asked(w, message)
      PROVE  FALSE
  <2> DEFINE phase == IF Contains(cache, message) THEN "cached" ELSE "admitted"
  <2>1. worker' = [worker EXCEPT ![w] = [message |-> message, phase |-> phase]]
    BY <1>4 DEF Asked
  <2>2. phase # "trying"
    OBVIOUS
  <2> HIDE DEF phase
  <2>3. QED
    BY <1>1, <2>1, <2>2 DEF WorkInv
<1>5. CASE Administration
  BY <1>1, <1>5
  DEF Administration, Add, Enable, Relabel, Delete, ListState, Test,
      TestUnstored
<1>6. CASE PauseEnds \/ UNCHANGED vars \/ \E id \in DOMAIN keys : RestPasses(id)
  BY <1>1, <1>6 DEF PauseEnds, RestPasses, vars
<1>7. CASE Restart
  BY <1>7, IdleType DEF Restart
<1>8. QED
  BY <1>2, <1>3, <1>4, <1>5, <1>6, <1>7 DEF Next

\* No request takes a key that is switched off or at rest, whatever other
\* requests and tests recorded of it meanwhile.
THEOREM UsableTaken == Spec => UsableKeysTaken
<1> DEFINE A == \A w \in Worker :
                  In(w, "admitted") /\ worker'[w].phase = "trying" =>
                    \A id \in worker'[w].left \ {LegacyEnv} :
                      keys'[id].enabled /\ keys'[id].until = "none"
<1>1. KeysInv /\ WorkInv /\ [Next]_vars => [A]_vars
  BY TakesThen, TakenUsable
<1>2. QED
  BY <1>1, WorkInvariant, PTL DEF Spec, UsableKeysTaken

-----------------------------------------------------------------------------
(* Types *)

LEMMA LoggedType ==
  ASSUME audit \in Seq({"imported", "other"}), Len(audit) <= AuditLimit,
         NEW action \in {"imported", "other"}
  PROVE  /\ Logged(action) \in Seq({"imported", "other"})
         /\ Len(Logged(action)) <= AuditLimit
<1> DEFINE log == Append(audit, action)
<1>1. /\ log \in Seq({"imported", "other"}) /\ log # <<>>
      /\ Len(log) = Len(audit) + 1 /\ Len(audit) \in Nat
  OBVIOUS
<1>2. Tail(log) \in Seq({"imported", "other"}) /\ Len(Tail(log)) = Len(log) - 1
  BY <1>1
<1> HIDE DEF log
<1>3. Logged(action) = IF Len(log) > AuditLimit THEN Tail(log) ELSE log
  BY DEF Logged, log
<1>4. QED
  BY <1>1, <1>2, <1>3, PoolAssumption

Audited ==
  /\ audit \in Seq({"imported", "other"}) /\ Len(audit) <= AuditLimit
  /\ paused \in BOOLEAN

LEMMA NextAudited ==
  ASSUME Audited, [Next]_vars
  PROVE  Audited'
<1>1. /\ audit' \in {audit, Logged("imported"), Logged("other")}
      /\ paused' \in {paused, TRUE, FALSE, paused \/ TRUE}
  <2>1. CASE Administration
    BY <2>1 DEF Administration, Add, Enable, Relabel, Delete, ListState, Test,
                TestUnstored, EnsureLegacyImport
  <2>2. ASSUME NEW w \in Worker, Serve(w)
        PROVE  /\ audit' \in {audit, Logged("imported"), Logged("other")}
               /\ paused' \in {paused, TRUE, FALSE, paused \/ TRUE}
    <3>1. CASE TakeKeys(w)
      BY <3>1 DEF TakeKeys, EnsureLegacyImport
    <3>2. CASE GivesUp(w)
      BY <3>2 DEF GivesUp, Audited
    <3>3. CASE \E id : Succeeds(w, id) \/ IsDown(w, id)
                       \/ \E outcome : Rotates(w, id, outcome)
      BY <3>3 DEF Succeeds, IsDown, Rotates
    <3>4. CASE TakeCached(w) \/ IsPaused(w) \/ NoKeys(w) \/ Breaks(w)
               \/ Remembers(w) \/ Picks(w) \/ PickFails(w)
               \/ MakesRoom(w) \/ Stores(w) \/ Returns(w)
      BY <3>4 DEF TakeCached, IsPaused, NoKeys, Breaks, Remembers, Picks,
                  PickFails, MakesRoom, Stores, Returns
    <3>5. QED
      BY <2>2, <3>1, <3>2, <3>3, <3>4 DEF Serve
  <2>3. CASE UNCHANGED vars \/ PauseEnds \/ Restart
             \/ \E id \in DOMAIN keys : RestPasses(id)
    BY <2>3 DEF vars, PauseEnds, Restart, RestPasses
  <2>4. ASSUME NEW w, NEW message, Asked(w, message)
        PROVE  audit' = audit /\ paused' = paused
    BY <2>4 DEF Asked
  <2>5. QED
    BY <2>1, <2>2, <2>3, <2>4 DEF Next
<1>2. QED
  BY <1>1, LoggedType DEF Audited

\* Every state of the pool is well-formed.
THEOREM Typed == Spec => []TypeOK
<1>1. Init => Audited
  <2>1. /\ <<>> \in Seq({"imported", "other"}) /\ Len(<<>>) = 0
        /\ AuditLimit \in Nat \ {0}
    BY PoolAssumption
  <2>2. SUFFICES ASSUME Init PROVE Audited
    OBVIOUS
  <2>3. audit = <<>> /\ paused = FALSE
    BY <2>2 DEF Init
  <2>4. Len(audit) <= AuditLimit /\ audit \in Seq({"imported", "other"})
    BY <2>1, <2>3
  <2>5. paused \in BOOLEAN
    BY <2>3
  <2>6. QED
    BY <2>4, <2>5 DEF Audited
<1>2. Audited /\ [Next]_vars => Audited'
  BY NextAudited
<1>3. KeysInv /\ WorkInv /\ Audited => TypeOK
  BY DEF KeysInv, Sound, Coherent, WorkInv, Audited, TypeOK
<1>4. QED
  BY <1>1, <1>2, <1>3, WorkInvariant, PTL DEF Spec
=============================================================================
