----------------------------- MODULE LlmKeyPool -----------------------------
(***************************************************************************)
(* The pool of Gemini keys and the extraction requests that use it.  Each  *)
(* method of the key service holds the service's lock, but a request holds *)
(* no lock between them: it takes its list of keys, calls Gemini with one  *)
(* after the other and records what happened to each, while other requests *)
(* and administrators change the same keys.  The cache of answers and the  *)
(* provider's pause are plain attributes that the threads of the backend   *)
(* share.  Which instant a rest ends is left open: it passes some time     *)
(* after it is set.                                                        *)
(***************************************************************************)
EXTENDS Integers, FiniteSets, Sequences, SequencesExt

CONSTANTS Worker,        \* threads that serve extraction requests
          Message,       \* texts whose availability is asked
          Secret,        \* Gemini keys an administrator may register
          EnvSecret,     \* the key in GEMINI_API_KEY: {} or {s}
          Managed,       \* is LLM_KEYS_MASTER_KEY valid?
          FallbackModel, \* is there a second model (GEMINI_MODEL_FALLBACK)?
          CacheSize,     \* LLM_CACHE_MAX_ITEMS
          AuditLimit,    \* audit entries the service looks at (500)
          MaxKeys        \* bound: keys created before Add and Delete stop

ASSUME PoolAssumption ==
  /\ IsFiniteSet(Worker)
  /\ EnvSecret \subseteq Secret /\ Cardinality(EnvSecret) <= 1
  /\ Managed \in BOOLEAN /\ FallbackModel \in BOOLEAN
  /\ CacheSize \in Nat \ {0} /\ AuditLimit \in Nat \ {0} /\ MaxKeys \in Nat

VARIABLES keys,     \* the stored keys, by id; ids follow the order of creation
          nextId,   \* the id the next key gets
          audit,    \* the latest audit entries, oldest first
          cache,    \* texts whose answer is remembered, oldest first
          paused,   \* is Gemini paused for every request?
          worker    \* worker[w]: the request thread w serves
vars == <<keys, nextId, audit, cache, paused, worker>>

\* The id of the environment's key while it is not stored.
LegacyEnv == 0

Key == [secret : Secret, enabled : BOOLEAN, legacy : BOOLEAN,
        status : {"unverified", "ready", "cooldown", "invalid",
                  "incompatible", "disabled"},
        until : {"none", "ahead", "passed"}]

Idle == [phase |-> "idle"]

Request ==
  {Idle}
  \cup [phase : {"cached", "admitted", "empty", "remember", "pick", "store"},
        message : Message]
  \cup [phase : {"drop"}, message : Message, oldest : Message]
  \cup [phase : {"trying"}, message : Message, left : SUBSET Nat,
        quota : BOOLEAN]
  \cup [phase : {"done"},
        answer : {"model", "cache", "lost", "rules"}]

TypeOK ==
  /\ nextId \in Nat \ {0}
  /\ DOMAIN keys \subseteq 1..(nextId - 1)
  /\ \A id \in DOMAIN keys : keys[id] \in Key
  /\ audit \in Seq({"imported", "other"}) /\ Len(audit) <= AuditLimit
  /\ cache \in Seq(Message)
  /\ paused \in BOOLEAN
  /\ worker \in [Worker -> Request]

-----------------------------------------------------------------------------
(* The stored keys *)

NewKey(secret, legacy) ==
  [secret |-> secret, enabled |-> TRUE, legacy |-> legacy,
   status |-> "unverified", until |-> "none"]

Registered(secret) == \E id \in DOMAIN keys : keys[id].secret = secret

\* The table with one more key, or with one key replaced.
With(id, key) ==
  [i \in DOMAIN keys \cup {id} |-> IF i = id THEN key ELSE keys[i]]

\* Mutant: the audit is never cut.
LoggedForever(action) == Append(audit, action)

Logged(action) ==
  LET log == Append(audit, action)
  IN  IF Len(log) > AuditLimit THEN Tail(log) ELSE log

WasImported == Contains(audit, "imported")
ImportDue == EnvSecret # {} /\ Managed /\ ~WasImported

\* Mutant: the environment's key is stored even if an administrator added it.
ImportsAgain == ImportDue

\* The environment's key is stored when the service is first asked.
Imports == ImportDue /\ \A secret \in EnvSecret : ~Registered(secret)

AfterImport ==
  IF Imports
  THEN With(nextId, NewKey(CHOOSE secret \in EnvSecret : TRUE, TRUE))
  ELSE keys

EnsureLegacyImport ==
  /\ nextId' = IF Imports THEN nextId + 1 ELSE nextId
  /\ audit' = IF ImportDue THEN Logged("imported") ELSE audit

\* While it is not stored it is offered as it is, and nothing is recorded
\* of its calls.
VirtualLegacy(log, table) ==
  /\ EnvSecret # {}
  /\ Managed => ~Contains(log, "imported")
  /\ \A id \in DOMAIN table : ~table[id].legacy

Refreshed(table) ==
  [id \in DOMAIN table |->
     IF table[id].status = "cooldown" /\ table[id].until = "passed"
     THEN [table[id] EXCEPT !.status = "ready", !.until = "none"]
     ELSE table[id]]

\* Mutant: a key that is ready is taken though it is switched off.
AvailableUnlessResting(key) ==
  \/ key.status \in {"ready", "unverified"}
  \/ key.status = "incompatible" /\ FallbackModel

Available(key) ==
  /\ key.enabled
  /\ \/ key.status \in {"ready", "unverified"}
     \/ key.status = "incompatible" /\ FallbackModel

CandidateIds(log, table) ==
  {id \in DOMAIN table : Available(table[id])}
  \cup (IF VirtualLegacy(log, table) THEN {LegacyEnv} ELSE {})

\* Mutant: a key that answered is switched on.
MarkSuccessEnabling(key) ==
  [key EXCEPT !.status = "ready", !.until = "none", !.enabled = TRUE]

\* What the outcome of a call leaves in a key, if the key still exists.
MarkSuccess(key) == [key EXCEPT !.status = "ready", !.until = "none"]

MarkFailure(key, outcome) ==
  [key EXCEPT
     !.status = CASE outcome = "quota"        -> "cooldown"
                  [] outcome = "invalid"      -> "invalid"
                  [] outcome = "incompatible" -> "incompatible"
                  [] OTHER                    -> @,
     !.until = IF outcome = "quota" THEN "ahead" ELSE "none"]

Mark(id, outcome) ==
  keys' = [i \in DOMAIN keys |->
             IF i # id THEN keys[i]
             ELSE IF outcome = "ok" THEN MarkSuccess(keys[i])
                                    ELSE MarkFailure(keys[i], outcome)]

-----------------------------------------------------------------------------
(* Administrators *)

Add(secret) ==
  /\ Managed /\ nextId <= MaxKeys
  /\ ~Registered(secret)
  /\ keys' = With(nextId, NewKey(secret, FALSE))
  /\ nextId' = nextId + 1
  /\ audit' = Logged("other")
  /\ UNCHANGED <<cache, paused, worker>>

Enable(id, enabled) ==
  /\ Managed
  /\ keys' = [keys EXCEPT ![id].enabled = enabled, ![id].until = "none",
                          ![id].status = IF enabled THEN "unverified"
                                                    ELSE "disabled"]
  /\ audit' = Logged("other")
  /\ UNCHANGED <<nextId, cache, paused, worker>>

\* Names and priorities decide nothing below.
Relabel ==
  /\ Managed /\ DOMAIN keys # {}
  /\ audit' = Logged("other")
  /\ UNCHANGED <<keys, nextId, cache, paused, worker>>

Delete(id) ==
  /\ Managed /\ nextId <= MaxKeys
  /\ keys' = [i \in DOMAIN keys \ {id} |-> keys[i]]
  /\ audit' = Logged("other")
  /\ UNCHANGED <<nextId, cache, paused, worker>>

\* The panel's list also imports the environment's key and ends rests.
ListState ==
  /\ keys' = Refreshed(AfterImport)
  /\ EnsureLegacyImport
  /\ UNCHANGED <<cache, paused, worker>>

\* A test takes any key, one that rests or is switched off as well, and
\* records the outcome when Gemini has answered.
Test(id, outcome) ==
  /\ Mark(id, outcome)
  /\ audit' = Logged("other")
  /\ UNCHANGED <<nextId, cache, paused, worker>>

\* Nothing is recorded of the environment's key while it is not stored, nor of
\* a key that was deleted during its test.
Known == (IF EnvSecret = {} THEN 1 ELSE LegacyEnv)..(nextId - 1)

TestUnstored ==
  /\ ~(Known \subseteq DOMAIN keys)
  /\ audit' = Logged("other")
  /\ UNCHANGED <<keys, nextId, cache, paused, worker>>

-----------------------------------------------------------------------------
(* Extraction requests *)

\* What one call of Gemini answers: usable JSON, text that is not JSON, or an
\* error: 429, a rejected key, 404, 503, another status, no HTTP answer.
Answer == {"ok", "garbled", "quota", "invalid", "incompatible", "down",
           "error", "crash"}

\* 404 of the first model makes the second one be asked, if there is one.
Reply(first, second) ==
  IF first = "incompatible" /\ FallbackModel THEN second ELSE first

\* An answer that is not JSON is asked for once more, then given up.
Repaired(first, second) ==
  IF first # "garbled" THEN first
  ELSE IF second = "garbled" THEN "crash" ELSE second

\* A key whose secret cannot be deciphered counts as a rejected one.
Outcome ==
  {Repaired(Reply(a, b), Reply(c, d)) : a, b, c, d \in Answer} \cup {"invalid"}

\* The validation call answers JSON or an error; it is not repeated, and any
\* other error leaves in the key what a 503 leaves.
TestOutcome ==
  {Reply(a, b) : a, b \in Answer \ {"garbled", "error", "crash"}} \cup {"invalid"}

In(w, phase) == worker[w].phase = phase

Goes(w, phase) ==
  worker' = [worker EXCEPT
               ![w] = [phase |-> phase, message |-> worker[w].message]]

\* The keys that are left, and whether one reached its limit.
Tries(w, left, quota) ==
  worker' = [worker EXCEPT
               ![w] = [phase |-> "trying", message |-> worker[w].message,
                       left |-> left, quota |-> quota]]

\* "rules" is the answer without Gemini: with LLM_FALLBACK_ENABLED the rules
\* interpret the text, else an error is returned; neither is remembered.
Ends(w, answer) ==
  worker' = [worker EXCEPT ![w] = [phase |-> "done", answer |-> answer]]

Asked(w, message) ==
  /\ In(w, "idle")
  /\ worker' = [worker EXCEPT
                  ![w] = [message |-> message,
                          phase |-> IF Contains(cache, message)
                                    THEN "cached" ELSE "admitted"]]
  /\ UNCHANGED <<keys, nextId, audit, cache, paused>>

\* The answer that was in the cache may have been dropped meanwhile.
TakeCached(w) ==
  /\ In(w, "cached")
  /\ Ends(w, IF Contains(cache, worker[w].message) THEN "cache" ELSE "lost")
  /\ UNCHANGED <<keys, nextId, audit, cache, paused>>

IsPaused(w) ==
  /\ In(w, "admitted") /\ paused
  /\ Ends(w, "rules")
  /\ UNCHANGED <<keys, nextId, audit, cache, paused>>

\* candidate_records imports, ends rests and lists the keys under the lock.
TakeKeys(w) ==
  /\ In(w, "admitted") /\ ~paused
  /\ EnsureLegacyImport
  /\ keys' = Refreshed(AfterImport)
  /\ LET ids == CandidateIds(audit', keys')
     IN  IF ids = {} THEN Goes(w, "empty")
         ELSE Tries(w, ids, FALSE)
  /\ UNCHANGED <<cache, paused>>

\* Every key is at rest (429) or of no use (503, which pauses nothing).
NoKeys(w) ==
  /\ In(w, "empty")
  /\ Ends(w, "rules")
  /\ UNCHANGED <<keys, nextId, audit, cache, paused>>

\* The keys are tried by priority; which one comes first is left open.
Trying(w, id) == In(w, "trying") /\ id \in worker[w].left

Succeeds(w, id) ==
  /\ Trying(w, id)
  /\ Mark(id, "ok")
  /\ Goes(w, "remember")
  /\ UNCHANGED <<nextId, audit, cache, paused>>

\* The key is at fault: the next one is tried.
Rotates(w, id, outcome) ==
  /\ Trying(w, id)
  /\ outcome \in {"quota", "invalid", "incompatible"}
  /\ Mark(id, outcome)
  /\ Tries(w, worker[w].left \ {id}, worker[w].quota \/ outcome = "quota")
  /\ UNCHANGED <<nextId, audit, cache, paused>>

\* 503 pauses Gemini for everybody; the other keys are not tried.
IsDown(w, id) ==
  /\ Trying(w, id)
  /\ Mark(id, "down")
  /\ paused' = TRUE
  /\ Ends(w, "rules")
  /\ UNCHANGED <<nextId, audit, cache>>

\* Other errors end the request and leave no trace in the key.
Breaks(w) ==
  /\ In(w, "trying") /\ worker[w].left # {}
  /\ Ends(w, "rules")
  /\ UNCHANGED <<keys, nextId, audit, cache, paused>>

\* No key was of use: 429 if one reached its limit, else 503, which pauses.
GivesUp(w) ==
  /\ In(w, "trying") /\ worker[w].left = {}
  /\ Ends(w, "rules")
  /\ paused' = (paused \/ ~worker[w].quota)
  /\ UNCHANGED <<keys, nextId, audit, cache>>

\* _remember: a full cache loses its oldest answer, then the new one is
\* stored.  Nothing is locked between the look at the length, the look for the
\* oldest answer and the pop.
Remembers(w) ==
  /\ In(w, "remember")
  /\ Goes(w, IF Len(cache) >= CacheSize THEN "pick" ELSE "store")
  /\ UNCHANGED <<keys, nextId, audit, cache, paused>>

Picks(w) ==
  /\ In(w, "pick") /\ cache # <<>>
  /\ worker' = [worker EXCEPT
                  ![w] = [phase |-> "drop", message |-> worker[w].message,
                          oldest |-> Head(cache)]]
  /\ UNCHANGED <<keys, nextId, audit, cache, paused>>

\* next(iter()) raises if others left nothing, or change the size of the cache
\* between the two calls: the answer of the model is given up.
PickFails(w) ==
  /\ In(w, "pick")
  /\ cache = <<>> \/ \E v \in Worker \ {w} : In(v, "drop") \/ In(v, "store")
  /\ Ends(w, "rules")
  /\ UNCHANGED <<keys, nextId, audit, cache, paused>>

\* Another thread may have dropped the same answer meanwhile.
MakesRoom(w) ==
  /\ In(w, "drop")
  /\ \/ /\ ~Contains(cache, worker[w].oldest) /\ cache' = cache
     \/ \E i \in DOMAIN cache : /\ cache[i] = worker[w].oldest
                               /\ cache' = RemoveAt(cache, i)
  /\ Goes(w, "store")
  /\ UNCHANGED <<keys, nextId, audit, paused>>

Stores(w) ==
  /\ In(w, "store")
  /\ cache' = IF Contains(cache, worker[w].message) THEN cache
              ELSE Append(cache, worker[w].message)
  /\ Ends(w, "model")
  /\ UNCHANGED <<keys, nextId, audit, paused>>

Returns(w) ==
  /\ In(w, "done")
  /\ worker' = [worker EXCEPT ![w] = Idle]
  /\ UNCHANGED <<keys, nextId, audit, cache, paused>>

-----------------------------------------------------------------------------
(* Time and restarts *)

RestPasses(id) ==
  /\ keys[id].until = "ahead"
  /\ keys' = [keys EXCEPT ![id].until = "passed"]
  /\ UNCHANGED <<nextId, audit, cache, paused, worker>>

PauseEnds ==
  /\ paused
  /\ paused' = FALSE
  /\ UNCHANGED <<keys, nextId, audit, cache, worker>>

\* The keys are stored; the cache and the pause are not.
Restart ==
  /\ cache' = <<>> /\ paused' = FALSE
  /\ worker' = [w \in Worker |-> Idle]
  /\ UNCHANGED <<keys, nextId, audit>>

-----------------------------------------------------------------------------

Init ==
  /\ keys = <<>> /\ nextId = 1 /\ audit = <<>>
  /\ cache = <<>> /\ paused = FALSE
  /\ worker = [w \in Worker |-> Idle]

Administration ==
  \/ \E secret \in Secret : Add(secret)
  \/ \E id \in DOMAIN keys :
       \/ \E enabled \in BOOLEAN : Enable(id, enabled)
       \/ Delete(id)
  \/ Relabel \/ ListState
  \/ \E id \in DOMAIN keys, outcome \in TestOutcome : Test(id, outcome)
  \/ TestUnstored

Serve(w) ==
  \/ TakeCached(w) \/ IsPaused(w) \/ TakeKeys(w) \/ NoKeys(w)
  \/ \E id \in IF In(w, "trying") THEN worker[w].left ELSE {} :
       \/ Succeeds(w, id) \/ IsDown(w, id)
       \/ \E outcome \in Outcome : Rotates(w, id, outcome)
  \/ Breaks(w) \/ GivesUp(w)
  \/ Remembers(w) \/ Picks(w) \/ PickFails(w)
  \/ MakesRoom(w) \/ Stores(w) \/ Returns(w)

Next ==
  \/ Administration
  \/ \E w \in Worker : Serve(w)
  \/ \E w \in Worker, message \in Message : Asked(w, message)
  \/ \E id \in DOMAIN keys : RestPasses(id)
  \/ PauseEnds \/ Restart

Spec == Init /\ [][Next]_vars

-----------------------------------------------------------------------------
(* Properties *)

\* No Gemini key is stored twice, whatever the order in which it comes from
\* the environment and from the panel, is deleted and comes again (add and
\* _ensure_legacy_import compare fingerprints).
NoSecretTwice ==
  \A i, j \in DOMAIN keys : keys[i].secret = keys[j].secret => i = j

\* No request takes a key that is switched off or still at rest: the late
\* outcome of another request or of a test may make a key "ready" again, but
\* it neither switches it on nor leaves a rest behind (mark_success,
\* _mark_failure, _is_available).
UsableKeysTaken ==
  [][\A w \in Worker : In(w, "admitted") /\ worker'[w].phase = "trying" =>
       \A id \in worker'[w].left \ {LegacyEnv} :
         keys'[id].enabled /\ keys'[id].until = "none"]_vars

\* What an administrator decided stands: no outcome recorded later switches a
\* key on, or brings back one that was deleted.  Only the import of the
\* environment's key and the panel add keys, and with a new id.
AdministratorsDecide ==
  [][\A id \in 1..(nextId - 1) :
       /\ id \notin DOMAIN keys => id \notin DOMAIN keys'
       /\ id \in DOMAIN keys \cap DOMAIN keys' /\ worker' # worker
            => keys'[id].enabled = keys[id].enabled]_vars

\* Refuted: a key that rests after a 429 has an instant at which its rest
\* ends.  A late 503 of the same key erases the instant and not the rest, and
\* no request ever takes the key again (mark_transient_error).
RestHasEnd ==
  \A id \in DOMAIN keys : keys[id].status = "cooldown"
                            => keys[id].until # "none"

\* Refuted: a request that found its text in the cache gets the answer from
\* there.  Another thread may drop it in between (extract_availability).
CachedIsServed ==
  \A w \in Worker : In(w, "done") => worker[w].answer # "lost"

\* Refuted: the cache outgrows its limit by fewer answers than there are
\* threads.  Several threads may pick the same oldest answer, of which only one
\* makes room, and they do so again and again (_remember).
CacheBounded == Len(cache) <= CacheSize + Cardinality(Worker) - 1

\* Refuted: once imported and deleted, the environment's key stays away.  It
\* comes back when the audit no longer shows the import, 500 entries later
\* (_ensure_legacy_import).
ImportedOnce ==
  \A secret \in EnvSecret :
    [](WasImported /\ ~Registered(secret)
         => []\A id \in DOMAIN keys : ~keys[id].legacy)
=============================================================================
