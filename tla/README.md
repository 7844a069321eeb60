# Formal models of CoordAgent

TLA+ specifications, TLC model checks and TLAPS proofs for CoordAgent, the
assistant that reads availabilities in a WhatsApp or Slack group, proposes
meeting times and records the group's decision.  The specifications are
translated from the code under `src/coordinador-simple-mvp` (`S/` below);
`PROJECT.json` links every definition to its lines.

## The system

| part | state it keeps | operations |
|---|---|---|
| Decision engine, `S/backend/app/services/decision_engine.py` | none | matrix of hours, coverage, up to three options, what is missing |
| Coordination session, `services/session_service.py` | one document per group: participants, options, proposal revision, decision and its copies, audit of decisions, messages | some 25 handlers, each get - change - save |
| Channel message route, `bff/routes.py` | receipts of commands and replies inside the session | classify, extract, merge, calculate, execute, reply |
| Gateway, `S/gateway/src` | queue and dead letters on disk; recent ids, socket, timers, drain flag in memory | receive, drain, deliver, link, reconnect |
| Groups and owners, `session_service.py:78-312` | owner, access list, link code and group id of a session; one lock per session and one per group; the gateway's own file of sessions | create, link, resolve, transfer, assign, archive |
| Session storage, `storage/*_repository.py` | the JSON file or PostgreSQL table | get, list, save of whole documents |
| LLM key pool, `services/llm_key_service.py` | keys with priority, rest, status, counters; their audit | import from the environment, add, update, delete, test, candidates, mark outcome |
| LLM extraction, `services/llm_service.py` | cache of answers, pause of the provider, both shared by threads without a lock | call with failover, normalise, correct, bind to people |
| Schedule compiler, habitual time, temporal grounding | none | entries and phrases to slots |
| Accounts, `services/auth_service.py`, `security.py`, `main.py` | users, panel tokens, rate-limit windows | create, update, deactivate, login |
| Google Calendar, `services/google_calendar_service.py`, dates of `calendar_export.py` | the organisation's credential, pending authorisation links | connect, create event, disconnect; date of an option |
| Slack, `bff/slack_routes.py` | none of its own | events and buttons into the session handlers |
| Frontend, exports, images, ops scripts | views and files | read and format |

How they interact.  WhatsApp notifies the gateway; the gateway writes the
message to its queue and posts it to the route; the route works on the session
under `session_lock` and calls the model through the key pool; its reply comes
back on the same request and the gateway sends it.  The panel and Slack call
the same session handlers under the same lock.  Links and resolutions of one
group exclude each other by `group_lock`, taken before the session's.  Plain
reads (`GET /sessions/{id}`, the access check of `main.py`) take no lock, and
`get()` saves what it normalised.

What is hard: the decision is spread over several fields that a dozen handlers
touch; reads change the session (identities are merged, labels refreshed);
clients confirm proposals they saw earlier; the route saves several times per
message, so a crash leaves half a request for a retry with the same id; the
gateway's loop spans reconnections of the socket it was started with; requests
look up accounts, groups and codes before they take the lock under which they
write, and a read may write back a copy that is no longer current; an extraction
takes a copy of its keys and records what happened to each while others use,
test, rest or delete them; rules written one after the other correct the same
answer of the model and undo each other's work; a calendar event is asked for
after the decision it belongs to was saved, and remembered by a later save.

What makes each part correct is stated as the properties below.

## Modules

| module | what it is | extends |
|---|---|---|
| `DecisionEngine` | the engine as pure operators over people and hours | |
| `EngineCases` | the engine run on every small input, and the reference notions it is compared with | `DecisionEngine` |
| `SessionHandlers` | each handler as an operator from the stored session to the saved one | `DecisionEngine` |
| `CoordinationSession` | one action per request, clients that look and confirm later, the properties | `SessionHandlers` |
| `SessionCases` | TLC instances | `CoordinationSession` |
| `Conversation` | what the backend promises a group: messages attended one after the other, each effect and answer once | |
| `ChannelPipeline` | the message route save by save, crashes, failing model, lost answers, the gateway's retries, the panel; implements `Conversation` | `SessionHandlers` |
| `PipelineCases` | TLC instances | `ChannelPipeline` |
| `Delivery` | what the gateway promises: every group served in order, everything sent once, nothing lost silently | |
| `GatewayQueue` | the gateway: receive, queue, drain loop, delivery, linking, reconnection, restart; implements `Delivery` | |
| `GatewayCases` | TLC instances | `GatewayQueue` |
| `GroupAccess` | threads of the backend that serve accounts, owners, links and reads; the gateway's memory of groups | |
| `AccessCases` | TLC instances | `GroupAccess` |
| `LlmKeyPool` | the Gemini keys, the requests that use them, the cache and the pause they share | |
| `KeyPoolCases` | TLC instances | `LlmKeyPool` |
| `CalendarEvents` | dates of decisions, the Google account and the events created for decisions | |
| `CalendarCases` | TLC instances | `CalendarEvents` |
| `Interpretation` | from what a message says and the model answers to the hours of its people | |
| `MeaningCases` | the messages TLC tries | `Interpretation` |
| `SessionHandlers_proofs` | theorems about the engine, and the lemmas about it and about each handler, which the next two use | `SessionHandlers`, `EngineCases` |
| `CoordinationSession_proofs`, `ChannelPipeline_proofs` | theorems | the module they are about, `SessionHandlers_proofs` |
| `GatewayQueue_proofs`, `GroupAccess_proofs`, `LlmKeyPool_proofs`, `CalendarEvents_proofs`, `Interpretation_proofs` | theorems | the module they are about |

### Decision engine

A person is a model value with a visible name (`NameOf`); the code keys its
matrix by name, and so does the model.  Hours are numbers cut into days: weeks,
weekdays and minutes only matter to the engine as an order and a grouping by
day.  Slots arrive as sets of whole hours: `split_into_hour_blocks` drops what
does not fill an hour counted from the slot's start, and the matrix has cells on
the hour only; half-hour slots, which the matrix ignores, are therefore outside
the model.  The operators keep the order of the code: scorable cells, required
people first, one representative per day and attendees, sort, cut to three.

### Session

`Loaded` is `get()`: it merges records of one human whose identities the
messages have linked and refreshes the labels of stored options.  Every handler
applies it first and saves once, so a handler is one operator and a request one
action.  A rejected request (400, 404, 409) has run `get()` and nothing else.
An option's random id is modelled by the revision that first published it and
its hour.  `merge_extraction` takes any extraction: the model's answer is not
trusted to mean anything.

### Message route

`job` is what the running request keeps in memory; every save of the route is
an action, so that a crash may fall between any two.  The request holds the
session lock all along, which is why the panel acts only while `job` is idle.
The model may fail at every extraction.  The gateway is reduced to the head of
its queue: answered, retried or given up.  The commands that set or clear marks
(`Requirements`) save what they do without a receipt (`routes.py:1016-1033`), and
so does `RequireCommand`.

`Conversation` knows nothing of requests and saves: a message is written down,
takes its effect, is answered, and the next one comes, or it is given up.
`ChannelPipeline` implements it (`AttendsInOrder`) with the stored log as the
conversation, the commands that were carried out as the effects, and the head of
the queue as the message attended; retries, crashes and the panel are stutters.
That a command is carried out and answered in two saves is why `Effect` and
`Answer` are separate there.  A receipt stored with the effect is why most
commands happen once; a requirement has none, and `Conversation` lets it happen
again until its answer is stored (`Repeatable`).  What that costs is the subject
of `PipelineTwice`: the retry withdraws a decision confirmed in between.

### Gateway

JavaScript runs to the next `await`, so an action is what happens between two
awaits.  `drain` is the running loop with the socket it captured, its item and
what it awaits; `timer` is `pendingDrainTimer` with the socket its callback
captured.  An item that waits for its backoff is not `ready` until `TimePasses`.
The backend is external and idempotent in the message id (what
`ChannelPipeline` is about); WhatsApp is external and may notify twice, close
the socket, or deliver without confirming.  A restart keeps the two files and
loses everything else.

`Delivery` is what is left without sockets, timers and attempts: a notified
message waits behind those of its group, is handled once, its answer's parts are
sent once each and in order, and it leaves settled or as a dead letter.
`GatewayQueue` implements it (`DeliversInOrder`).  The mapping has one thing to
say that the queue does not hold, `Unsure`: once the process was killed, a
part of an answer reached the group without being confirmed, or more messages
arrived than the gateway remembers, it cannot know what was sent, and only then (and for a message that was already given up)
does `Delivery` allow a repetition.  The order of a group, and that nothing
leaves the queue but settled or as a dead letter, hold regardless.

### Accounts, owners and groups

A request that reads before it takes its lock is two actions of a `worker`,
`Begin...` and `Finish...`; between them any other thread may run.  What a
request does under the lock of one session is one action, since everybody who
writes that session under its lock is excluded; the writes of plain reads are
not, and are the two actions `BeginRead` and `FinishRead`.  `dirty` says that
`get()` would change the session.  A group's lock is held by the `worker` whose
request is a link or a resolution of it.  Deactivation counts administrators in
a query of its own on PostgreSQL (`CountAdmins`) and under the file's lock with
JSON; `backend` is the build, chosen in `Init`.  `known` is `groupSessions` of
the gateway, written only when an answer arrives; Slack keeps none.
Of a session only the fields that say who it belongs to are kept: what the
other handlers do with it is the subject of `CoordinationSession`.

### Keys and extraction requests

Every method of the key service holds the service's lock and is one action; a
request of a `worker` takes its list of candidates (`TakeKeys`), tries them one
after the other and records each outcome later, while other requests, tests and
administrators go on.  `MarkSuccess` and `MarkFailure` are merged into the record
as it is then.  A rest is `until`: `ahead`, `passed` or `none`; how long it is is
left open.  Which key comes first among the candidates is left open too: the
priority decides who is tried, not what is recorded.  `LegacyEnv` is the
environment's key when the pool is not managed.  The cache and the pause are
attributes that threads share without a lock, so looking an answer up, fetching
it, comparing the length with the limit (`Remembers`), picking the oldest answer
(`Picks`, or `PickFails` when another thread changed the cache under it), dropping
it (`MakesRoom`) and storing (`Stores`) are actions of their own.

### Interpretation

A message is what the regular expressions find in it (`named` days, an hour,
"solo", ranges across days, release hours, names, who wrote, who was mentioned)
together with the entries the model answers, which may be anything, or no answer
at all.  The hours they find are those of `detect_slots` (`Found`): within the
working day, or the one exact hour past its end that "a las 7" means.  `Extraction` chains the stages in the order of the code: the compiler
(`Compiled`), the rules that correct it (`Normalized`), the grounding of its days
in the text (`Grounded`) and of its people (`Mentioned`); `Bound` is the
restriction of a group chat to those who wrote or were mentioned, and `Merged`
the merge into the session.  Slots are whole hours of a week and a day, as
`schedule_compiler` leaves them, and need not lie in the working day: the rules
find hours past it, and a session's day may be narrowed after its hours were
stored.  `Hear` is the whole handler.

A list that stages drop records from is a function from positions that need not
be consecutive (`Where`, `Joined`): the order counts, the numbers do not.

### Calendar

A date and time is a number of ticks since a Monday at midnight.  `EventStart` is
`event_datetimes`.  A confirmation saves the decision (`Confirm`), asks whether
there is an account (`CheckAccount`), reads the credential again and asks for a
token (`Authorise`), asks for the event (`Create`) and saves its id (`Attach`).
The request holds the session's lock, so the session does not change meanwhile;
the account, the clock and Google do.  Each request to Google may be refused, fail
on the way or lose its answer; an event that was created may be answered with an
error or something unreadable, which is caught like a refusal.  Authorisation links live in the memory of the
process and may come back at any time and more than once.

## Runs

| run | instance | what it shows |
|---|---|---|
| `engine_cases` | every roster of three people over four hours in two days, two of them possibly required, one weighted, a group of three or four | `RequiredFirst`, `BestOffered`, `NoAlternativeLost`, `FullCoverageIsEverybody`, `CompleteMeansAnswered` hold |
| `session_changes` | two people, two hours, one of the people managed by the panel, one client, every handler in every order | nine properties of the proposal, the decision, its audit and stale confirmations hold |
| `session_identities` | one human under two identities | `AnswersSurviveMerging` holds |
| `pipeline_retries` | three messages of nine kinds, a requirement and a question for a habitual hour among them, two attempts each, one crash, two panel requests | the route implements `Conversation` (`AttendsInOrder`), and only the answers given in haste close a message unread (`UnreadOnlyInHaste`) |
| `pipeline_answers` | fair runs of two messages, one crash, one panel request | `EveryCallAnswered` holds: as long as the gateway goes on delivering its head, every stored call is answered or a dead letter |
| `gateway_faults` | four messages of two groups, queue of two, two faults of five kinds | the gateway implements `Delivery` (`DeliversInOrder`) |
| `gateway_drains` | fair runs of three messages without disconnections | `QueueDrains` holds |
| `access_races` | two threads, three accounts, three groups, two sessions, both storages | `OneSessionPerGroup`, `GatewayRemembersRight`, `LinkIsForever`, `AdminStays` hold |
| `key_pool` | two threads, one text, the environment's key and another, two keys created | `NoSecretTwice`, `UsableKeysTaken`, `AdministratorsDecide` hold |
| `calendar` | two weeks of half days from a Monday noon or a Sunday, two options, two decisions, two events, one link | `EventIsTheDecisions`, `ConfirmedAhead` hold |
| `meaning` | every pair of a message and one of four states before it, 283 thousand states: one or two entries of every kind, "solo", ranges, releases, rules with and without the model, hours outside the working day, group chats | `OnlyGroundedDays`, `RefusalHolds`, `OnlyClearsOtherDays`, `OwnWordsOnly` hold |
| `meaning_only` | "solo puede" one day with hours, in three states | `OnlyReplaces` violated |

Further configurations that TLC refutes, kept beside the code as a record of
known limits.  Those in the first table contradict a sentence of the documents,
of a comment or of a message of the code, which the last column names; those in
the second are limits that nothing promises against.  A configuration with two
properties refutes both; TLC shows the second when it is run with `-continue`.

| configuration (module) | refuted | why | promised at |
|---|---|---|---|
| `EngineHomonyms` (`EngineCases`) | `RequiredFirst` | the engine knows people by visible name, the session keeps two of one name apart (`session_service.py:1170-1172`) | `docs/ARQUITECTURA.md:177` |
| `EngineCrowd` (`EngineCases`) | `FullCoverageIsEverybody` | coverage rounds up to 100 from 200 members on | `decision_engine.py:245-246`, "todos los participantes" |
| `SessionAudit` (`SessionCases`) | `AuditIsImmutable` | loading a session rewrites the attendees of past decisions (`session_service.py:1314`) | comment at `session_service.py:890` |
| `SessionRequirement` (`SessionCases`) | `RequirementPersists` | an identity merge keeps the marks of the first record only | `docs/ARQUITECTURA.md:172`, "debe estar si o si" |
| `SessionReconfigure` (`SessionCases`) | `UnchangedResultKeepsDecision` | setting a mark to the value it has clears the decision | comment at `session_service.py:571-573`, "si el resultado cambia" |
| `PipelineHasty` (`PipelineCases`) | `AnsweredMeansRead` | requirement commands and the "no habitual time" reply close pending availability unread | `docs/DESPLIEGUE_WHATSAPP.md:264-266` |
| `PipelineTwice` (`PipelineCases`) | `ExtractedOnce`, `RetryKeepsDecision` | after a crash between two saves the retry extracts again, or carries a requirement out again and withdraws the decision confirmed in between | `docs/OPERACION_PRODUCCION.md:19-21`, `README.md:20` |
| `GatewayStall` (`GatewayCases`) | `QueueDrains` | a reconnection during an await leaves the queue without anybody to drain it | `docs/OPERACION_PRODUCCION.md:17-23` |
| `AccessStale` (`AccessCases`) | `OwnerChangesStick` | a plain read saves an older copy over a transfer that fell in between | `session_service.py:55-57` |
| `AccessUnlinked` (`AccessCases`) | `LinkIsForever`, `GatewayRemembersRight` | a read that overlaps the link restores a session that had something to normalise before, its code included | `README.md:30`, "el código se invalida al vincularse" |
| `AccessPostgres` (`AccessCases`) | `AdminStaysAnywhere` | two administrators deactivate each other | `auth_service.py:298`, "debe quedar al menos un administrador activo" |
| `KeyPoolStuck` (`KeyPoolCases`) | `RestHasEnd` | a late 503 erases the instant at which the rest of a 429 ends and leaves the rest: no request takes the key again (`llm_key_service.py:281-289`) | `docs/CONFIGURACION_LLM.md:174-178` |
| `KeyPoolReimport` (`KeyPoolCases`) | `ImportedOnce` | the environment's key, deleted in the panel, comes back once the audit has grown by 500 entries (`llm_key_service.py:327`) | `docs/DESPLIEGUE_WHATSAPP.md:119-120` |
| `KeyPoolCache` (`KeyPoolCases`) | `CacheBounded`, `CachedIsServed` | two threads pick the same oldest answer and only one makes room, again and again; an answer found is dropped by another thread before it is read, and the request fails (`llm_service.py:161`) | `llm_cache_max_items`, `llm_service.py:934` |
| `CalendarLost` (`CalendarCases`) | `AlwaysConfirmed` | only refusals of Google are caught: a lost connection, or a credential the master key does not open, answers the saved decision with an error | `routes.py:1161-1176` |
| `MeaningHour` (`MeaningCases`) | `OnlyGives`, `OnlyClearsWeek` | an "only" with a bare hour is moved, with all it takes from other days, to the only day it can mean, and nothing is left; hours past the working day, which "a las 7" stores, survive an "only" of another day (`llm_service.py:2861-2870`) | `docs/ARQUITECTURA.md:284-287` |

| configuration (module) | refuted | why |
|---|---|---|
| `CalendarDouble` (`CalendarCases`) | `OneEventEach` | a repeated confirmation, or a lost answer of Google, leaves a second event |
| `CalendarShown` (`CalendarCases`) | `ShownIsDecided` | options carry weeks counted from today and outlive the week in which they were shown |
| `GatewayLinkRetry` (`GatewayCases`) | `RefusedMeansNotLinked` | the retry of a link whose answer was lost is refused |
| `AccessStale` (`AccessCases`) | `OwnersActive` | an account is deactivated while a group is created for it |

### Bounds and why they are enough

* Engine: four options are needed to see the cut to three and two days to see
  the grouping; three people give all sets of attendees that differ, and
  weights zero and more.
* Session: two people, two hours, a bounded revision and audit.  A decision that
  goes wrong needs a confirm, a change and a second look; the bounds leave room
  for two decisions and a reset between them.
* Route: three messages are the least with an older command, a pending message
  and a current one; one crash per run falls at every point of every request.
* Gateway: four messages in two groups with a queue of two reach overflow,
  waiting heads and overtaking; every pair of faults occurs.  `RecentLimit` is
  as large as the number of messages; a smaller one is the theorem's part, where
  more arrivals than `RecentLimit` are one of the reasons to be `Unsure`.
* Access: two threads give every race of two requests; two sessions and two
  WhatsApp groups give two codes for one group and two groups for one code; the
  Slack channel adds the only creation without a code.  Threads, administrators
  and WhatsApp groups are interchangeable, which `Alike` uses.
* Keys: two requests that hold copies of the same two keys, and the panel, are
  every pair of a late outcome and a change it may undo; the audit of two entries
  forgets an import after two further ones.  More keys and threads are the
  theorems' part.
* Calendar: two ticks a day give an hour before and an hour after every moment;
  the origins give the middle of the week's first day and the Sunday, from which
  the week counts backwards; fourteen ticks cross the end of a week with one
  decision before and one after it.
* Meaning: three weekdays are the named one, the round's and another; three
  hours a day leave a stretch with room before and after it; half hours and hours
  outside the working day are among the entries' hours, hours past it among what
  the rules find, and hours before and after it among what was stored.  One message
  per behaviour suffices because nothing but the availability, of which four are
  tried, is carried to the next.

`MaxRevision`, `MaxDecisions`, `MaxCrashes`, `MaxPanel`, `MaxFaults`,
`MaxSessions`, `MaxKeys`, `MaxEvents`, `MaxLinks`, `LastTick` and `MaxHeard` are
exploration bounds; `MaxAttempts`, `QueueLimit`, `RecentLimit`, `CacheSize`,
`AuditLimit`, `LinkLife` and `DayTicks` are the code's limits, made small.  `FaultKinds` and `OddPending`
say which of the environment's doings a run explores.
`CHECK_DEADLOCK FALSE` appears where messages run out and the system rests.

### Fairness

`ChannelPipeline!FairSpec` assumes only that a request which the backend has
taken goes on to its end: the route is a straight line of code under one lock.  It
assumes nothing of the gateway.  `EveryCallAnswered` has the gateway's part as its
premise: `KeepsDelivering`, that the head of its queue is delivered again and again
until the queue is empty.  The gateway keeps it while WhatsApp stays connected
(`QueueDrains`) and may break it after a reconnection during an await, which
`GatewayStall` shows; a message that waits there is not answered.
`GatewayQueue!FairSpec` assumes that promises settle (every call has a timeout
and WhatsApp sends either confirm or reject), that delays pass and armed timers
fire, and that a closed socket is reopened (`scheduleReconnect`).  Nothing is
assumed about messages arriving, which is what makes the stalled queue visible.

## Findings

The run `meaning_only` states what `docs/ARQUITECTURA.md:284-287` and the
docstring of `schedule_compiler.py` say of "solo": that it replaces what the
person had said.  `apply_exclusive_availability_overrides`
(`llm_service.py:2704-2736`) drops the model's own removal when it touches the
named day and puts back a removal of the other days only, so that wider hours the
person had on the named day survive.  The first table of refuted configurations
has further disagreements of this kind, each with a short counterexample.

## Proofs

Every theorem holds for all values of the constants that the modules' `ASSUME`s
allow, which every run evaluates; hypotheses beyond those are stated in the
theorem and named here.  That no two people bear one name (`DistinctNames`) is such
a hypothesis and no assumption of a module: the session keeps two people of one
name apart (`session_service.py:1170-1172`), the engine looks them up by name.

### The engine and the handlers

`SessionHandlers_proofs` proves `OnlyCoveringOptions`: for every roster with
different names, group size and calendar, if one attended hour has everybody who
is required, so has every option.  The rest of the module is what other proofs
cite: what `Pool`, `Representatives` and the cut to three preserve, and a lemma
for each handler.  After loading, every handler does one of five
things to the session: it renews the proposal, restates it, leaves it untouched,
starts again, or decides (`Renewed`, `Restated`, `Untouched`, `Restarted`,
`Decides`).  Each of these forms is shown once to keep what the invariants below
say, and the lemma of a handler only names its form.

For the engine the module proves, for any number of people, hours and days,

* `RequiredComeFirst`: `EngineSpec => []RequiredFirst`
* `NothingLost`: `EngineSpec => []NoAlternativeLost`
* `BestComesFirst`: `EngineSpec => []BestOffered`
* `FullCoverage`: `EngineSpec => []FullCoverageIsEverybody`
* `CompleteIsAnswered`: `EngineSpec => []CompleteMeansAnswered`

All but the last assume `DistinctNames`: the reference notions speak of persons,
the engine of names, and with two people of one name TLC refutes `RequiredFirst`
(`EngineHomonyms`).  `FullCoverage` assumes fewer than 200 members as well: 199
of 200 are 99.5 per cent, which rounds to 100 (`EngineCrowd` shows it with a
group of that kind).  The invariant is `Answered`, that what is shown is the
engine's answer to the input; the work is in the operators.  `NothingLost` says
that as long as fewer than three options are offered, an hour is left out only if
an earlier hour of its day with the same people is offered, and that no two
options are alike in day and people: it needs that the sort gives every
representative a rank of its own and that there is one representative for each
day and set of people.  `BestComesFirst` compares two sums: the engine's score
counts a union of tagged people, the reference adds weights with a fold.  Both
are additive one person at a time (`UnitsAdd`, `Weight`), so a smallest roster on
which they differed could not exist (`WorthCounted`).

### Sessions

`CoordinationSession_proofs` proves, for every finite set of people and every
set of requests,

* `Typed`: `Spec => []TypeOK`
* `DecisionIsCoherent`: `Spec => []DecisionCoherent`
* `HistoryGrows`: `Spec => HistoryOnlyGrows`
* `RequiredCovered`: `Spec => []DecisionCoversRequired`, where no two people bear
  one name (`DistinctNames`)
* `SoundDecisions`: `Spec => DecisionsAreSound`
* `AnswersMerge`: `Spec => AnswersSurviveMerging`

and, where everybody is known by one identity (`Aliases = {}`),

* `FreshOptions`: `Spec => []OptionsFresh`
* `Stands`: `Spec => []DecisionStands`
* `OneRevisionOneProposal`: `Spec => RevisionMarksEveryChange`
* `ClosesWhatWasShown`: `Spec => ConfirmClosesWhatWasShown`
* `SurvivesSilence`: `Spec => DecisionSurvivesSilence`

None of these properties is inductive.  Three invariants, one on top of the
other, carry them:

* `IInv`: typing and coherence together (`Good(session)`), with the typing of the
  clients' views.  After labels are refreshed an option keeps its identity only
  if the session is well typed, and `Confirm` copies an option of the list.
* `Sound(session)`: `Backed`, an option marked as complete has everybody
  required, all options or none are marked, and there is a first one;
  `Informed`, what is said to be missing is what the engine finds missing;
  `Covered`, the decision has everybody required (`Backed` and `Covered` where `DistinctNames`
  holds, since they speak of people and the engine of names; `EngineHomonyms` shows
  an option without a required person of a shared name, which can be confirmed).
  `confirmation_blockers` looks at the first option and at what is missing, both stored earlier: only with
  `Backed` and `Informed` do they tell the truth about the option that is
  confirmed.  It survives merging, because a merged record has the hours of both
  and the marks of the first.
* `SettledInv`: the options are the engine's answer, one per hour, and the
  decision is one of them (`Settled`); what a client saw is of an older revision,
  or still what is offered (`Remembered`).

The hypothesis `Aliases = {}` of the last five is needed: a read that merges two
identities changes the people and publishes nothing, so the options are those of
the people before until the next change.  The theorems with any `Aliases` are
those that hold nevertheless.  The run `session_changes` has the same
hypothesis; `session_identities` is the one with two identities.

### The route

`ChannelPipeline_proofs` proves, for any number of messages, attempts, crashes
and panel requests,

* `Attends`: `Spec => AttendsInOrder`, the refinement of `Conversation`
* `Typed`: `Spec => []TypeOK`
* `CoherentBetweenSaves`:
  `Spec => [](Coherent(session) /\ (DistinctNames => Covered(session)))`
* `OnlyHasteLeavesUnread`: `Spec => []UnreadOnlyInHaste`
* `Reads`: `Spec => []AnsweredMeansRead`, where no message is one of the
  commands that are answered in haste

The refinement does not look into the session: whatever the handlers make of it,
the order of saves alone carries the promise.  `IInv` relates what is stored
(the log, the receipts, the effects) to the head of the queue and to what the
running request still has to do: human messages are stored in the order of their
ids, nothing is stored of later messages (`Ordered`); a reply, a receipt or an
effect is of a stored message, and every effect but a requirement has its receipt
(`Booked`); a request between two saves serves the head, whose answer is missing,
and one that may still take effect finds no receipt (`Serving`).  Without `Serving` a crash
between the effect and the answer could not be told from a request that has not
begun.

`CoherentBetweenSaves` takes the handlers' lemmas through every save of the
route: whatever a crash leaves behind is a coherent session whose decision has
everybody required, where no two people bear one name.

For what is left unread, `ReadInv` adds to `IInv` that a request which has come to
execute its command or to answer, and a head that has its receipt, leave nothing
pending unread, unless the head is a requirement or a habitual command.
`OnlyHasteLeavesUnread` is the precise statement: a message that is no longer
pending was read, or the first reply after it was to one of those commands.  `Reads`
follows from it; `PipelineHasty` is the counterexample without its hypothesis.

### The gateway

`GatewayQueue_proofs` proves, for any number of messages, groups, attempts and
faults and any size of the queue and of its memory,

* `Typed`: `Spec => []TypeOK`
* `Delivers`: `Spec => DeliversInOrder`, the refinement of `Delivery`

The invariant says that the loop works on the first item of a group (`Taken`) and
sends what its item still lacks (`Steps`), that progress is only kept for a
decision whose reply was sent (`Progressed`) and, as long as the gateway is not
`Unsure`, that what was sent of a queued message is its progress (`Answered`) and
that a message which arrived is queued, remembered or dead (`Remembering`).  The
last is why `Unsure` includes more arrivals than `RecentLimit`: the memory of
processed ids is cut to that many, and a message that WhatsApp notifies again
after it was forgotten is answered again.

### Accounts, owners and groups

`GroupAccess_proofs` proves, for any number of threads, accounts, groups and
sessions and either storage,

* `Typed`: `Spec /\ ~OddPending => []TypeOK`
* `OneSession`: `Spec /\ ~OddPending => []OneSessionPerGroup`
* `Remembers`: `Spec /\ ~OddPending => []GatewayRemembersRight`
* `LinkForever`: `Spec /\ ~OddPending => LinkIsForever`
* `AdminRemains`: `Admins # {} /\ Spec => []AdminStays`

None of the first four is inductive: a thread acts on what it read when its
request began.  `IInv` adds what makes that still true: a code belongs to a
session without group (`Pending`), a group is held by one thread (`Alone`), and
`Fits`, which says for each kind of request what it read and may rely on: the
sessions of a held group are the ones it saw, and the copy a read holds has the
group of the session and no code.  The proof reduces every action to one of
five kinds of step (a request begins, a session is saved within its group, a
session is created, a session is linked, only accounts change), proved once
each.  The premise `~OddPending`, that no session has anything to normalise before
it is linked, is not a convenience: the panel can bring about such a session, and
then TLC refutes `LinkIsForever` and `GatewayRemembersRight` (`AccessUnlinked`),
because a read that began before the link restores it without its group.

`AdminRemains` is about the JSON storage, as the property is, and needs neither
that premise nor the sessions.  `Admins # {}` is there because an installation
without a panel password or demo accounts creates nobody, and has no
administrator to lose.

### Keys

`LlmKeyPool_proofs` proves, for any number of threads, keys and texts,

* `Typed`: `Spec => []TypeOK`
* `OneSecret`: `Spec => []NoSecretTwice`
* `UsableTaken`: `Spec => UsableKeysTaken`
* `LastWord`: `Spec => AdministratorsDecide`

The keys' invariant is that no secret is stored twice and that a key without a
rest has no instant for its end (`Coherent`): `is_available` looks at the instant
alone, and only together with the status does it mean that no rest is left
behind.  Nothing is proved of the size of the cache: it has no bound that depends
on its limit and the number of threads alone (`KeyPoolCache`).

### Calendar

`CalendarEvents_proofs` proves, for every length of the day, set of options and
number of decisions, events and links,

* `Typed`: `Spec => []TypeOK`
* `Faithful`: `Spec => []EventIsTheDecisions`
* `Ahead`: `Spec => ConfirmedAhead`
* `LinkOnce`: `Spec => []LinksWorkOnce`

`Ahead` rests on `Date`, a lemma of plain arithmetic: the week of an option
counted from the Monday of today, moved by a week when it has passed, is never
behind and never further than it must be.  `EventIsTheDecisions` is not
inductive: a request that has created an event but not yet saved its id must find
the decision it saved still in force, and the id in nobody else's hands (`Busy`).

### From a message to hours

`Interpretation_proofs` proves, for any number of people and days, any working
day, hours stored inside or outside it, any text and whatever the model answers,

* `Typed`: `Spec => []TypeOK`
* `GroundedDays`: `Spec => OnlyGroundedDays`
* `OwnWords`: `Spec => OwnWordsOnly`
* `Refused`: `Spec => RefusalHolds`
* `OnlyClears`: `Spec => OnlyClearsOtherDays`

The state is simple and the step is not: the invariant `IInv` says no more than
`TypeOK` and that what was heard are messages, and the work is in the one action,
a chain of folds over what the model answered and over what the rules found.
Induction over an operator is out of the provers' reach, so the first part of the
module does without: a set of parts that holds the empty one and is passed on
from a part without its chosen element to the part holds every finite one
(`Peel`, by a smallest part outside it), and there is a function that solves the
fold's equation (`Solved`).  Each fold of the component is then shown to keep a
set of values for each part (`GatheredIn`, `ExclusiveIn`, `SpannedIn`,
`WithdrawnIn` and so on), which is what the later lemmas cite.

Two arguments follow.

* `Readings(people, days, reach, corrected)` confines what a stage hands on: whose
  hours, of which days, what is taken away and whose hours are replaced.  Every
  stage keeps a reading, grounding narrows the days and the channel the people, and
  merging a reading leaves an availability `Near` the old one.  `OwnWords` and
  `GroundedDays` read it off.
* `Speaks(list, who, c)` says that a record of a person still covers an hour.  The
  hour a person refuses, and the hours a "solo" takes from the other days, are
  followed through every stage: dropped by no rule, kept by grounding, untouched
  by what the rules add for others, and withdrawn last.  `RemovedIs` says that
  withdrawing takes exactly the hours of the removal, whatever the order in which
  slots are cut.

The hypotheses in the two properties are what the code needs, and TLC or a failed
step of the proof showed each of them.  `RefusalHolds` is about messages of which
the rules find nothing (`Plain`), since a release or a "solo" may give the hour
back.  Its second half needs `Supported`, without which grounding drops the
refusal and the rules speak for the person, and `OnlyRefuses`, without which the
model itself gives hours of that day.  `OnlyClearsOtherDays` is about the last
"solo" of a person (`LastWord`): an earlier one gives days that the later one
takes away, and a range across days of the same person is applied after it; and
about the hours of the working day, since the removal of the other days stops at
its end (`OnlyClearsWeek` in `MeaningHour`).

### What the proofs changed in the models

A `CASE` of TLA+ with two true arms may take either, and TLC takes the first:
what TLC had checked of `Confidence` and of the pool's `Repaired` was more than
they said.  The proof of `OwnWordsOnly` stopped there; both are now nested `IF`s in
the order of the code.
`RefusalHolds` spoke of messages with one entry: the proof needs only that the
entries of that person are refusals, and so it is stated.

### Only model-checked

* `QueueDrains` and `EveryCallAnswered`: liveness under fairness.
* The configurations that TLC refutes.

Everything else that the runs check is proved.

## Not modelled

* Slack (`bff/slack_routes.py`, `slack_channel.py`, `slack_blocks.py`): a second
  way into the session handlers that are modelled; what it adds is the form of
  blocks and HTTP.  That a retry is dropped by its header although the first
  delivery may have died is listed as a hazard.
* Group metadata and identities (`gateway/src/group_metadata.js`,
  `message_metadata.js`): the session sees the aliases they yield, and
  `CoordinationSession` takes any.
* Group memory (`group_memory.py`): text for the prompt, without state.
* Images and the formats of exports; the wording of replies; the panel's React
  code; ops and evaluation scripts.
* The regular expressions and the spelling of names in the extraction.
  `Interpretation` takes any result that `detect_slots` and its like can give:
  hours of the working day, or one exact hour past its end.  The HTTP of Ollama and
  of the local model, which have neither keys nor failover; the older form of the
  model's answer, which has no entries; the habitual slot.
* Passwords, panel tokens, roles of routes and the rate limiter.
* The file formats and migrations of the storages.

## Plan

1. Done: the engine, the session, the route and the gateway with their abstract
   specifications, groups and accounts, the key pool, the interpretation of
   messages, the calendar; proofs of every property the runs check but the two of
   liveness.
2. An abstract specification of the coordination (ask, propose, decide) that
   `CoordinationSession` implements, with its proof from `SettledInv`.
3. Proofs still worth writing: `OneSession` with pending sessions that have
   something to normalise, if a weaker premise than `~OddPending` suffices; what a
   release or a range across days leaves of a refusal, which `RefusalHolds` leaves
   out.
4. The habitual slot and the rate limiter; the gateway's sync of group metadata.
