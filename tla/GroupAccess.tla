----------------------------- MODULE GroupAccess -----------------------------
(***************************************************************************)
(* Who owns which coordination group, and which channel group is which     *)
(* stored session: accounts, link codes, resolution of groups by the       *)
(* gateway and by Slack, transfers and deactivations.  The requests run in *)
(* the threads of the backend.  Most of them read something before they    *)
(* take the lock under which they write, and a plain read may write as     *)
(* well: get() saves what it normalised, without the session's lock.       *)
(***************************************************************************)
EXTENDS Integers, FiniteSets, Sequences

CONSTANTS Worker,        \* threads that serve requests
          Admins,        \* platform administrators, created at start
          Members,       \* accounts of group owners
          Group,         \* WhatsApp groups and Slack channels
          SlackGroups,   \* those that are Slack channels
          AccessLists,   \* sets of accounts a session may be assigned to
          Backends,      \* values of DB_BACKEND explored
          OddPending,    \* does a session get names or messages that get()
                         \* rewrites before it has a group?
          MaxSessions    \* bound on stored sessions explored

User == Admins \cup Members

ASSUME AccessAssumption ==
  /\ SlackGroups \subseteq Group
  /\ AccessLists \subseteq SUBSET User
  /\ Backends \subseteq {"json", "postgres"}
  /\ OddPending \in BOOLEAN
  /\ MaxSessions \in Nat

VARIABLES backend,   \* DB_BACKEND of this run: "json" or "postgres"
          account,   \* account[u]: "none", "active" or "inactive"
          stored,    \* the stored sessions, in the order of their creation
          known,     \* known[g]: the session the gateway remembers, {} or {s}
          worker     \* worker[w]: the request thread w is serving
vars == <<backend, account, stored, known, worker>>

AtMostOne(S) == {{}} \cup {{x} : x \in S}

Session == [owner : AtMostOne(User), assigned : SUBSET User, code : BOOLEAN,
            group : AtMostOne(Group), archived : BOOLEAN, dirty : BOOLEAN]

Idle == [op |-> "idle"]

Request ==
  {Idle}
  \cup [op : {"create"}, user : User]
  \cup [op : {"link"}, group : Group, target : Nat]
  \cup [op : {"resolve"}, group : Group, found : SUBSET Nat]
  \cup [op : {"transfer"}, target : Nat, users : {{u} : u \in User}]
  \cup [op : {"assign"}, target : Nat, users : SUBSET User]
  \cup [op : {"deactivate", "counted"}, user : User]
  \cup [op : {"read"}, target : Nat, copy : Session]

TypeOK ==
  /\ backend \in Backends
  /\ account \in [User -> {"none", "active", "inactive"}]
  /\ stored \in Seq(Session)
  /\ known \in [Group -> AtMostOne(DOMAIN stored)]
  /\ worker \in [Worker -> Request]

Init ==
  /\ backend \in Backends
  /\ account = [u \in User |-> IF u \in Admins THEN "active" ELSE "none"]
  /\ stored = <<>>
  /\ known = [g \in Group |-> {}]
  /\ worker = [w \in Worker |-> Idle]

-----------------------------------------------------------------------------
(* Threads and locks *)

Free(w) == worker[w] = Idle

Takes(w, request) == worker' = [worker EXCEPT ![w] = request]

Ends(w) == worker' = [worker EXCEPT ![w] = Idle]

Serving(w, op) == worker[w].op = op

\* group_lock: held from the first read of the route to its answer.
GroupLocked(g) ==
  \E w \in Worker : worker[w].op \in {"link", "resolve"} /\ worker[w].group = g

\* The session that get() returns, and saves, under the session's lock: one
\* step, as nobody else writes that session under its lock meanwhile.
Opened(s) == [stored[s] EXCEPT !.dirty = FALSE]

Saves(s, session) == stored' = [stored EXCEPT ![s] = session]

SessionsOf(g) == {s \in DOMAIN stored : stored[s].group = {g}}

-----------------------------------------------------------------------------
(* Accounts *)

ActiveAdmins == {u \in Admins : account[u] = "active"}

Register(u) ==
  /\ account[u] = "none"
  /\ account' = [account EXCEPT ![u] = "active"]
  /\ UNCHANGED <<backend, stored, known, worker>>

Reactivate(u) ==
  /\ ActiveAdmins # {}
  /\ account[u] = "inactive"
  /\ account' = [account EXCEPT ![u] = "active"]
  /\ UNCHANGED <<backend, stored, known, worker>>

\* update_user of the route: the groups of the account are looked up first.
BeginDeactivate(w, actor, u) ==
  /\ Free(w)
  /\ actor \in ActiveAdmins \ {u}
  /\ account[u] = "active"
  /\ \A s \in DOMAIN stored : stored[s].owner # {u}
  /\ Takes(w, [op |-> "deactivate", user |-> u])
  /\ UNCHANGED <<backend, account, stored, known>>

\* On PostgreSQL the count is a query of its own: READ COMMITTED does not keep
\* it true until the update.
CountAdmins(w) ==
  /\ backend = "postgres"
  /\ Serving(w, "deactivate")
  /\ IF worker[w].user \in Admins /\ Cardinality(ActiveAdmins) <= 1
     THEN Ends(w)
     ELSE Takes(w, [worker[w] EXCEPT !.op = "counted"])
  /\ UNCHANGED <<backend, account, stored, known>>

\* Mutant: the last administrator is not counted.
FinishDeactivateAnyone(w) ==
  /\ Serving(w, IF backend = "postgres" THEN "counted" ELSE "deactivate")
  /\ account' = [account EXCEPT ![worker[w].user] = "inactive"]
  /\ Ends(w)
  /\ UNCHANGED <<backend, stored, known>>

FinishDeactivate(w) ==
  /\ Serving(w, IF backend = "postgres" THEN "counted" ELSE "deactivate")
  /\ LET u == worker[w].user
     IN  IF backend = "json" /\ u \in ActiveAdmins /\ Cardinality(ActiveAdmins) <= 1
         THEN UNCHANGED account
         ELSE account' = [account EXCEPT ![u] = "inactive"]
  /\ Ends(w)
  /\ UNCHANGED <<backend, stored, known>>

-----------------------------------------------------------------------------
(* Sessions and their owners *)

BeginCreate(w, u) ==
  /\ Free(w)
  /\ account[u] = "active"
  /\ Takes(w, [op |-> "create", user |-> u])
  /\ UNCHANGED <<backend, account, stored, known>>

\* Mutant: the administrators become owners of every new group.
FinishCreateShared(w) ==
  /\ Serving(w, "create")
  /\ Len(stored) < MaxSessions
  /\ LET owner == {worker[w].user} \cup Admins
     IN  stored' = Append(stored,
           [owner |-> owner, assigned |-> owner, code |-> TRUE,
            group |-> {}, archived |-> FALSE, dirty |-> FALSE])
  /\ Ends(w)
  /\ UNCHANGED <<backend, account, known>>

\* The session of an administrator has no owner and no link code.
FinishCreate(w) ==
  /\ Serving(w, "create")
  /\ Len(stored) < MaxSessions
  /\ LET owner == {worker[w].user} \ Admins
     IN  stored' = Append(stored,
           [owner |-> owner, assigned |-> owner, code |-> owner # {},
            group |-> {}, archived |-> FALSE, dirty |-> FALSE])
  /\ Ends(w)
  /\ UNCHANGED <<backend, account, known>>

\* The new owner is looked up before the session's lock is taken.
BeginTransfer(w, s, u) ==
  /\ Free(w)
  /\ ActiveAdmins # {}
  /\ account[u] = "active"
  /\ Takes(w, [op |-> "transfer", target |-> s, users |-> {u}])
  /\ UNCHANGED <<backend, account, stored, known>>

FinishTransfer(w) ==
  /\ Serving(w, "transfer")
  /\ LET s == Opened(worker[w].target)
     IN  Saves(worker[w].target,
           [s EXCEPT !.owner = worker[w].users,
                     !.assigned = (@ \ s.owner) \cup worker[w].users])
  /\ Ends(w)
  /\ UNCHANGED <<backend, account, known>>

\* The accounts, and the accounts assigned so far, are read before the lock; the
\* write of that get() is a read of its own.
BeginAssign(w, s, users) ==
  /\ Free(w)
  /\ ActiveAdmins # {}
  /\ \A u \in users :
       \/ account[u] = "active"
       \/ account[u] = "inactive" /\ u \in stored[s].assigned
  /\ Takes(w, [op |-> "assign", target |-> s, users |-> users])
  /\ UNCHANGED <<backend, account, stored, known>>

FinishAssign(w) ==
  /\ Serving(w, "assign")
  /\ Saves(worker[w].target,
           [Opened(worker[w].target) EXCEPT !.assigned = worker[w].users])
  /\ Ends(w)
  /\ UNCHANGED <<backend, account, known>>

SetArchived(s, archived) ==
  /\ stored[s].archived # archived
  /\ Saves(s, [Opened(s) EXCEPT !.archived = archived])
  /\ UNCHANGED <<backend, account, known, worker>>

-----------------------------------------------------------------------------
(* Groups *)

\* The gateway remembers the session of a group when it hears the answer.
Answered(g, s) ==
  \/ UNCHANGED known
  \/ g \notin SlackGroups /\ known' = [known EXCEPT ![g] = {s}]

\* Mutant: link without the lock of the group.
BeginLinkUnlocked(w, g, s) ==
  /\ g \notin SlackGroups
  /\ Free(w)
  /\ stored[s].code
  /\ ~stored[s].archived
  /\ SessionsOf(g) \subseteq {s}
  /\ Takes(w, [op |-> "link", group |-> g, target |-> s])
  /\ UNCHANGED <<backend, account, stored, known>>

\* link_channel_group up to the session's lock; g sends the code of session s.
BeginLink(w, g, s) ==
  /\ g \notin SlackGroups
  /\ ~GroupLocked(g)
  /\ Free(w)
  /\ stored[s].code
  /\ ~stored[s].archived
  /\ SessionsOf(g) \subseteq {s}
  /\ Takes(w, [op |-> "link", group |-> g, target |-> s])
  /\ UNCHANGED <<backend, account, stored, known>>

\* Mutant: the code is not compared again under the lock of its session.
FinishLinkUnchecked(w) ==
  /\ Serving(w, "link")
  /\ LET g == worker[w].group
         s == worker[w].target
     IN  /\ Saves(s, [Opened(s) EXCEPT !.group = {g}, !.code = FALSE])
         /\ Answered(g, s)
  /\ Ends(w)
  /\ UNCHANGED <<backend, account>>

\* Mutant: the gateway remembers the session before it knows the answer.
FinishLinkEager(w) ==
  /\ Serving(w, "link")
  /\ LET g == worker[w].group
         s == worker[w].target
     IN  /\ IF stored[s].code
            THEN Saves(s, [Opened(s) EXCEPT !.group = {g}, !.code = FALSE])
            ELSE Saves(s, Opened(s))
         /\ Answered(g, s)
  /\ Ends(w)
  /\ UNCHANGED <<backend, account>>

FinishLink(w) ==
  /\ Serving(w, "link")
  /\ LET g == worker[w].group
         s == worker[w].target
     IN  IF stored[s].code
         THEN /\ Saves(s, [Opened(s) EXCEPT !.group = {g}, !.code = FALSE])
              /\ Answered(g, s)
         ELSE Saves(s, Opened(s)) /\ UNCHANGED known
  /\ Ends(w)
  /\ UNCHANGED <<backend, account>>

\* resolve_channel_group up to the session's lock.  The gateway asks with
\* create_if_missing = false and gets a 404 for a group nobody linked.
BeginResolve(w, g) ==
  /\ ~GroupLocked(g)
  /\ Free(w)
  /\ SessionsOf(g) # {} \/ g \in SlackGroups
  /\ Takes(w, [op |-> "resolve", group |-> g, found |-> SessionsOf(g)])
  /\ UNCHANGED <<backend, account, stored, known>>

FinishResolve(w) ==
  /\ Serving(w, "resolve")
  /\ LET g     == worker[w].group
         still == {s \in worker[w].found : stored[s].group = {g}}
     IN  \/ \E s \in still : Saves(s, Opened(s)) /\ Answered(g, s)
         \/ /\ still = {}
            /\ g \in SlackGroups
            /\ Len(stored) < MaxSessions
            /\ stored' = Append(stored,
                 [owner |-> {}, assigned |-> {}, code |-> FALSE,
                  group |-> {g}, archived |-> FALSE, dirty |-> FALSE])
            /\ Answered(g, Len(stored) + 1)
  /\ Ends(w)
  /\ UNCHANGED <<backend, account>>

\* configureBackendChannel, for the session the gateway remembers: the panel
\* never sends a group.
ConfigureChannel(g) ==
  \E s \in known[g] :
    /\ Saves(s, [Opened(s) EXCEPT !.group = {g}])
    /\ UNCHANGED <<backend, account, known, worker>>

\* A request stores what get() will rewrite: a message with identities to merge
\* or, before there is a group too, a panel request with a name that is no name
\* or a batch of the simulator.
StoresUntidy(s) ==
  /\ stored[s].group = {} => OddPending
  /\ Saves(s, [stored[s] EXCEPT !.dirty = TRUE])
  /\ UNCHANGED <<backend, account, known, worker>>

-----------------------------------------------------------------------------
(* Reads: get() outside the session's lock *)

BeginRead(w, s) ==
  /\ Free(w)
  /\ stored[s].dirty
  /\ Takes(w, [op |-> "read", target |-> s, copy |-> Opened(s)])
  /\ UNCHANGED <<backend, account, stored, known>>

FinishRead(w) ==
  /\ Serving(w, "read")
  /\ Saves(worker[w].target, worker[w].copy)
  /\ Ends(w)
  /\ UNCHANGED <<backend, account, known>>

-----------------------------------------------------------------------------
Accounts ==
  \/ \E u \in Members : Register(u)
  \/ \E u \in User : Reactivate(u)
  \/ \E w \in Worker, actor \in Admins, u \in User : BeginDeactivate(w, actor, u)
  \/ \E w \in Worker : CountAdmins(w) \/ FinishDeactivate(w)

Transfers == \E w \in Worker : FinishTransfer(w)

Sessions ==
  \/ \E w \in Worker, u \in User : BeginCreate(w, u)
  \/ \E w \in Worker, s \in DOMAIN stored :
       \/ \E u \in Members : BeginTransfer(w, s, u)
       \/ \E users \in AccessLists : BeginAssign(w, s, users)
  \/ \E w \in Worker : FinishCreate(w) \/ FinishAssign(w)
  \/ Transfers
  \/ \E s \in DOMAIN stored, archived \in BOOLEAN : SetArchived(s, archived)

Groups ==
  \/ \E w \in Worker, g \in Group :
       \/ \E s \in DOMAIN stored : BeginLink(w, g, s)
       \/ BeginResolve(w, g)
  \/ \E w \in Worker : FinishLink(w) \/ FinishResolve(w)
  \/ \E g \in Group : ConfigureChannel(g)

Reads ==
  \/ \E s \in DOMAIN stored : StoresUntidy(s)
  \/ \E w \in Worker, s \in DOMAIN stored : BeginRead(w, s)
  \/ \E w \in Worker : FinishRead(w)

Next == Accounts \/ Sessions \/ Groups \/ Reads

Spec == Init /\ [][Next]_vars

-----------------------------------------------------------------------------
(* Properties *)

(* "un grupo no puede ser reclamado por dos cuentas" (README.md): two owners *)
(* with two codes, a repeated link, or two messages of an unknown Slack      *)
(* channel at once never leave a group with two sessions.                    *)
OneSessionPerGroup ==
  \A s, t \in DOMAIN stored :
    stored[s].group = stored[t].group /\ stored[s].group # {} => s = t

(* "El codigo se invalida al vincularse" (README.md): a session that became  *)
(* the session of a group stays it, and a code that is gone never comes      *)
(* back, whichever groups race with the code and whatever a read writes.  It *)
(* needs OddPending to be false: otherwise a read that began before the link *)
(* saves the session as it was, without group and with its code.             *)
LinkIsForever ==
  [][\A s \in DOMAIN stored :
       /\ stored[s].group # {} => stored'[s].group = stored[s].group
       /\ stored'[s].code => stored[s].code /\ stored'[s].group = {}]_vars

(* The gateway asks the backend for the session of a group once and then     *)
(* relies on its own file: what it remembers stays true.  It needs           *)
(* OddPending to be false as well: a link that is undone leaves the file.    *)
GatewayRemembersRight ==
  \A g \in Group : \A s \in known[g] : stored[s].group = {g}

(* "Debe quedar al menos un administrador activo" (auth_service.py), however *)
(* administrators deactivate each other at once; with the JSON files, whose  *)
(* lock covers the count and the update.                                     *)
AdminStays == backend = "json" => ActiveAdmins # {}

(* The same on either backend.                                               *)
AdminStaysAnywhere == ActiveAdmins # {}

(* A group's owner, and its archive mark, change by the requests that mean   *)
(* it: "Cada lock protege el ciclo completo read-modify-write de una sesion" *)
(* (session_service.py).                                                     *)
OwnerChangesStick ==
  [][\A s \in DOMAIN stored :
       stored'[s].owner # stored[s].owner => Transfers]_vars

(* "No puedes transferir un grupo a una cuenta inactiva", "Transfiere        *)
(* primero sus grupos": the owner of a group is an active account.           *)
OwnersActive ==
  \A s \in DOMAIN stored : \A u \in stored[s].owner : account[u] = "active"
=============================================================================
