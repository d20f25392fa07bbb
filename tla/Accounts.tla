------------------------------ MODULE Accounts ------------------------------
(***************************************************************************)
(* The users of a workspace: created, promoted, deactivated and edited by   *)
(* requests that read a row and write it later (UsersService), scheduled    *)
(* for deletion and restored by their owner (MeService), and erased by the  *)
(* daily job (AccountPruneScheduler).                                       *)
(*                                                                          *)
(* repository.save() writes every column in which the entity differs from   *)
(* the row, so a copy read before somebody else's write overwrites it; of a *)
(* row that was erased meanwhile it makes a new one.                        *)
(***************************************************************************)
EXTENDS Integers, FiniteSets

CONSTANTS
    Ids, Owner,   \* user ids; the owner the workspace was created with
    Roles, Limit, \* roles other than "owner"; how many active users of a role
    Assigned,     \* users that a lead names as assignee or creator
    Requests,     \* concurrent requests that write a user
    MaxRequests,  \* bound: requests in a behaviour
    NoUser, NoId

\* deletion: scheduledDeletionAt is null, in the grace period, or past.
User == [role : Roles \cup {"owner"}, active : BOOLEAN, deletion : {"no", "grace", "due"}]

ConstantsOK ==
    /\ IsFiniteSet(Ids) /\ Owner \in Ids /\ Assigned \subseteq Ids /\ NoUser \notin User /\ NoId \notin Ids
    /\ "owner" \notin Roles /\ Roles # {} /\ Limit \in [Roles -> Nat] /\ MaxRequests \in Nat

Request == [pc : {"idle", "insert", "role", "profile", "schedule"},
            id : Ids \cup {NoId}, role : Roles, copy : User \cup {NoUser}]

VARIABLES
    users,      \* the users table
    requests,   \* where each request stands, and the copy it read
    todo,       \* accounts the pruning run has still to delete
    served,     \* requests made so far
    fate,       \* history: whether an id was erased, and whether a request held a copy then
    asked,      \* history: users whose last word was to be deleted
    late,       \* history: users kept after the run had listed them, or whose
                \* cancellation an older copy of the row overwrote
    joined,     \* history: a user joined although the owner's deletion was scheduled
    uncounted   \* history: users whose place in their role was not counted alone

vars == <<users, requests, todo, served, fate, asked, late, joined, uncounted>>

TypeOK ==
    /\ users \in [Ids -> User \cup {NoUser}]
    /\ requests \in [Requests -> Request]
    /\ todo \subseteq Ids
    /\ served \in 0..MaxRequests
    /\ fate \in [Ids -> {"kept", "erased", "raced"}]
    /\ asked \subseteq Ids /\ late \subseteq Ids /\ uncounted \subseteq Ids
    /\ joined \in BOOLEAN

Exists(u) == users[u] # NoUser
NewUser(role) == [role |-> role, active |-> TRUE, deletion |-> "no"]
Idle == [pc |-> "idle", id |-> NoId, role |-> CHOOSE r \in Roles : TRUE, copy |-> NoUser]

Init ==
    /\ users = [u \in Ids |-> IF u = Owner THEN NewUser("owner") ELSE NoUser]
    /\ requests = [q \in Requests |-> Idle]
    /\ todo = {} /\ asked = {} /\ late = {} /\ uncounted = {} /\ served = 0
    /\ fate = [u \in Ids |-> "kept"]
    /\ joined = FALSE

Holding(role) == {u \in Ids : Exists(u) /\ users[u].role = role /\ users[u].active}
HasRoom(role) == Cardinality(Holding(role)) < Limit[role]
Busy == {q \in Requests : requests[q].pc # "idle"}

Arrive == served < MaxRequests /\ served' = served + 1

\* A request has done its reads and will write later.
Begin(q, pc, u, role, copy) ==
    /\ requests[q].pc = "idle" /\ Arrive
    /\ requests' = [requests EXCEPT ![q] = [pc |-> pc, id |-> u, role |-> role, copy |-> copy]]
    /\ UNCHANGED <<users, todo, fate, asked, late, joined>>
End(q) == requests' = [requests EXCEPT ![q] = Idle]

\* Two requests that both decide about roles: the count of each misses the other.
SharesCount(u) ==
    uncounted' = IF Busy = {} THEN uncounted
                 ELSE uncounted \cup {u} \cup {requests[q].id : q \in Busy}

\* save(): the row becomes the entity; of an erased row, an insert.
Save(u, row) ==
    /\ users' = [users EXCEPT ![u] = row]
    /\ late' = IF \/ u \in todo /\ row.deletion # "due"
                  \/ u \notin asked /\ row.deletion # "no"
               THEN late \cup {u} ELSE late

-----------------------------------------------------------------------------
\* UsersService.

\* create: the limit of a role is a count followed by an insert.
ReadForCreate(q, u, role) ==
    /\ ~Exists(u) /\ fate[u] = "kept"
    /\ HasRoom(role)
    /\ Begin(q, "insert", u, role, NoUser)
    /\ SharesCount(u)

\* The insert is refused when the address was taken meanwhile (UQ_users_workspace_email);
\* a row takes a new id, so that of an erased user never comes back this way.
InsertUser(q) ==
    /\ requests[q].pc = "insert"
    /\ LET u == requests[q].id
           leaving == \/ Exists(Owner) => users[Owner].deletion # "no" \/ Owner \in todo
                      \/ \E p \in Requests : /\ requests[p].id = Owner
                                             /\ requests[p].copy # NoUser => requests[p].copy.deletion # "no"
       IN  /\ users' = IF Exists(u) \/ fate[u] # "kept" THEN users
                       ELSE [users EXCEPT ![u] = NewUser(requests[q].role)]
           /\ joined' = (joined \/ leaving)
    /\ End(q)
    /\ UNCHANGED <<todo, served, fate, asked, late, uncounted>>

\* Mutated form of ReadForRole: a promotion is not counted.
ReadForRole_Uncounted(q, u, role) ==
    /\ Exists(u) /\ users[u].role # "owner"
    /\ Begin(q, "role", u, role, users[u])
    /\ SharesCount(u)

\* updateRole: find, check, count, save.
ReadForRole(q, u, role) ==
    /\ Exists(u) /\ users[u].role # "owner"
    /\ users[u].role # role => HasRoom(role)
    /\ Begin(q, "role", u, role, users[u])
    /\ SharesCount(u)

SaveRole(q) ==
    /\ requests[q].pc = "role"
    /\ Save(requests[q].id, [requests[q].copy EXCEPT !.role = requests[q].role])
    /\ End(q)
    /\ UNCHANGED <<todo, served, fate, asked, joined, uncounted>>

\* setActive, remove: only the flag is written, and nothing is counted.
SetActive(u, active) ==
    /\ Exists(u) /\ users[u].role # "owner" /\ Arrive
    /\ users' = [users EXCEPT ![u].active = active]
    /\ uncounted' = IF active /\ ~users[u].active THEN uncounted \cup {u} ELSE uncounted
    /\ UNCHANGED <<requests, todo, fate, asked, late, joined>>

\* updateProfile, updateAvatar (an upload lies between), removeAvatar, setEmail.
ReadProfile(q, u) ==
    /\ Exists(u)
    /\ Begin(q, "profile", u, Idle.role, users[u])
    /\ SharesCount(u)

SaveProfile(q) ==
    /\ requests[q].pc = "profile"
    /\ Save(requests[q].id, requests[q].copy)
    /\ End(q)
    /\ UNCHANGED <<todo, served, fate, asked, joined, uncounted>>

-----------------------------------------------------------------------------
\* MeService.

\* scheduleAccountDeletion: the owner must be the only user.
ReadForSchedule(q, u) ==
    /\ Exists(u)
    /\ users[u].role = "owner" => \A v \in Ids : Exists(v) => v = u
    /\ Begin(q, "schedule", u, Idle.role, NoUser)
    /\ UNCHANGED uncounted

\* The date is the end of the grace period.
WriteSchedule(q) ==
    /\ requests[q].pc = "schedule"
    /\ LET u == requests[q].id
       IN  /\ users' = IF Exists(u) THEN [users EXCEPT ![u].deletion = "grace"] ELSE users
           /\ asked' = asked \cup {u}
           /\ late' = IF u \in todo THEN late \cup {u} ELSE late
    /\ End(q)
    /\ UNCHANGED <<todo, served, fate, joined, uncounted>>

\* cancelAccountDeletion.
CancelDeletion(u) ==
    /\ Exists(u) /\ users[u].deletion # "no" /\ Arrive
    /\ Save(u, [users[u] EXCEPT !.deletion = "no"])
    /\ asked' = asked \ {u}
    /\ UNCHANGED <<requests, todo, fate, joined, uncounted>>

-----------------------------------------------------------------------------
\* AccountPruneScheduler.

Due(u) == Exists(u) /\ users[u].deletion = "due"

\* Mutated form of FindDue: the date is not looked at.
FindDue_Everybody ==
    /\ todo = {} /\ \E u \in Ids : Due(u)
    /\ todo' = {u \in Ids : Exists(u)}
    /\ UNCHANGED <<users, requests, served, fate, asked, late, joined, uncounted>>

FindDue ==
    /\ todo = {} /\ \E u \in Ids : Due(u)
    /\ todo' = {u \in Ids : Due(u)}
    /\ UNCHANGED <<users, requests, served, fate, asked, late, joined, uncounted>>

\* The delete names the id alone: what became of the row since FindDue is not read.
DeleteDue(u) ==
    /\ u \in todo
    /\ Exists(u) => u \notin Assigned
    /\ users' = [users EXCEPT ![u] = NoUser]
    /\ todo' = todo \ {u}
    /\ fate' = IF ~Exists(u) THEN fate
               ELSE [fate EXCEPT ![u] = IF \E q \in Busy : requests[q].id = u /\ requests[q].copy # NoUser
                                        THEN "raced" ELSE "erased"]
    /\ UNCHANGED <<requests, served, asked, late, joined, uncounted>>

\* Leads keep their assignee and creator by a foreign key without ON DELETE: the
\* delete throws and ends the whole run.
DeleteFails(u) ==
    /\ u \in todo \cap Assigned /\ Exists(u)
    /\ todo' = {}
    /\ UNCHANGED <<users, requests, served, fate, asked, late, joined, uncounted>>

\* The end of the grace period.
PassGrace(u) ==
    /\ Exists(u) /\ users[u].deletion = "grace"
    /\ users' = [users EXCEPT ![u].deletion = "due"]
    /\ UNCHANGED <<requests, todo, served, fate, asked, late, joined, uncounted>>

-----------------------------------------------------------------------------
Write(q) == InsertUser(q) \/ SaveRole(q) \/ SaveProfile(q) \/ WriteSchedule(q)

Prune == FindDue \/ \E u \in Ids : DeleteDue(u) \/ DeleteFails(u)

Next ==
    \/ \E q \in Requests, u \in Ids, role \in Roles : ReadForCreate(q, u, role) \/ ReadForRole(q, u, role)
    \/ \E q \in Requests, u \in Ids : ReadProfile(q, u) \/ ReadForSchedule(q, u)
    \/ \E q \in Requests : Write(q)
    \/ \E u \in Ids, active \in BOOLEAN : SetActive(u, active)
    \/ \E u \in Ids : CancelDeletion(u) \/ PassGrace(u)
    \/ Prune

Spec == Init /\ [][Next]_vars

-----------------------------------------------------------------------------
\* users.service.ts:29: "Limite de 1 gerente atingido." - a role exceeds its limit
\* only by users that were reactivated, or whose count another request overlapped.
LimitExplained == \A r \in Roles : Cardinality(Holding(r) \ uncounted) <= Limit[r]

\* account-prune.scheduler.ts: an account is erased only when its user asked for it
\* last and the time has come, or when the user was kept after the run had listed it
\* or was scheduled again by a save of an older copy.
ErasedWasDue ==
    [][\A u \in Ids : Exists(u) /\ users'[u] = NoUser
                      => (u \in asked /\ users[u].deletion = "due") \/ u \in late]_vars

\* The workspace loses its owner while others remain only when one of them came back
\* after its erasure or joined after the owner's deletion had been asked for (a token
\* outlives its user): nothing rechecks that the owner is alone.
OwnerLeavesLast == ~Exists(Owner) /\ ~joined => \A u \in Ids : Exists(u) => fate[u] = "raced"

\* An erased account exists again only when a request held a copy of the row while
\* it was erased, and saved it.
ErasedStaysErased == \A u \in Ids : fate[u] = "erased" => ~Exists(u)

-----------------------------------------------------------------------------
(* The inductive invariant behind these: what a request that has read a row
   still holds of it. *)

\* The row a request is about to write, of those that count in a role.
Writing(q) == requests[q].pc \in {"insert", "role", "profile"}
Promise(q) ==
    CASE requests[q].pc = "insert" -> NewUser(requests[q].role)
      [] requests[q].pc = "role" -> [requests[q].copy EXCEPT !.role = requests[q].role]
      [] OTHER -> requests[q].copy

RequestsOK ==
    \A q \in Requests :
        /\ requests[q].pc # "idle" => requests[q].id \in Ids
        /\ requests[q].pc = "idle" => requests[q].id = NoId
        /\ requests[q].copy # NoUser <=> requests[q].pc \in {"role", "profile"}

\* A role has room for its users and for those that requests are about to make,
\* those apart whose count was shared.
Promised(r) ==
    {u \in Ids : \E q \in Requests :
        Writing(q) /\ requests[q].id = u /\ Promise(q).role = r /\ Promise(q).active}
RoomKept ==
    \A r \in Roles : Cardinality((Holding(r) \cup Promised(r)) \ uncounted) <= Limit[r]

\* Whoever is listed or marked for erasure asked for it last, or is among the late.
MarkedAsked ==
    \A u \in Ids : Exists(u) =>
        /\ users[u].deletion # "no" => u \in asked \cup late
        /\ u \in todo /\ u \notin late => u \in asked /\ users[u].deletion = "due"
ListedExist == \A u \in todo : Exists(u)

\* A copy of a row that is gone was read before the erasure, which saw it.
CopiesMarked ==
    \A q \in Requests : requests[q].copy # NoUser /\ requests[q].id \in Ids =>
        /\ fate[requests[q].id] # "erased"
        /\ ~Exists(requests[q].id) => fate[requests[q].id] = "raced"

\* The owner's row and its copies keep the role, so that no request changes or
\* creates the owner.
OwnerKept ==
    /\ Exists(Owner) => users[Owner].role = "owner"
    /\ fate[Owner] = "kept" => Exists(Owner)
    /\ \A q \in Requests : requests[q].id = Owner =>
           /\ requests[q].pc \in {"profile", "schedule"}
           /\ requests[q].copy # NoUser => requests[q].copy.role = "owner"

\* While the owner leaves, nobody else is there but who joined or was raced.
Leaving ==
    \/ Exists(Owner) => users[Owner].deletion # "no" \/ Owner \in todo
    \/ \E q \in Requests : /\ requests[q].id = Owner
                           /\ requests[q].copy # NoUser => requests[q].copy.deletion # "no"
LeavesAlone ==
    Leaving /\ ~joined => \A u \in Ids : Exists(u) => u = Owner \/ fate[u] = "raced"

IInv ==
    /\ TypeOK /\ RequestsOK /\ RoomKept /\ MarkedAsked /\ ListedExist /\ CopiesMarked
    /\ OwnerKept /\ LeavesAlone /\ ErasedStaysErased
=============================================================================
