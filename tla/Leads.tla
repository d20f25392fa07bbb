------------------------------- MODULE Leads -------------------------------
(***************************************************************************)
(* The rows of the leads and their contacts: LeadsService, the labels of a  *)
(* lead, the trash and its daily purge, and the contact updates that write   *)
(* leads.  A request reads an entity with its relations and saves it later. *)
(*                                                                          *)
(* save() of an entity, by TypeORM: every column takes the entity's value   *)
(* (the deletion mark too); a loaded relation prevails over the foreign key *)
(* that was assigned beside it; a loaded list of labels replaces the row's; *)
(* a row that is gone is inserted again.                                    *)
(***************************************************************************)
EXTENDS Integers, FiniteSets

CONSTANTS
    Ids, Contacts, Users, Labels, Statuses, Stages, Requests,
    MaxRequests,     \* bound: requests in a behaviour
    None, NoLead

Lead == [contact : Contacts \cup {None}, assignee : Users \cup {None}, status : Statuses, stage : Stages,
         labels : SUBSET Labels, trash : {"no", "kept", "due"}]

ConstantsOK ==
    /\ None \notin Contacts \cup Users \cup Ids /\ NoLead \notin Lead /\ "active" \in Statuses
    /\ MaxRequests \in Nat

\* What a request asks of a lead: one field and its value ("none": the score, the archive date).
Change == [field : {"contact"}, value : Contacts] \cup [field : {"assignee"}, value : Users]
          \cup [field : {"add", "drop"}, value : Labels] \cup [field : {"status"}, value : Statuses]
          \cup [field : {"stage"}, value : Stages]
          \cup [field : {"none"}, value : {None}]
Nothing == [field |-> "none", value |-> None]

\* loaded: which relations the copy was read with.
Request == [pc : {"idle", "save", "write", "event", "purge", "contact", "delete"},
            id : Ids \cup {None}, copy : Lead \cup {NoLead}, change : Change,
            loaded : {"all", "labels", "none"}, contact : Contacts \cup {None}, leads : SUBSET Ids]
Idle == [pc |-> "idle", id |-> None, copy |-> NoLead, change |-> Nothing, loaded |-> "none",
         contact |-> None, leads |-> {}]

VARIABLES
    leads,      \* the leads table with its labels
    contacts,   \* the contacts table
    requests, served,
    want,       \* history: the row, had every request been atomic
    ignored,    \* history: fields changed while the row had a relation there
    crossed,    \* history: leads written from a copy older than the row
    purged      \* history: leads restored under a purge, or deleted with their contact

vars == <<leads, contacts, requests, served, want, ignored, crossed, purged>>

TypeOK ==
    /\ leads \in [Ids -> Lead \cup {NoLead}] /\ contacts \subseteq Contacts
    /\ requests \in [Requests -> Request]
    /\ served \in 0..MaxRequests
    /\ want \in [Ids -> Lead \cup {NoLead}]
    /\ ignored \subseteq Ids \X {"contact", "assignee"}
    /\ crossed \subseteq Ids /\ purged \subseteq Ids

Init ==
    /\ leads = [l \in Ids |-> NoLead] /\ contacts = Contacts
    /\ requests = [q \in Requests |-> Idle] /\ served = 0
    /\ want = leads /\ ignored = {} /\ crossed = {} /\ purged = {}

Exists(l) == leads[l] # NoLead
Found(l) == Exists(l) /\ leads[l].trash = "no"

Arrive(q, r) ==
    /\ requests[q].pc = "idle" /\ served < MaxRequests
    /\ served' = served + 1
    /\ requests' = [requests EXCEPT ![q] = r]
Count == served < MaxRequests /\ served' = served + 1
GoTo(q, pc) == requests' = [requests EXCEPT ![q].pc = pc]
End(q) == requests' = [requests EXCEPT ![q] = Idle]

Apply(row, change) ==
    CASE change.field = "contact" -> [row EXCEPT !.contact = change.value]
      [] change.field = "assignee" -> [row EXCEPT !.assignee = change.value]
      [] change.field = "status" -> [row EXCEPT !.status = change.value]
      [] change.field = "stage" -> [row EXCEPT !.stage = change.value]
      [] change.field = "add" -> [row EXCEPT !.labels = @ \cup {change.value}]
      [] change.field = "drop" -> [row EXCEPT !.labels = @ \ {change.value}]
      [] OTHER -> row

\* The relation that was loaded prevails over the column assigned beside it.
RelationWins(copy, change, loaded) ==
    /\ loaded = "all"
    /\ \/ change.field = "contact" /\ copy.contact # None
       \/ change.field = "assignee" /\ copy.assignee # None

-----------------------------------------------------------------------------
\* create.
Create(l, contact, assignee, stage) ==
    /\ ~Exists(l) /\ want[l] = NoLead
    /\ contact \in contacts \cup {None}
    /\ Count
    /\ LET row == [contact |-> contact, assignee |-> assignee, status |-> "active",
                   stage |-> stage, labels |-> {}, trash |-> "no"]
       IN  leads' = [leads EXCEPT ![l] = row] /\ want' = [want EXCEPT ![l] = row]
    /\ UNCHANGED <<contacts, requests, ignored, crossed, purged>>

\* update, assign, classify, setScore, recalculateScore, archive, unarchive: findOne
\* reads the lead with all its relations.
ReadLead(q, l, change) ==
    /\ Found(l)
    /\ Arrive(q, [Idle EXCEPT !.pc = "save", !.id = l, !.copy = leads[l], !.change = change, !.loaded = "all"])
    /\ UNCHANGED <<leads, contacts, want, ignored, crossed, purged>>

\* addToLead and removeFromLead read the labels alone; nothing is saved for a label
\* the lead has.
ReadForLabels(q, l, change) ==
    /\ Found(l) /\ ~(change.field = "add" /\ change.value \in leads[l].labels)
    /\ Arrive(q, [Idle EXCEPT !.pc = "save", !.id = l, !.copy = leads[l], !.change = change, !.loaded = "labels"])
    /\ UNCHANGED <<leads, contacts, want, ignored, crossed, purged>>

\* Mutated form of Save: the labels read are the ones kept.
Save_LabelsRead(q) ==
    LET r == requests[q] IN
    /\ r.pc = "save"
    /\ leads' = [leads EXCEPT ![r.id] =
           [Apply(r.copy, r.change) EXCEPT !.labels = r.copy.labels]]
    /\ want' = [want EXCEPT ![r.id] = Apply(@, r.change)]
    /\ UNCHANGED <<crossed, ignored>>
    /\ End(q)
    /\ UNCHANGED <<contacts, served, purged>>

\* save(); refused by the foreign key when the contact is gone.
Save(q) ==
    LET r == requests[q]
        wins == RelationWins(r.copy, r.change, r.loaded)
        saved == [IF wins THEN r.copy ELSE Apply(r.copy, r.change) EXCEPT
                      !.labels = IF r.loaded # "none" \/ ~Exists(r.id) THEN @ ELSE leads[r.id].labels]
    IN  /\ r.pc = "save"
        /\ \/ /\ saved.contact \in contacts \cup {None}
              /\ leads' = [leads EXCEPT ![r.id] = saved]
              /\ want' = [want EXCEPT ![r.id] = IF @ = NoLead THEN saved ELSE Apply(@, r.change)]
              /\ ignored' = IF wins THEN ignored \cup {<<r.id, r.change.field>>} ELSE ignored
              /\ crossed' = IF leads[r.id] = r.copy THEN crossed ELSE crossed \cup {r.id}
           \/ /\ saved.contact \notin contacts \cup {None}
              /\ UNCHANGED <<leads, want, ignored, crossed>>
        /\ End(q)
        /\ UNCHANGED <<contacts, served, purged>>

\* updateStatus and move: the lead is read, then one UPDATE writes the fields by id,
\* and the event is emitted, that of a status when it differs from the one read.
ReadForWrite(q, l, change) ==
    /\ Found(l)
    /\ Arrive(q, [Idle EXCEPT !.pc = "write", !.id = l, !.copy = leads[l], !.change = change])
    /\ UNCHANGED <<leads, contacts, want, ignored, crossed, purged>>

Write(q) ==
    LET r == requests[q]
        emits == r.change.field = "stage" \/ r.copy.status # r.change.value
    IN  /\ r.pc = "write"
        /\ IF Exists(r.id)
           THEN /\ leads' = [leads EXCEPT ![r.id] = Apply(@, r.change)]
                /\ want' = [want EXCEPT ![r.id] = Apply(@, r.change)]
                /\ IF emits /\ Found(r.id) THEN GoTo(q, "event") ELSE End(q)
           ELSE End(q) /\ UNCHANGED <<leads, want>>
        /\ UNCHANGED <<contacts, served, ignored, crossed, purged>>

\* LeadScoreRecalculator: recalculateScoreSystem reads the row without relations and
\* saves the entity with its new score.
ReadForScore(q) ==
    LET r == requests[q] IN
    /\ r.pc = "event"
    /\ IF Found(r.id)
       THEN requests' = [requests EXCEPT ![q] = [Idle EXCEPT !.pc = "save", !.id = r.id, !.copy = leads[r.id]]]
       ELSE End(q)
    /\ UNCHANGED <<leads, contacts, served, want, ignored, crossed, purged>>

-----------------------------------------------------------------------------
\* remove (softDelete), and the trash.
SetTrash(l, trash) ==
    /\ leads' = [leads EXCEPT ![l].trash = trash]
    /\ want' = [want EXCEPT ![l].trash = trash]

SoftDelete(l) ==
    /\ Found(l) /\ Count /\ SetTrash(l, "kept")
    /\ UNCHANGED <<contacts, requests, ignored, crossed, purged>>

Restore(l) ==
    /\ Exists(l) /\ leads[l].trash # "no" /\ Count /\ SetTrash(l, "no")
    /\ purged' = IF \E q \in Requests : requests[q].pc = "purge" /\ requests[q].id = l
                 THEN purged \cup {l} ELSE purged
    /\ UNCHANGED <<contacts, requests, ignored, crossed>>

\* purgeOne: "Hard-delete only items already soft-deleted", then the delete by id.
ReadForPurge(q, l) ==
    /\ Exists(l) /\ leads[l].trash # "no"
    /\ Arrive(q, [Idle EXCEPT !.pc = "purge", !.id = l])
    /\ UNCHANGED <<leads, contacts, want, ignored, crossed, purged>>

Purge(q) ==
    /\ requests[q].pc = "purge"
    /\ leads' = [leads EXCEPT ![requests[q].id] = NoLead]
    /\ End(q)
    /\ UNCHANGED <<contacts, served, want, ignored, crossed, purged>>

\* purgeOlderThan, daily: one statement.
PurgeOlder ==
    /\ \E l \in Ids : Exists(l) /\ leads[l].trash = "due"
    /\ leads' = [l \in Ids |-> IF Exists(l) /\ leads[l].trash = "due" THEN NoLead ELSE leads[l]]
    /\ UNCHANGED <<contacts, requests, served, want, ignored, crossed, purged>>

PassRetention(l) ==
    /\ Exists(l) /\ leads[l].trash = "kept" /\ SetTrash(l, "due")
    /\ UNCHANGED <<contacts, requests, served, ignored, crossed, purged>>

-----------------------------------------------------------------------------
\* ContactsService.

LeadsOf(c) == {l \in Ids : Found(l) /\ leads[l].contact = c}

\* update, updateAvatar, removeAvatar: findOne reads the contact with its leads.
ReadContact(q, c) ==
    /\ c \in contacts
    /\ Arrive(q, [Idle EXCEPT !.pc = "contact", !.contact = c, !.leads = LeadsOf(c)])
    /\ UNCHANGED <<leads, contacts, want, ignored, crossed, purged>>

\* The list that was read becomes the contact's list: a lead that joined since loses
\* its contact, one that left gets it back.
SaveContact(q) ==
    LET r == requests[q]
        joined == LeadsOf(r.contact) \ r.leads
        left == {l \in r.leads : Exists(l) /\ leads[l].contact # r.contact}
    IN  /\ r.pc = "contact"
        /\ contacts' = contacts \cup {r.contact}
        /\ leads' = [l \in Ids |-> IF l \in joined THEN [leads[l] EXCEPT !.contact = None]
                                   ELSE IF l \in left THEN [leads[l] EXCEPT !.contact = r.contact]
                                   ELSE leads[l]]
        /\ crossed' = crossed \cup joined \cup left
        /\ End(q)
        /\ UNCHANGED <<served, want, ignored, purged>>

\* remove: its leads, then the contact; a lead that came between loses it (ON DELETE SET NULL).
DeleteLeadsOf(q, c) ==
    /\ c \in contacts
    /\ Arrive(q, [Idle EXCEPT !.pc = "delete", !.contact = c])
    /\ leads' = [l \in Ids |-> IF Exists(l) /\ leads[l].contact = c THEN NoLead ELSE leads[l]]
    /\ purged' = purged \cup {l \in Ids : Exists(l) /\ leads[l].contact = c}
    /\ UNCHANGED <<contacts, want, ignored, crossed>>

DeleteContact(q) ==
    LET c == requests[q].contact IN
    /\ requests[q].pc = "delete"
    /\ contacts' = contacts \ {c}
    /\ leads' = [l \in Ids |-> IF Exists(l) /\ leads[l].contact = c
                               THEN [leads[l] EXCEPT !.contact = None] ELSE leads[l]]
    /\ want' = [l \in Ids |-> IF want[l] # NoLead /\ want[l].contact = c
                              THEN [want[l] EXCEPT !.contact = None] ELSE want[l]]
    /\ End(q)
    /\ UNCHANGED <<served, ignored, crossed, purged>>

-----------------------------------------------------------------------------
Step(q) ==
    \/ Save(q) \/ Write(q) \/ ReadForScore(q) \/ Purge(q) \/ SaveContact(q) \/ DeleteContact(q)

Next ==
    \/ \E l \in Ids, c \in Contacts \cup {None}, u \in Users \cup {None}, s \in Stages : Create(l, c, u, s)
    \/ \E q \in Requests, l \in Ids, change \in Change :
           \/ change.field \in {"contact", "assignee", "none"} /\ ReadLead(q, l, change)
           \/ change.field \in {"add", "drop"} /\ ReadForLabels(q, l, change)
           \/ change.field \in {"status", "stage"} /\ ReadForWrite(q, l, change)
    \/ \E q \in Requests, l \in Ids : ReadForPurge(q, l)
    \/ \E q \in Requests, c \in Contacts : ReadContact(q, c) \/ DeleteLeadsOf(q, c)
    \/ \E q \in Requests : Step(q)
    \/ \E l \in Ids : SoftDelete(l) \/ Restore(l) \/ PassRetention(l)
    \/ PurgeOlder

Spec == Init /\ [][Next]_vars

-----------------------------------------------------------------------------
\* Every answered change of a lead is in its row, except a contact or an assignee that
\* replaces another one, or after a write from a copy older than the row.
AnswersKept ==
    \A l \in Ids : Exists(l) /\ l \notin crossed =>
        /\ leads[l].status = want[l].status /\ leads[l].stage = want[l].stage
        /\ leads[l].labels = want[l].labels
        /\ leads[l].trash = want[l].trash
        /\ <<l, "contact">> \notin ignored => leads[l].contact = want[l].contact
        /\ <<l, "assignee">> \notin ignored => leads[l].assignee = want[l].assignee

\* trash.service.ts:92: "Hard-delete only items already soft-deleted" - a lead is deleted
\* from the trash, with its contact, or after a restoration the purge did not see.
DeletedFromTrash ==
    [][\A l \in Ids : Exists(l) /\ leads'[l] = NoLead
                      => leads[l].trash # "no" \/ l \in purged' \/ l \in crossed]_vars

-----------------------------------------------------------------------------
(* The inductive invariant behind these: what a request on its way names, and
   what a purge still finds. *)

RequestsOK ==
    /\ \A l \in Ids : Exists(l) => want[l] # NoLead
    /\ \A q \in Requests :
           /\ requests[q].pc \in {"save", "write", "event", "purge"} =>
                  requests[q].id \in Ids /\ want[requests[q].id] # NoLead
           /\ requests[q].pc = "save" => requests[q].copy # NoLead
           /\ requests[q].pc = "save" /\ requests[q].loaded = "none" => requests[q].change.field = "none"
           /\ requests[q].pc \in {"contact", "delete"} => requests[q].contact \in Contacts

\* A lead that a purge has found is in the trash, or restored under it, or crossed.
PurgesMarked ==
    \A q \in Requests, l \in Ids : requests[q].pc = "purge" /\ requests[q].id = l /\ Exists(l)
                                   => leads[l].trash # "no" \/ l \in purged \/ l \in crossed

IInv == TypeOK /\ RequestsOK /\ PurgesMarked /\ AnswersKept
=============================================================================
