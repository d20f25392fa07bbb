------------------------------- MODULE Inbox --------------------------------
(***************************************************************************)
(* The inbox side of one phone number: inbound messages (InboundListener,    *)
(* ConversationsService.findOrCreateUnqualified, MessagesService.saveInbound)*)
(* reach the number's conversation, which operators archive and qualify      *)
(* (ConversationsService) and lose with its lead or contact                  *)
(* (ContactsService.remove, LeadsService.remove, TrashService).              *)
(*                                                                          *)
(* A webhook is acknowledged before its message is handled, and the history  *)
(* synchronisation of the user interface emits old messages once more.       *)
(***************************************************************************)
EXTENDS Integers, FiniteSets

CONSTANTS
    Msgs,          \* messages the customer writes
    Handlers,      \* inbound events handled at once
    Requests,      \* qualify requests; each may create a contact and a lead
    MaxEmits,      \* bound: events emitted for one message
    MaxArchives,   \* bound: uses of the archive and un-archive button
    MaxDeletes,    \* bound: deletions of the conversation
    MaxFailures,   \* bound: statements of the inbound handler that fail
    MaxCrashes,    \* bound: restarts of the server
    NoConv, NoLead, NoMsg

HandlerPC == {"idle", "upsert", "select", "name", "check", "unarchive", "save"}
RequestPC == {"idle", "contact", "lead", "link", "done"}
LeadState == {"none", "live", "trashed", "gone"}
ContactState == {"none", "live", "leadsGone", "gone"}

ASSUME InboxAssumption ==
    /\ IsFiniteSet(Msgs) /\ IsFiniteSet(Handlers)
    /\ MaxEmits \in Nat /\ MaxArchives \in Nat /\ MaxDeletes \in Nat
    /\ MaxFailures \in Nat /\ MaxCrashes \in Nat
    /\ NoLead \notin Requests /\ NoMsg \notin Msgs

Conversation == [lead : Requests \cup {NoLead}, archived : BOOLEAN, named : BOOLEAN]

ASSUME NoConvAssumption == NoConv \notin Conversation

VARIABLES
    conv,      \* the phone's row in conversations
    id,        \* that row's id: one more after each deletion
    saved,     \* its rows in messages
    erased,    \* messages deleted together with a conversation
    emitted,   \* events emitted for a message
    hand,      \* the inbound handlers
    req,       \* the qualify requests: position, conversation read, overlap
    leads,     \* the lead a request created
    contacts,  \* the contact a request created
    archives, failures, crashes

vars == <<conv, id, saved, erased, emitted, hand, req, leads, contacts,
          archives, failures, crashes>>

Handler == [pc : HandlerPC, msg : Msgs \cup {NoMsg}, conv : 0..MaxDeletes,
            archived : BOOLEAN, raced : BOOLEAN]
Request == [pc : RequestPC, conv : 0..MaxDeletes, raced : BOOLEAN]

TypeOK ==
    /\ conv \in Conversation \cup {NoConv}
    /\ id \in 0..MaxDeletes
    /\ saved \subseteq Msgs /\ erased \subseteq Msgs
    /\ emitted \in [Msgs -> 0..MaxEmits]
    /\ hand \in [Handlers -> Handler]
    /\ req \in [Requests -> Request]
    /\ leads \in [Requests -> LeadState]
    /\ contacts \in [Requests -> ContactState]
    /\ archives \in 0..MaxArchives
    /\ failures \in 0..MaxFailures
    /\ crashes \in 0..MaxCrashes

Idle == [pc |-> "idle", msg |-> NoMsg, conv |-> 0, archived |-> FALSE, raced |-> FALSE]

Init ==
    /\ conv = NoConv
    /\ id = 0
    /\ saved = {} /\ erased = {}
    /\ emitted = [m \in Msgs |-> 0]
    /\ hand = [h \in Handlers |-> Idle]
    /\ req = [r \in Requests |-> [pc |-> "idle", conv |-> 0, raced |-> FALSE]]
    /\ leads = [r \in Requests |-> "none"]
    /\ contacts = [r \in Requests |-> "none"]
    /\ archives = 0 /\ failures = 0 /\ crashes = 0

Exists == conv # NoConv
Archived == Exists /\ conv.archived

\* The conversation with id i is still the one in the table.
Current(i) == Exists /\ i = id

-----------------------------------------------------------------------------
\* Inbound messages.

\* A webhook, its repetition, or syncChatHistory, which emits the last messages
\* of the chat whenever an operator opens it.
Emit(h, m) ==
    /\ hand[h].pc = "idle"
    /\ emitted[m] < MaxEmits
    /\ emitted' = [emitted EXCEPT ![m] = @ + 1]
    /\ hand' = [hand EXCEPT ![h] = [Idle EXCEPT !.pc = "upsert", !.msg = m]]
    /\ UNCHANGED <<conv, id, saved, erased, req, leads, contacts, archives, failures, crashes>>

\* Mutated form of Upsert: the insert has no ON CONFLICT clause.
Upsert_Insert(h) ==
    /\ hand[h].pc = "upsert"
    /\ hand' = [hand EXCEPT ![h] = IF Exists THEN Idle ELSE [@ EXCEPT !.pc = "select"]]
    /\ IF Exists THEN UNCHANGED conv
       ELSE \E named \in BOOLEAN :
              conv' = [lead |-> NoLead, archived |-> FALSE, named |-> named]
    /\ UNCHANGED <<id, saved, erased, emitted, req, leads, contacts, archives, failures, crashes>>

\* INSERT ... ON CONFLICT DO NOTHING, with the sender's name when it is known.
Upsert(h) ==
    /\ hand[h].pc = "upsert"
    /\ hand' = [hand EXCEPT ![h].pc = "select"]
    /\ IF Exists THEN UNCHANGED conv
       ELSE \E named \in BOOLEAN :
              conv' = [lead |-> NoLead, archived |-> FALSE, named |-> named]
    /\ UNCHANGED <<id, saved, erased, emitted, req, leads, contacts, archives, failures, crashes>>

\* findOne: throws when the conversation was deleted in between.  The rest of
\* the handler works with the row read here.
Select(h) ==
    /\ hand[h].pc = "select"
    /\ \/ /\ ~Exists
          /\ hand' = [hand EXCEPT ![h] = Idle]
       \/ /\ Exists
          /\ \E next \in {"name", "check", "save"} :
               /\ next = "name" => ~conv.named
               /\ next = "check" => conv.archived
               /\ next = "save" => ~conv.archived
               /\ hand' = [hand EXCEPT ![h].pc = next, ![h].conv = id,
                                       ![h].archived = conv.archived]
    /\ UNCHANGED <<conv, id, saved, erased, emitted, req, leads, contacts, archives, failures, crashes>>

StoreName(h) ==
    /\ hand[h].pc = "name"
    /\ hand' = [hand EXCEPT ![h].pc = IF hand[h].archived THEN "check" ELSE "save"]
    /\ conv' = IF Current(hand[h].conv) THEN [conv EXCEPT !.named = TRUE] ELSE conv
    /\ UNCHANGED <<id, saved, erased, emitted, req, leads, contacts, archives, failures, crashes>>

\* Mutated forms of CheckArchived: the conversation is not brought back; the
\* handler returns when a second reading finds nothing to do.
CheckArchived_Skip(h) ==
    /\ hand[h].pc = "check"
    /\ hand' = [hand EXCEPT ![h].pc = "save"]
    /\ UNCHANGED <<conv, id, saved, erased, emitted, req, leads, contacts, archives, failures, crashes>>

\* unarchiveOnNewMessage reads the row again, then updates it.
CheckArchived(h) ==
    /\ hand[h].pc = "check"
    /\ hand' = [hand EXCEPT ![h].pc =
                   IF Current(hand[h].conv) /\ conv.archived THEN "unarchive" ELSE "save"]
    /\ UNCHANGED <<conv, id, saved, erased, emitted, req, leads, contacts, archives, failures, crashes>>

Unarchive(h) ==
    /\ hand[h].pc = "unarchive"
    /\ hand' = [hand EXCEPT ![h].pc = "save"]
    /\ conv' = IF Current(hand[h].conv) THEN [conv EXCEPT !.archived = FALSE] ELSE conv
    /\ UNCHANGED <<id, saved, erased, emitted, req, leads, contacts, archives, failures, crashes>>

\* saveInbound: a row that exists is left alone; without its conversation the
\* insert breaks the foreign key and the message is lost.
SaveInbound(h) ==
    /\ hand[h].pc = "save"
    /\ hand' = [hand EXCEPT ![h] = Idle]
    /\ saved' = IF Current(hand[h].conv) THEN saved \cup {hand[h].msg} ELSE saved
    /\ UNCHANGED <<conv, id, erased, emitted, req, leads, contacts, archives, failures, crashes>>

\* Any statement of the handler may fail; the listener logs the error.
HandlerFails(h) ==
    /\ hand[h].pc # "idle"
    /\ failures < MaxFailures
    /\ failures' = failures + 1
    /\ hand' = [hand EXCEPT ![h] = Idle]
    /\ UNCHANGED <<conv, id, saved, erased, emitted, req, leads, contacts, archives, crashes>>

-----------------------------------------------------------------------------
\* Operators.

\* PATCH /conversations/:id/archive, either way.  A handler that looked
\* before does not see it.
SetArchived(archive) ==
    /\ Exists
    /\ archives < MaxArchives
    /\ archives' = archives + 1
    /\ conv' = [conv EXCEPT !.archived = archive]
    /\ hand' = [h \in Handlers |->
                  [hand[h] EXCEPT !.raced = @ \/ hand[h].pc = "save"
                                              \/ (hand[h].pc = "name" /\ ~hand[h].archived)]]
    /\ UNCHANGED <<id, saved, erased, emitted, req, leads, contacts, failures, crashes>>

\* POST /conversations/:id/qualify: a conversation with a lead is left as it
\* is, an error if that lead is in the trash.
InProgress == {r \in Requests : req[r].pc \in {"contact", "lead", "link"}}

\* Mutated form of ReadConversation: it does not look for a lead.
ReadConversation_IgnoringLead(r) ==
    /\ req[r].pc = "idle"
    /\ Exists
    /\ req' = [q \in Requests |->
                 IF q = r THEN [pc |-> "contact", conv |-> id, raced |-> InProgress # {}]
                 ELSE IF q \in InProgress THEN [req[q] EXCEPT !.raced = TRUE] ELSE req[q]]
    /\ UNCHANGED <<conv, id, saved, erased, emitted, hand, leads, contacts, archives, failures, crashes>>

ReadConversation(r) ==
    /\ req[r].pc = "idle"
    /\ Exists
    /\ \/ /\ conv.lead # NoLead
          /\ req' = [req EXCEPT ![r] = [@ EXCEPT !.pc = "done", !.conv = id]]
       \/ /\ conv.lead = NoLead
          /\ req' = [q \in Requests |->
                 IF q = r THEN [pc |-> "contact", conv |-> id, raced |-> InProgress # {}]
                 ELSE IF q \in InProgress THEN [req[q] EXCEPT !.raced = TRUE] ELSE req[q]]
    /\ UNCHANGED <<conv, id, saved, erased, emitted, hand, leads, contacts, archives, failures, crashes>>

CreateContact(r) ==
    /\ req[r].pc = "contact"
    /\ req' = [req EXCEPT ![r].pc = "lead"]
    /\ contacts' = [contacts EXCEPT ![r] = "live"]
    /\ UNCHANGED <<conv, id, saved, erased, emitted, hand, leads, archives, failures, crashes>>

\* The insert breaks its foreign key when the contact was removed meanwhile.
CreateLead(r) ==
    /\ req[r].pc = "lead"
    /\ IF contacts[r] = "gone"
       THEN req' = [req EXCEPT ![r].pc = "done"] /\ UNCHANGED leads
       ELSE req' = [req EXCEPT ![r].pc = "link"] /\ leads' = [leads EXCEPT ![r] = "live"]
    /\ UNCHANGED <<conv, id, saved, erased, emitted, hand, contacts, archives, failures, crashes>>

\* UPDATE conversations SET "leadId": no row is an answer too; a lead purged
\* meanwhile breaks the foreign key.
LinkLead(r) ==
    /\ req[r].pc = "link"
    /\ req' = [req EXCEPT ![r].pc = "done"]
    /\ conv' = IF Current(req[r].conv) /\ leads[r] # "gone"
               THEN [conv EXCEPT !.lead = r] ELSE conv
    /\ UNCHANGED <<id, saved, erased, emitted, hand, leads, contacts, archives, failures, crashes>>

-----------------------------------------------------------------------------
\* Deletion.  A lead that is deleted takes the conversation with it, and the
\* conversation its messages (ON DELETE CASCADE).

Erase == /\ id < MaxDeletes
         /\ id' = id + 1
         /\ conv' = NoConv
         /\ erased' = erased \cup saved
         /\ saved' = {}

DropLead(r) == /\ leads' = [leads EXCEPT ![r] = "gone"]
               /\ IF Exists /\ conv.lead = r THEN Erase
                  ELSE UNCHANGED <<conv, id, erased, saved>>

\* Mutated form of TrashLead: the lead is archived instead.
TrashLead_Archives(r) ==
    /\ leads[r] = "live"
    /\ leads' = [leads EXCEPT ![r] = "archived"]
    /\ UNCHANGED <<conv, id, saved, erased, emitted, hand, req, contacts, archives, failures, crashes>>

TrashLead(r) ==
    /\ leads[r] = "live"
    /\ leads' = [leads EXCEPT ![r] = "trashed"]
    /\ UNCHANGED <<conv, id, saved, erased, emitted, hand, req, contacts, archives, failures, crashes>>

RestoreLead(r) ==
    /\ leads[r] = "trashed"
    /\ leads' = [leads EXCEPT ![r] = "live"]
    /\ UNCHANGED <<conv, id, saved, erased, emitted, hand, req, contacts, archives, failures, crashes>>

PurgeLead(r) ==
    /\ leads[r] = "trashed"
    /\ DropLead(r)
    /\ UNCHANGED <<emitted, hand, req, contacts, archives, failures, crashes>>

\* ContactsService.remove: the contact's leads, then the phone's conversation
\* if it has no lead, then (with it, here) the contact.
RemoveContactLeads(r) ==
    /\ contacts[r] = "live"
    /\ contacts' = [contacts EXCEPT ![r] = "leadsGone"]
    /\ IF leads[r] = "none" THEN UNCHANGED <<leads, conv, id, erased, saved>>
       ELSE DropLead(r)
    /\ UNCHANGED <<emitted, hand, req, archives, failures, crashes>>

RemoveContactConversation(r) ==
    /\ contacts[r] = "leadsGone"
    /\ contacts' = [contacts EXCEPT ![r] = "gone"]
    /\ IF Exists /\ conv.lead = NoLead THEN Erase
       ELSE UNCHANGED <<conv, id, erased, saved>>
    /\ UNCHANGED <<emitted, hand, req, leads, archives, failures, crashes>>

\* A restart loses the events and the requests in progress.
Crash ==
    /\ crashes < MaxCrashes
    /\ crashes' = crashes + 1
    /\ hand' = [h \in Handlers |-> Idle]
    /\ req' = [r \in Requests |-> IF r \in InProgress THEN [req[r] EXCEPT !.pc = "done"] ELSE req[r]]
    /\ UNCHANGED <<conv, id, saved, erased, emitted, leads, contacts, archives, failures>>

Handle(h) == \/ Upsert(h) \/ Select(h) \/ StoreName(h) \/ CheckArchived(h)
             \/ Unarchive(h) \/ SaveInbound(h)
Qualify(r) == ReadConversation(r) \/ CreateContact(r) \/ CreateLead(r) \/ LinkLead(r)
Delete(r) == \/ TrashLead(r) \/ RestoreLead(r) \/ PurgeLead(r)
             \/ RemoveContactLeads(r) \/ RemoveContactConversation(r)

Next ==
    \/ \E h \in Handlers, m \in Msgs : Emit(h, m)
    \/ \E h \in Handlers : Handle(h) \/ HandlerFails(h)
    \/ \E archive \in BOOLEAN : SetArchived(archive)
    \/ \E r \in Requests : Qualify(r) \/ Delete(r)
    \/ Crash

Spec == Init /\ [][Next]_vars

\* An event that was emitted is handled to its end.
FairSpec == Spec /\ \A h \in Handlers : WF_vars(Handle(h))

-----------------------------------------------------------------------------
\* "If conversation was archived and a new message arrives, bring it back"
\* (inbound.listener.ts), whatever duplicates are handled beside it: a message
\* is stored out of sight only by a handler the operator's archiving overtook.
NewMessageUnarchives ==
    [][\A h \in Handlers :
          hand[h].pc = "save" /\ hand'[h].pc = "idle" /\ saved' # saved /\ Archived
              => hand[h].raced]_vars

\* Emitted, not stored, and no handler working on it: nobody will deliver the
\* message again, as its webhook was answered with success.
Lost == {m \in Msgs : /\ emitted[m] > 0
                      /\ m \notin saved \cup erased
                      /\ \A h \in Handlers : hand[h].msg # m}

\* Messages that meet in the creation of a conversation, or are delivered twice,
\* do not cost each other: one is lost per failed statement, and those in the
\* handlers when the server dies or the conversation is deleted under them.
FaultsBoundLoss ==
    Cardinality(Lost) <= failures + Cardinality(Handlers) * (crashes + id)

\* A request that qualified a conversation did not work for nothing: its lead is
\* the conversation's, unless another request ran at the same time, the server
\* died, or the conversation was deleted.
OrphanExplained ==
    \A r \in Requests :
        leads[r] = "live" /\ req[r].pc = "done" /\ Current(req[r].conv) /\ conv.lead # r
            => req[r].raced \/ crashes > 0

\* Without faults and deletions every message is stored.
EventuallySaved ==
    \A m \in Msgs : emitted[m] > 0 ~> \/ m \in saved \cup erased
                                      \/ failures > 0 \/ crashes > 0 \/ id > 0

\* unarchiveOnNewMessage is "called by InboundListener when a new message
\* arrives on an archived conversation" (conversations.service.ts).
UnarchivedByNewMessage ==
    [][\A h \in Handlers :
          hand[h].pc = "unarchive" /\ hand'[h].pc = "save" /\ Archived /\ Current(hand[h].conv)
              => hand[h].msg \notin saved]_vars
=============================================================================
