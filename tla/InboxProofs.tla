---------------------------- MODULE InboxProofs -----------------------------
(***************************************************************************)
(* Theorems of Inbox: the types; a new message brings an archived            *)
(* conversation back; a qualify request that ran alone keeps its lead; only   *)
(* faults and deletions lose messages.                                       *)
(***************************************************************************)
EXTENDS Inbox, FiniteSetTheorems, TLAPS

-----------------------------------------------------------------------------
\* Types: with the message of a busy handler they are inductive.

BusyInv == \A h \in Handlers : hand[h].pc # "idle" => hand[h].msg \in Msgs

Typed == TypeOK /\ BusyInv

LEMMA InitTyped == Init => Typed
<1> SUFFICES ASSUME Init PROVE Typed
  OBVIOUS
<1> USE InboxAssumption DEF Init
<1>1. hand \in [Handlers -> Handler]
  BY DEF Idle, Handler, HandlerPC
<1>2. req \in [Requests -> Request]
  BY DEF Request, RequestPC
<1>3. leads \in [Requests -> LeadState] /\ contacts \in [Requests -> ContactState]
  BY DEF LeadState, ContactState
<1>4. emitted \in [Msgs -> 0..MaxEmits]
  OBVIOUS
<1>5. BusyInv
  BY DEF BusyInv, Idle
<1> QED
  BY <1>1, <1>2, <1>3, <1>4, <1>5 DEF Typed, TypeOK

LEMMA IdleType == Idle \in Handler
BY InboxAssumption DEF Idle, Handler, HandlerPC

\* A handler moves on, or ends.
LEMMA HandlerEnds ==
  ASSUME Typed, NEW h \in Handlers, hand' = [hand EXCEPT ![h] = Idle]
  PROVE  hand' \in [Handlers -> Handler] /\ BusyInv'
BY IdleType DEF Typed, TypeOK, BusyInv, Idle

LEMMA HandlerAdvances ==
  ASSUME Typed, NEW h \in Handlers, NEW pc \in HandlerPC, hand[h].pc # "idle",
         hand' = [hand EXCEPT ![h].pc = pc]
  PROVE  hand' \in [Handlers -> Handler] /\ BusyInv'
BY DEF Typed, TypeOK, BusyInv, Handler

LEMMA TypedHandlers ==
  ASSUME Typed, NEW h \in Handlers,
         Handle(h) \/ HandlerFails(h) \/ \E m \in Msgs : Emit(h, m)
  PROVE  Typed'
<1> USE InboxAssumption, IdleType
<1>1. ASSUME NEW m \in Msgs, Emit(h, m) PROVE Typed'
  <2> DEFINE f == [Idle EXCEPT !.pc = "upsert", !.msg = m]
  <2>1. f \in Handler /\ f.msg = m
    BY DEF Idle, Handler, HandlerPC
  <2>2. hand' = [hand EXCEPT ![h] = f]
    BY <1>1 DEF Emit
  <2> HIDE DEF f
  <2>3. hand' \in [Handlers -> Handler] /\ BusyInv'
    BY <2>1, <2>2 DEF Typed, TypeOK, BusyInv
  <2>4. emitted' \in [Msgs -> 0..MaxEmits]
    <3>1. emitted' = [emitted EXCEPT ![m] = emitted[m] + 1] /\ emitted[m] < MaxEmits
      BY <1>1 DEF Emit
    <3>2. emitted \in [Msgs -> 0..MaxEmits] /\ MaxEmits \in Nat
      BY DEF Typed, TypeOK
    <3>3. emitted[m] + 1 \in 0..MaxEmits
      BY <3>1, <3>2
    <3> QED
      BY <3>1, <3>2, <3>3
  <2>5. UNCHANGED <<conv, id, saved, erased, req, leads, contacts, archives, failures, crashes>>
    BY <1>1 DEF Emit
  <2> QED
    BY <2>3, <2>4, <2>5 DEF Typed, TypeOK
<1>2. CASE Upsert(h)
  <2>1. hand' \in [Handlers -> Handler] /\ BusyInv'
    BY <1>2, HandlerAdvances DEF Upsert, HandlerPC
  <2>2. conv' \in Conversation \cup {NoConv}
    <3>1. CASE conv' = conv
      BY <3>1 DEF Typed, TypeOK
    <3>2. CASE \E named \in BOOLEAN :
                 conv' = [lead |-> NoLead, archived |-> FALSE, named |-> named]
      BY <3>2 DEF Conversation
    <3> QED
      BY <1>2, <3>1, <3>2 DEF Upsert
  <2>3. UNCHANGED <<id, saved, erased, emitted, req, leads, contacts, archives, failures, crashes>>
    BY <1>2 DEF Upsert
  <2> QED
    BY <2>1, <2>2, <2>3 DEF Typed, TypeOK
<1>3. CASE Select(h)
  <2>1. hand' \in [Handlers -> Handler] /\ BusyInv'
    <3>1. CASE hand' = [hand EXCEPT ![h] = Idle]
      BY <3>1, HandlerEnds
    <3>2. CASE Exists /\ \E next \in {"name", "check", "save"} :
                 hand' = [hand EXCEPT ![h].pc = next, ![h].conv = id, ![h].archived = conv.archived]
      <4>1. conv.archived \in BOOLEAN
        BY <3>2 DEF Exists, Typed, TypeOK, Conversation
      <4>2. hand[h].msg \in Msgs /\ id \in 0..MaxDeletes
        BY <1>3 DEF Select, Typed, TypeOK, BusyInv
      <4>3. PICK next \in {"name", "check", "save"} :
                 hand' = [hand EXCEPT ![h].pc = next, ![h].conv = id, ![h].archived = conv.archived]
        BY <3>2
      <4> QED
        BY <4>1, <4>2, <4>3, ZenonT(60) DEF Typed, TypeOK, BusyInv, Handler, HandlerPC
    <3> QED
      BY <1>3, <3>1, <3>2 DEF Select
  <2>2. UNCHANGED <<conv, id, saved, erased, emitted, req, leads, contacts, archives, failures, crashes>>
    BY <1>3 DEF Select
  <2> QED
    BY <2>1, <2>2 DEF Typed, TypeOK
<1>4. CASE StoreName(h)
  <2>1. hand' \in [Handlers -> Handler] /\ BusyInv'
    BY <1>4, HandlerAdvances DEF StoreName, HandlerPC
  <2>2. conv' \in Conversation \cup {NoConv}
    BY <1>4 DEF StoreName, Current, Exists, Typed, TypeOK, Conversation
  <2>3. UNCHANGED <<id, saved, erased, emitted, req, leads, contacts, archives, failures, crashes>>
    BY <1>4 DEF StoreName
  <2> QED
    BY <2>1, <2>2, <2>3 DEF Typed, TypeOK
<1>5. CASE CheckArchived(h)
  <2>1. hand' \in [Handlers -> Handler] /\ BusyInv'
    BY <1>5, HandlerAdvances DEF CheckArchived, HandlerPC
  <2>2. UNCHANGED <<conv, id, saved, erased, emitted, req, leads, contacts, archives, failures, crashes>>
    BY <1>5 DEF CheckArchived
  <2> QED
    BY <2>1, <2>2 DEF Typed, TypeOK
<1>6. CASE Unarchive(h)
  <2>1. hand' \in [Handlers -> Handler] /\ BusyInv'
    BY <1>6, HandlerAdvances DEF Unarchive, HandlerPC
  <2>2. conv' \in Conversation \cup {NoConv}
    BY <1>6 DEF Unarchive, Current, Exists, Typed, TypeOK, Conversation
  <2>3. UNCHANGED <<id, saved, erased, emitted, req, leads, contacts, archives, failures, crashes>>
    BY <1>6 DEF Unarchive
  <2> QED
    BY <2>1, <2>2, <2>3 DEF Typed, TypeOK
<1>7. CASE SaveInbound(h)
  <2>1. hand' \in [Handlers -> Handler] /\ BusyInv'
    BY <1>7, HandlerEnds DEF SaveInbound
  <2>2. saved' \subseteq Msgs
    BY <1>7 DEF SaveInbound, Typed, TypeOK, BusyInv
  <2>3. UNCHANGED <<conv, id, erased, emitted, req, leads, contacts, archives, failures, crashes>>
    BY <1>7 DEF SaveInbound
  <2> QED
    BY <2>1, <2>2, <2>3 DEF Typed, TypeOK
<1>8. CASE HandlerFails(h)
  <2>1. hand' \in [Handlers -> Handler] /\ BusyInv'
    BY <1>8, HandlerEnds DEF HandlerFails
  <2>2. failures' \in 0..MaxFailures
    BY <1>8 DEF HandlerFails, Typed, TypeOK
  <2>3. UNCHANGED <<conv, id, saved, erased, emitted, req, leads, contacts, archives, crashes>>
    BY <1>8 DEF HandlerFails
  <2> QED
    BY <2>1, <2>2, <2>3 DEF Typed, TypeOK
<1> QED
  BY <1>1, <1>2, <1>3, <1>4, <1>5, <1>6, <1>7, <1>8 DEF Handle

LEMMA TypedOperators ==
  ASSUME Typed, NEW archive \in BOOLEAN, SetArchived(archive)
  PROVE  Typed'
<1> DEFINE f(h) == hand[h].raced \/ hand[h].pc = "save"
                                 \/ (hand[h].pc = "name" /\ ~hand[h].archived)
<1>1. hand' = [h \in Handlers |-> [hand[h] EXCEPT !.raced = f(h)]]
  BY DEF SetArchived
<1>2. \A h \in Handlers : f(h) \in BOOLEAN
  BY DEF Typed, TypeOK, Handler
<1> HIDE DEF f
<1>3. hand' \in [Handlers -> Handler] /\ BusyInv'
  BY <1>1, <1>2 DEF Typed, TypeOK, BusyInv, Handler
<1>4. conv' \in Conversation \cup {NoConv}
  BY DEF SetArchived, Exists, Typed, TypeOK, Conversation
<1>5. archives' \in 0..MaxArchives 
  BY InboxAssumption DEF SetArchived, Typed, TypeOK
<1>6. UNCHANGED <<id, saved, erased, emitted, req, leads, contacts, failures, crashes>>
  BY DEF SetArchived
<1> QED
  BY <1>3, <1>4, <1>5, <1>6 DEF Typed, TypeOK

LEMMA TypedQualify ==
  ASSUME Typed, NEW r \in Requests, Qualify(r)
  PROVE  Typed'
<1>0. /\ req \in [Requests -> Request] /\ id \in 0..MaxDeletes
      /\ leads \in [Requests -> LeadState] /\ contacts \in [Requests -> ContactState]
  BY DEF Typed, TypeOK
<1>1. CASE ReadConversation(r)
  <2>1. CASE req' = [req EXCEPT ![r] = [@ EXCEPT !.pc = "done", !.conv = id]]
    <3>1. req' \in [Requests -> Request]
      BY <1>0, <2>1 DEF Request, RequestPC
    <3>2. UNCHANGED <<conv, id, saved, erased, emitted, hand, leads, contacts, archives, failures, crashes>>
      BY <1>1 DEF ReadConversation
    <3> QED
      BY <3>1, <3>2 DEF Typed, TypeOK, BusyInv
  <2>2. CASE req' = [q \in Requests |->
                 IF q = r THEN [pc |-> "contact", conv |-> id, raced |-> InProgress # {}]
                 ELSE IF q \in InProgress THEN [req[q] EXCEPT !.raced = TRUE] ELSE req[q]]
    <3>1. req' \in [Requests -> Request]
      BY <1>0, <2>2 DEF Request, RequestPC
    <3>2. UNCHANGED <<conv, id, saved, erased, emitted, hand, leads, contacts, archives, failures, crashes>>
      BY <1>1 DEF ReadConversation
    <3> QED
      BY <3>1, <3>2 DEF Typed, TypeOK, BusyInv
  <2> QED
    BY <1>1, <2>1, <2>2 DEF ReadConversation
<1>2. CASE CreateContact(r)
  <2>1. req' \in [Requests -> Request]
    BY <1>0, <1>2 DEF CreateContact, Request, RequestPC
  <2>2. contacts' \in [Requests -> ContactState]
    BY <1>0, <1>2 DEF CreateContact, ContactState
  <2>3. UNCHANGED <<conv, id, saved, erased, emitted, hand, leads, archives, failures, crashes>>
    BY <1>2 DEF CreateContact
  <2> QED
    BY <2>1, <2>2, <2>3 DEF Typed, TypeOK, BusyInv
<1>3. CASE CreateLead(r)
  <2>1. req' \in [Requests -> Request]
    BY <1>0, <1>3 DEF CreateLead, Request, RequestPC
  <2>2. leads' \in [Requests -> LeadState]
    BY <1>0, <1>3 DEF CreateLead, LeadState
  <2>3. UNCHANGED <<conv, id, saved, erased, emitted, hand, contacts, archives, failures, crashes>>
    BY <1>3 DEF CreateLead
  <2> QED
    BY <2>1, <2>2, <2>3 DEF Typed, TypeOK, BusyInv
<1>4. CASE LinkLead(r)
  <2>1. req' \in [Requests -> Request]
    BY <1>0, <1>4 DEF LinkLead, Request, RequestPC
  <2>2. conv' \in Conversation \cup {NoConv}
    BY <1>4 DEF LinkLead, Current, Exists, Typed, TypeOK, Conversation
  <2>3. UNCHANGED <<id, saved, erased, emitted, hand, leads, contacts, archives, failures, crashes>>
    BY <1>4 DEF LinkLead
  <2> QED
    BY <2>1, <2>2, <2>3 DEF Typed, TypeOK, BusyInv
<1> QED
  BY <1>1, <1>2, <1>3, <1>4 DEF Qualify

\* The conversation and its messages after a deletion.
RowsTyped == /\ conv \in Conversation \cup {NoConv} /\ id \in 0..MaxDeletes
             /\ saved \subseteq Msgs /\ erased \subseteq Msgs

LEMMA TypedErase ==
  ASSUME Typed, Erase \/ UNCHANGED <<conv, id, erased, saved>>
  PROVE  RowsTyped'
BY InboxAssumption DEF Erase, Typed, TypeOK, RowsTyped

LEMMA TypedDropLead ==
  ASSUME Typed, NEW r \in Requests, DropLead(r)
  PROVE  RowsTyped' /\ leads' \in [Requests -> LeadState]
<1>1. RowsTyped'
  BY TypedErase DEF DropLead
<1>2. leads' \in [Requests -> LeadState]
  BY DEF DropLead, LeadState, Typed, TypeOK
<1> QED
  BY <1>1, <1>2

LEMMA TypedDelete ==
  ASSUME Typed, NEW r \in Requests, Delete(r)
  PROVE  Typed'
<1>0. leads \in [Requests -> LeadState] /\ contacts \in [Requests -> ContactState] /\ RowsTyped
  BY DEF Typed, TypeOK, RowsTyped
<1>1. UNCHANGED <<emitted, hand, req, archives, failures, crashes>>
  BY DEF Delete, TrashLead, RestoreLead, PurgeLead, RemoveContactLeads, RemoveContactConversation
<1>2. ASSUME NEW s \in {"live", "trashed"}, leads' = [leads EXCEPT ![r] = s],
             UNCHANGED <<conv, id, saved, erased, contacts>>
      PROVE  RowsTyped' /\ leads' \in [Requests -> LeadState] /\ contacts' \in [Requests -> ContactState]
  BY <1>0, <1>2 DEF RowsTyped, LeadState
<1>3. RowsTyped' /\ leads' \in [Requests -> LeadState] /\ contacts' \in [Requests -> ContactState]
  <2>1. CASE TrashLead(r)
    BY <1>2, <2>1 DEF TrashLead
  <2>2. CASE RestoreLead(r)
    BY <1>2, <2>2 DEF RestoreLead
  <2>3. CASE PurgeLead(r)
    BY <1>0, <2>3, TypedDropLead DEF PurgeLead
  <2>4. CASE RemoveContactLeads(r)
    <3>1. contacts' \in [Requests -> ContactState]
      BY <1>0, <2>4 DEF RemoveContactLeads, ContactState
    <3>2. RowsTyped' /\ leads' \in [Requests -> LeadState]
      BY <1>0, <2>4, TypedDropLead, TypedErase DEF RemoveContactLeads
    <3> QED
      BY <3>1, <3>2
  <2>5. CASE RemoveContactConversation(r)
    <3>1. contacts' \in [Requests -> ContactState]
      BY <1>0, <2>5 DEF RemoveContactConversation, ContactState
    <3>2. RowsTyped' /\ leads' \in [Requests -> LeadState]
      BY <1>0, <2>5, TypedErase DEF RemoveContactConversation
    <3> QED
      BY <3>1, <3>2
  <2> QED
    BY <2>1, <2>2, <2>3, <2>4, <2>5 DEF Delete
<1> QED
  BY <1>1, <1>3 DEF Typed, TypeOK, BusyInv, RowsTyped

LEMMA TypedCrash ==
  ASSUME Typed, Crash
  PROVE  Typed'
<1>1. hand' \in [Handlers -> Handler] /\ BusyInv'
  BY IdleType DEF Crash, BusyInv, Idle
<1>2. req' \in [Requests -> Request]
  BY DEF Crash, Request, RequestPC, Typed, TypeOK
<1>3. crashes' \in 0..MaxCrashes
  BY InboxAssumption DEF Crash, Typed, TypeOK
<1>4. UNCHANGED <<conv, id, saved, erased, emitted, leads, contacts, archives, failures>>
  BY DEF Crash
<1> QED
  BY <1>1, <1>2, <1>3, <1>4 DEF Typed, TypeOK

LEMMA NextTyped == Typed /\ [Next]_vars => Typed'
<1> SUFFICES ASSUME Typed, [Next]_vars PROVE Typed'
  OBVIOUS
<1>1. CASE Next
  BY <1>1, TypedHandlers, TypedOperators, TypedQualify, TypedDelete, TypedCrash DEF Next
<1>2. CASE UNCHANGED vars
  BY <1>2 DEF vars, Typed, TypeOK, BusyInv
<1> QED
  BY <1>1, <1>2

\* Every variable keeps its type, and a busy handler its message.
THEOREM AlwaysTyped == Spec => []Typed
<1> QED
  BY InitTyped, NextTyped, PTL DEF Spec

\* The type invariant, for any number of messages, handlers and requests.
THEOREM TypeSafe == Spec => []TypeOK
<1>1. Typed => TypeOK
  BY DEF Typed
<1> QED
  BY <1>1, AlwaysTyped, PTL

-----------------------------------------------------------------------------
\* A new message brings an archived conversation back.  A handler that goes to
\* its insert without an un-archiving, though the conversation is archived, was
\* overtaken by the operator; until it sits in "check" or "unarchive" nothing is
\* asked of it.
Passed(h) == hand[h].pc = "save" \/ (hand[h].pc = "name" /\ ~hand[h].archived)

Covered(h) == Archived /\ Current(hand[h].conv) /\ Passed(h) => hand[h].raced

RaceInv == \A h \in Handlers : Covered(h)

\* Covered survives a step that leaves the handler alone and archives nothing.
LEMMA CoveredKept ==
  ASSUME NEW h \in Handlers, Covered(h), hand'[h] = hand[h],
         Archived' => Archived /\ id' = id
  PROVE  Covered(h)'
BY DEF Covered, Passed, Current, Archived

LEMMA RaceHandlers ==
  ASSUME Typed, RaceInv, NEW h \in Handlers,
         Handle(h) \/ HandlerFails(h) \/ \E m \in Msgs : Emit(h, m)
  PROVE  RaceInv'
<1> SUFFICES ASSUME NEW g \in Handlers PROVE Covered(g)'
  BY DEF RaceInv
<1>1. id' = id
  BY DEF Handle, Upsert, Select, StoreName, CheckArchived, Unarchive, SaveInbound, HandlerFails, Emit
<1>2. hand \in [Handlers -> Handler] /\ Covered(g) /\ Covered(h)
  BY DEF Typed, TypeOK, RaceInv
<1>3. Exists => conv \in Conversation
  BY DEF Exists, Typed, TypeOK
<1>4. Archived' => Archived
  <2>1. CASE Upsert(h)
    <3>1. conv' = conv \/ \E named \in BOOLEAN : conv' = [lead |-> NoLead, archived |-> FALSE, named |-> named]
      BY <2>1 DEF Upsert
    <3> QED
      BY <3>1 DEF Archived, Exists
  <2>2. CASE StoreName(h)
    BY <1>3, <2>2 DEF StoreName, Current, Archived, Exists, Conversation
  <2>3. CASE Unarchive(h)
    BY <1>3, <2>3 DEF Unarchive, Current, Archived, Exists, Conversation
  <2>4. CASE conv' = conv
    BY <2>4 DEF Archived, Exists
  <2> QED
    BY <2>1, <2>2, <2>3, <2>4 DEF Handle, Select, CheckArchived, SaveInbound, HandlerFails, Emit
<1>5. CASE g # h
  <2>1. hand'[g] = hand[g]
    BY <1>2, <1>5 DEF Handle, Upsert, Select, StoreName, CheckArchived, Unarchive, SaveInbound, HandlerFails, Emit
  <2> QED
    BY <1>1, <1>2, <1>4, <2>1, CoveredKept
<1>6. CASE g = h
  <2> HIDE <1>6
  <2> SUFFICES Covered(h)'
    BY <1>6
  <2>1. ASSUME Upsert(h) \/ HandlerFails(h) \/ \E m \in Msgs : Emit(h, m) PROVE Covered(h)'
    <3>1. CASE Upsert(h)
      <4>1. hand'[h].pc = "select"
        BY <1>2, <3>1 DEF Upsert, Handler
      <4> QED
        BY <4>1 DEF Covered, Passed
    <3>2. CASE HandlerFails(h)
      <4>1. hand'[h].pc = "idle"
        BY <1>2, <3>2 DEF HandlerFails, Idle
      <4> QED
        BY <4>1 DEF Covered, Passed
    <3>3. CASE \E m \in Msgs : Emit(h, m)
      <4>1. PICK m \in Msgs : hand' = [hand EXCEPT ![h] = [Idle EXCEPT !.pc = "upsert", !.msg = m]]
        BY <3>3 DEF Emit
      <4>2. hand'[h].pc = "upsert"
        BY <1>2, <4>1 DEF Idle
      <4> QED
        BY <4>2 DEF Covered, Passed
    <3> QED
      BY <2>1, <3>1, <3>2, <3>3
  <2>2. CASE Select(h)
    <3>1. conv' = conv
      BY <2>2 DEF Select
    <3>2. CASE hand' = [hand EXCEPT ![h] = Idle]
      BY <1>2, <3>2 DEF Covered, Passed, Idle
    <3>3. CASE Exists /\ \E next \in {"name", "check", "save"} :
                 /\ next = "save" => ~conv.archived
                 /\ hand' = [hand EXCEPT ![h].pc = next, ![h].conv = id, ![h].archived = conv.archived]
      <4>1. hand'[h].archived = conv.archived /\ (hand'[h].pc = "save" => ~conv.archived)
        BY <1>2, <3>3 DEF Handler
      <4> QED
        BY <3>1, <4>1 DEF Covered, Passed, Archived, Exists
    <3> QED
      BY <2>2, <3>2, <3>3 DEF Select
  <2>3. CASE StoreName(h)
    <3>1. /\ hand'[h].conv = hand[h].conv /\ hand'[h].raced = hand[h].raced
          /\ hand'[h].archived = hand[h].archived
          /\ hand'[h].pc = IF hand[h].archived THEN "check" ELSE "save"
      BY <1>2, <2>3 DEF StoreName, Handler
    <3>2. hand[h].pc = "name"
      BY <2>3 DEF StoreName
    <3> QED
      BY <1>1, <1>2, <1>4, <3>1, <3>2 DEF Covered, Passed, Current, Archived
  <2>4. CASE CheckArchived(h)
    <3>1. hand'[h].conv = hand[h].conv
      BY <1>2, <2>4 DEF CheckArchived, Handler
    <3>2. hand'[h].pc = IF Current(hand[h].conv) /\ conv.archived THEN "unarchive" ELSE "save"
      BY <1>2, <2>4 DEF CheckArchived, Handler
    <3>3. conv' = conv
      BY <2>4 DEF CheckArchived
    <3> QED
      BY <1>1, <3>1, <3>2, <3>3 DEF Covered, Passed, Current, Archived, Exists
  <2>5. CASE Unarchive(h)
    <3>1. hand'[h].conv = hand[h].conv
      BY <1>2, <2>5 DEF Unarchive, Handler
    <3>2. CASE Current(hand[h].conv)
      <4>1. conv' = [conv EXCEPT !.archived = FALSE] /\ conv \in Conversation
        BY <1>3, <2>5, <3>2 DEF Unarchive, Current
      <4> QED
        BY <4>1 DEF Covered, Archived, Conversation
    <3>3. CASE ~Current(hand[h].conv)
      <4>1. conv' = conv
        BY <2>5, <3>3 DEF Unarchive
      <4> QED
        BY <1>1, <3>1, <3>3, <4>1 DEF Covered, Current, Exists
    <3> QED
      BY <3>2, <3>3
  <2>6. CASE SaveInbound(h)
    BY <1>2, <2>6 DEF SaveInbound, Covered, Passed, Idle
  <2> QED
    BY <2>1, <2>2, <2>3, <2>4, <2>5, <2>6 DEF Handle
<1> QED
  BY <1>5, <1>6

LEMMA RaceArchive ==
  ASSUME Typed, RaceInv, NEW archive \in BOOLEAN, SetArchived(archive)
  PROVE  RaceInv'
<1> SUFFICES ASSUME NEW h \in Handlers PROVE Covered(h)'
  BY DEF RaceInv
<1>1. /\ hand'[h].pc = hand[h].pc /\ hand'[h].archived = hand[h].archived
      /\ hand'[h].raced = (hand[h].raced \/ hand[h].pc = "save"
                               \/ (hand[h].pc = "name" /\ ~hand[h].archived))
  BY DEF SetArchived, Typed, TypeOK, Handler
<1> QED
  BY <1>1 DEF Covered, Passed

\* Qualifying leaves the archive flag alone, a deletion leaves no conversation.
LEMMA RaceOthers ==
  ASSUME Typed, RaceInv, NEW r \in Requests, Qualify(r) \/ Delete(r)
  PROVE  RaceInv'
<1> SUFFICES ASSUME NEW h \in Handlers PROVE Covered(h)'
  BY DEF RaceInv
<1>1. hand' = hand
  BY DEF Qualify, ReadConversation, CreateContact, CreateLead, LinkLead,
         Delete, TrashLead, RestoreLead, PurgeLead, RemoveContactLeads, RemoveContactConversation
<1>2. Archived' => Archived /\ id' = id
  <2>1. CASE conv' = conv /\ id' = id
    BY <2>1 DEF Archived, Exists
  <2>2. CASE Erase
    BY <2>2 DEF Erase, Archived, Exists
  <2>3. CASE LinkLead(r)
    BY <2>3 DEF LinkLead, Current, Archived, Exists, Typed, TypeOK, Conversation
  <2> QED
    BY <2>1, <2>2, <2>3 DEF Qualify, ReadConversation, CreateContact, CreateLead, Delete, TrashLead,
       RestoreLead, PurgeLead, RemoveContactLeads, RemoveContactConversation, DropLead
<1> QED
  BY <1>1, <1>2, CoveredKept DEF RaceInv

LEMMA RaceNext == Typed /\ RaceInv /\ [Next]_vars => RaceInv'
<1> SUFFICES ASSUME Typed, RaceInv, [Next]_vars PROVE RaceInv'
  OBVIOUS
<1>1. CASE Crash
  BY <1>1 DEF Crash, RaceInv, Covered, Passed, Idle
<1>2. CASE UNCHANGED vars
  BY <1>2 DEF vars, RaceInv, Covered, Passed, Archived, Current, Exists
<1> QED
  BY <1>1, <1>2, RaceHandlers, RaceArchive, RaceOthers DEF Next

\* The step that stores a message is that of a handler which passed.
LEMMA StoredByPassed ==
  ASSUME Typed, RaceInv, [Next]_vars, NEW h \in Handlers,
         hand[h].pc = "save", hand'[h].pc = "idle", saved' # saved, Archived
  PROVE  hand[h].raced
<1>1. hand' # hand
  BY DEF Typed, TypeOK
<1>2. PICK g \in Handlers : SaveInbound(g)
  <2>1. \E g \in Handlers : Handle(g)
    BY <1>1 DEF Next, vars, Emit, HandlerFails, SetArchived, Qualify, ReadConversation, CreateContact,
       CreateLead, LinkLead, Delete, TrashLead, RestoreLead, PurgeLead, RemoveContactLeads,
       RemoveContactConversation, Crash
  <2> QED
    BY <2>1 DEF Handle, Upsert, Select, StoreName, CheckArchived, Unarchive
<1>3. g = h
  <2>1. g # h => hand'[h] = hand[h]
    BY <1>2 DEF SaveInbound, Typed, TypeOK
  <2> QED
    BY <2>1
<1>4. Current(hand[h].conv)
  BY <1>2, <1>3 DEF SaveInbound
<1> QED
  BY <1>4 DEF RaceInv, Covered, Passed

\* NewMessageUnarchives, for any number of messages, handlers and operators:
\* only an operator's archiving during the handling hides a new message.
THEOREM NewMessageSafe == Spec => NewMessageUnarchives
<1>1. Init => RaceInv
  BY DEF Init, RaceInv, Covered, Archived, Exists
<1>2. Typed /\ RaceInv /\ [Next]_vars =>
        [\A h \in Handlers :
          hand[h].pc = "save" /\ hand'[h].pc = "idle" /\ saved' # saved /\ Archived
              => hand[h].raced]_vars
  BY StoredByPassed
<1>3. Spec => []RaceInv
  BY <1>1, AlwaysTyped, RaceNext, PTL DEF Spec
<1> QED
  BY <1>2, <1>3, AlwaysTyped, PTL DEF Spec, NewMessageUnarchives

-----------------------------------------------------------------------------
\* A qualify request that ran alone keeps its lead.  Requests in progress at the
\* same time know of each other (Alone); a conversation a request has read is
\* not the one that replaces it (Past); a lead exists from the third statement
\* on (Unborn); a linked lead can only be replaced by a request that overlapped
\* its own (Overtaken).
Alone(r, q) == r # q /\ r \in InProgress /\ q \in InProgress => req[r].raced

Past(r) == req[r].pc # "idle" => /\ req[r].conv <= id
                                 /\ ~Exists => req[r].conv < id

Unborn(r) == req[r].pc \in {"idle", "contact", "lead"} => leads[r] = "none"

Overtaken(r, q) == r # q /\ Exists /\ conv.lead = r /\ q \in InProgress /\ Current(req[q].conv)
                       => req[r].raced

Kept(r) == req[r].pc = "done" /\ leads[r] \in {"live", "trashed"} /\ Current(req[r].conv) /\ conv.lead # r
               => req[r].raced \/ crashes > 0

QualInv == /\ \A r, q \in Requests : Alone(r, q) /\ Overtaken(r, q)
           /\ \A r \in Requests : Past(r) /\ Unborn(r) /\ Kept(r)

\* A handler or the archive button leaves the lead of the conversation alone,
\* or creates a conversation without one.
LEMMA LeadUntouched ==
  ASSUME Typed, QualInv,
         UNCHANGED <<id, req, leads, crashes>>,
         \/ Exists' = Exists /\ (Exists => conv'.lead = conv.lead)
         \/ ~Exists /\ conv'.lead = NoLead
  PROVE  QualInv'
<1>1. \A r \in Requests : Unborn(r)'
  BY DEF QualInv, Unborn
<1>2. \A r, q \in Requests : Alone(r, q)'
  BY DEF QualInv, Alone, InProgress
<1>3. CASE Exists' = Exists /\ (Exists => conv'.lead = conv.lead)
  <2>1. \A r \in Requests : Past(r)' /\ Kept(r)'
    BY <1>3 DEF QualInv, Past, Kept, Current
  <2>2. \A r, q \in Requests : Overtaken(r, q)'
    BY <1>3 DEF QualInv, Overtaken, Current, InProgress
  <2> QED
    BY <1>1, <1>2, <2>1, <2>2 DEF QualInv
<1>4. CASE ~Exists /\ conv'.lead = NoLead
  <2>1. \A r \in Requests : req[r].pc # "idle" => req[r].conv < id
    BY <1>4 DEF QualInv, Past
  <2>2. id \in Nat /\ \A r \in Requests : req[r].conv \in Nat
    BY InboxAssumption DEF Typed, TypeOK, Request
  <2>3. \A r \in Requests : Past(r)' /\ Kept(r)'
    BY <2>1, <2>2 DEF Past, Kept, Current
  <2>4. \A r, q \in Requests : Overtaken(r, q)'
    BY <1>4, InboxAssumption DEF Overtaken
  <2> QED
    BY <1>1, <1>2, <2>3, <2>4 DEF QualInv
<1> QED
  BY <1>3, <1>4

LEMMA QualHandlers ==
  ASSUME Typed, QualInv, NEW h \in Handlers,
         Handle(h) \/ HandlerFails(h) \/ \E m \in Msgs : Emit(h, m)
  PROVE  QualInv'
<1>1. UNCHANGED <<id, req, leads, crashes>>
  BY DEF Handle, Upsert, Select, StoreName, CheckArchived, Unarchive, SaveInbound, HandlerFails, Emit
<1>2. \/ Exists' = Exists /\ (Exists => conv'.lead = conv.lead)
      \/ ~Exists /\ conv'.lead = NoLead
  <2>1. CASE conv' = conv
    BY <2>1 DEF Exists
  <2>2. CASE Upsert(h)
    <3>1. CASE Exists
      BY <2>1, <2>2, <3>1 DEF Upsert
    <3>2. CASE ~Exists
      <4>1. PICK named \in BOOLEAN : conv' = [lead |-> NoLead, archived |-> FALSE, named |-> named]
        BY <2>2, <3>2 DEF Upsert
      <4> QED
        BY <3>2, <4>1
    <3> QED
      BY <3>1, <3>2
  <2>3. CASE StoreName(h) \/ Unarchive(h)
    <3>1. \/ conv' = conv
          \/ /\ Exists
             /\ conv' = [conv EXCEPT !.named = TRUE] \/ conv' = [conv EXCEPT !.archived = FALSE]
      <4>1. \/ conv' = IF Current(hand[h].conv) THEN [conv EXCEPT !.named = TRUE] ELSE conv
            \/ conv' = IF Current(hand[h].conv) THEN [conv EXCEPT !.archived = FALSE] ELSE conv
        BY <2>3 DEF StoreName, Unarchive
      <4>2. Current(hand[h].conv) => Exists
        BY DEF Current
      <4>3. CASE Current(hand[h].conv)
        BY <4>1, <4>2, <4>3
      <4>4. CASE ~Current(hand[h].conv)
        BY <4>1, <4>4
      <4> QED
        BY <4>3, <4>4
    <3>2. CASE Exists /\ (conv' = [conv EXCEPT !.named = TRUE] \/ conv' = [conv EXCEPT !.archived = FALSE])
      <4>1. conv' \in Conversation /\ conv'.lead = conv.lead
        BY <3>2 DEF Exists, Typed, TypeOK, Conversation
      <4> QED
        BY <3>2, <4>1, NoConvAssumption DEF Exists
    <3> QED
      BY <2>1, <3>1, <3>2
  <2> QED
    BY <2>1, <2>2, <2>3 DEF Handle, Select, CheckArchived, SaveInbound, HandlerFails, Emit
<1> QED
  BY <1>1, <1>2, LeadUntouched

LEMMA QualArchive ==
  ASSUME Typed, QualInv, NEW archive \in BOOLEAN, SetArchived(archive)
  PROVE  QualInv'
<1>1. UNCHANGED <<id, req, leads, crashes>>
  BY DEF SetArchived
<1>2. conv' \in Conversation /\ conv'.lead = conv.lead /\ Exists
  BY DEF SetArchived, Exists, Typed, TypeOK, Conversation
<1>3. Exists' = Exists
  BY <1>2, NoConvAssumption DEF Exists
<1> QED
  BY <1>1, <1>2, <1>3, LeadUntouched

LEMMA QualRead ==
  ASSUME Typed, QualInv, NEW r \in Requests, ReadConversation(r)
  PROVE  QualInv'
<1>1. /\ req \in [Requests -> Request] /\ id \in Nat /\ leads[r] = "none"
      /\ req[r].pc = "idle" /\ Exists
  BY InboxAssumption DEF ReadConversation, Typed, TypeOK, QualInv, Unborn
<1>2. UNCHANGED <<conv, id, leads, crashes>>
  BY DEF ReadConversation
<1>3. CASE conv.lead # NoLead /\ req' = [req EXCEPT ![r] = [@ EXCEPT !.pc = "done", !.conv = id]]
  <2>1. req'[r].pc = "done" /\ req'[r].conv = id /\ \A q \in Requests \ {r} : req'[q] = req[q]
    BY <1>1, <1>3 DEF Request
  <2>2. InProgress' \subseteq InProgress /\ r \notin InProgress'
    BY <2>1 DEF InProgress
  <2>3. \A q \in Requests : Past(q)' /\ Unborn(q)' /\ Kept(q)'
    BY <1>1, <1>2, <2>1 DEF QualInv, Past, Unborn, Kept, Exists, Current
  <2>4. \A p, q \in Requests : Alone(p, q)'
    BY <2>1, <2>2 DEF QualInv, Alone
  <2>5. \A p, q \in Requests : Overtaken(p, q)'
    <3>1. SUFFICES ASSUME NEW p \in Requests, NEW q \in Requests,
                          p # q, Exists, conv.lead = p, q \in InProgress', Current(req'[q].conv)
                   PROVE  req'[p].raced
      BY <1>2 DEF Overtaken, Exists, Current
    <3>2. q # r /\ q \in InProgress /\ Current(req[q].conv)
      BY <2>1, <2>2, <3>1
    <3>3. req'[p].raced = req[p].raced
      BY <1>1, <1>3 DEF Request
    <3> QED
      BY <3>1, <3>2, <3>3 DEF QualInv, Overtaken
  <2> QED
    BY <2>3, <2>4, <2>5 DEF QualInv
<1>4. CASE /\ conv.lead = NoLead
           /\ req' = [q \in Requests |->
                 IF q = r THEN [pc |-> "contact", conv |-> id, raced |-> InProgress # {}]
                 ELSE IF q \in InProgress THEN [req[q] EXCEPT !.raced = TRUE] ELSE req[q]]
  <2>1. req'[r].pc = "contact" /\ req'[r].conv = id /\ req'[r].raced = (InProgress # {})
    <3>1. req'[r] = [pc |-> "contact", conv |-> id, raced |-> InProgress # {}]
      BY <1>4
    <3> QED
      BY <3>1
  <2>2. \A q \in Requests \ {r} : /\ req'[q].pc = req[q].pc /\ req'[q].conv = req[q].conv
                                  /\ req[q].raced \/ q \in InProgress => req'[q].raced
    <3> SUFFICES ASSUME NEW q \in Requests \ {r}
                 PROVE  /\ req'[q].pc = req[q].pc /\ req'[q].conv = req[q].conv
                        /\ req[q].raced \/ q \in InProgress => req'[q].raced
      OBVIOUS
    <3>1. CASE q \in InProgress
      <4>1. req'[q] = [req[q] EXCEPT !.raced = TRUE] /\ req[q] \in Request
        BY <1>1, <1>4, <3>1
      <4> QED
        BY <4>1 DEF Request
    <3>2. CASE q \notin InProgress
      <4>1. req'[q] = req[q]
        BY <1>4, <3>2
      <4> QED
        BY <3>2, <4>1
    <3> QED
      BY <3>1, <3>2
  <2>3. \A q \in Requests : Past(q)' /\ Unborn(q)' /\ Kept(q)'
    BY <1>1, <1>2, <2>1, <2>2 DEF QualInv, Past, Unborn, Kept, Exists, Current
  <2>4. \A q \in Requests \ {r} : q \in InProgress' => q \in InProgress
    BY <2>2 DEF InProgress
  <2>5. \A p, q \in Requests : Alone(p, q)'
    <3>1. SUFFICES ASSUME NEW p \in Requests, NEW q \in Requests,
                          p # q, p \in InProgress', q \in InProgress'
                   PROVE  req'[p].raced
      BY DEF Alone
    <3>2. CASE p = r
      BY <2>1, <2>4, <3>1, <3>2
    <3>3. CASE p # r
      BY <2>2, <2>4, <3>1, <3>3
    <3> QED
      BY <3>2, <3>3
  <2>6. \A p, q \in Requests : Overtaken(p, q)'
    BY <1>2, <1>4, InboxAssumption DEF Overtaken, Exists
  <2> QED
    BY <2>3, <2>5, <2>6 DEF QualInv
<1> QED
  BY <1>3, <1>4 DEF ReadConversation

\* A statement of a request in progress that moves nothing but the request and
\* what it created.
LEMMA QualAdvance ==
  ASSUME Typed, QualInv, NEW r \in Requests, NEW pc \in {"lead", "link", "done"},
         req[r].pc # "idle", r \in InProgress, req' = [req EXCEPT ![r].pc = pc],
         UNCHANGED <<conv, id, crashes>>,
         \A q \in Requests \ {r} : leads'[q] = leads[q],
         Unborn(r)', pc = "done" => leads'[r] = "none"
  PROVE  QualInv'
<1>1. /\ req'[r].pc = pc /\ req'[r].conv = req[r].conv /\ req'[r].raced = req[r].raced
      /\ \A q \in Requests \ {r} : req'[q] = req[q]
  BY DEF Typed, TypeOK, Request
<1>2. InProgress' \subseteq InProgress
  BY <1>1 DEF InProgress
<1>3. \A q \in Requests : Past(q)' /\ Unborn(q)' /\ Kept(q)'
  BY <1>1 DEF QualInv, Past, Unborn, Kept, Exists, Current
<1>4. \A p, q \in Requests : Alone(p, q)'
  BY <1>1, <1>2 DEF QualInv, Alone
<1>5. \A p, q \in Requests : Overtaken(p, q)'
  BY <1>1, <1>2 DEF QualInv, Overtaken, Exists, Current
<1> QED
  BY <1>3, <1>4, <1>5 DEF QualInv

LEMMA QualLink ==
  ASSUME Typed, QualInv, NEW r \in Requests, LinkLead(r)
  PROVE  QualInv'
<1>1. /\ req'[r].pc = "done" /\ req'[r].conv = req[r].conv /\ req'[r].raced = req[r].raced
      /\ \A q \in Requests \ {r} : req'[q] = req[q]
  BY DEF LinkLead, Typed, TypeOK, Request
<1>2. InProgress' \subseteq InProgress /\ r \in InProgress /\ r \notin InProgress'
  BY <1>1 DEF InProgress, LinkLead
<1>3. UNCHANGED <<id, leads, crashes>>
  BY DEF LinkLead
<1>4. \A p, q \in Requests : Alone(p, q)'
  BY <1>1, <1>2 DEF QualInv, Alone
<1>5. \A q \in Requests : Unborn(q)'
  BY <1>1, <1>3 DEF QualInv, Unborn
<1>6. CASE Current(req[r].conv) /\ leads[r] # "gone"
  <2>1. conv' = [conv EXCEPT !.lead = r]
    BY <1>6 DEF LinkLead
  <2>2. conv' \in Conversation /\ conv'.lead = r /\ Exists
    BY <1>6, <2>1 DEF Current, Exists, Typed, TypeOK, Conversation
  <2>3. Exists'
    BY <2>2, NoConvAssumption DEF Exists
  <2>4. \A q \in Requests : Past(q)'
    BY <1>1, <1>3, <2>2, <2>3, <1>2 DEF QualInv, Past, InProgress
  <2>5. \A q \in Requests : Kept(q)'
    <3>1. SUFFICES ASSUME NEW q \in Requests, q # r, req[q].pc = "done",
                          leads[q] \in {"live", "trashed"}, Current(req[q].conv)
                   PROVE  req[q].raced \/ crashes > 0
      BY <1>1, <1>3, <2>2 DEF Kept, Current
    <3>2. CASE conv.lead = q
      BY <1>2, <1>6, <2>2, <3>1, <3>2 DEF QualInv, Overtaken
    <3>3. CASE conv.lead # q
      BY <3>1, <3>3 DEF QualInv, Kept
    <3> QED
      BY <3>2, <3>3
  <2>6. \A p, q \in Requests : Overtaken(p, q)'
    <3>1. SUFFICES ASSUME NEW q \in Requests, q # r, q \in InProgress'
                   PROVE  req[r].raced
      BY <1>1, <2>2 DEF Overtaken
    <3> QED
      BY <1>2, <3>1 DEF QualInv, Alone
  <2> QED
    BY <1>4, <1>5, <2>4, <2>5, <2>6 DEF QualInv
<1>7. CASE ~(Current(req[r].conv) /\ leads[r] # "gone")
  <2>1. conv' = conv
    BY <1>7 DEF LinkLead
  <2>2. \A q \in Requests : Past(q)'
    BY <1>1, <1>2, <1>3, <2>1 DEF QualInv, Past, Exists, InProgress
  <2>3. \A q \in Requests : Kept(q)'
    BY <1>1, <1>3, <1>7, <2>1 DEF QualInv, Kept, Current, Exists
  <2>4. \A p, q \in Requests : Overtaken(p, q)'
    BY <1>1, <1>2, <1>3, <2>1 DEF QualInv, Overtaken, Exists, Current
  <2> QED
    BY <1>4, <1>5, <2>2, <2>3, <2>4 DEF QualInv
<1> QED
  BY <1>6, <1>7

LEMMA QualQualify ==
  ASSUME Typed, QualInv, NEW r \in Requests, Qualify(r)
  PROVE  QualInv'
<1>1. CASE CreateContact(r)
  <2>1. Unborn(r)'
    BY <1>1 DEF CreateContact, QualInv, Unborn
  <2>2. r \in InProgress
    BY <1>1 DEF CreateContact, InProgress
  <2> QED
    BY <1>1, <2>1, <2>2, QualAdvance DEF CreateContact
<1>2. CASE CreateLead(r)
  <2>1. leads[r] = "none" /\ r \in InProgress /\ req[r].pc = "lead"
    BY <1>2 DEF CreateLead, QualInv, Unborn, InProgress
  <2>2. CASE req' = [req EXCEPT ![r].pc = "done"] /\ UNCHANGED leads
    BY <1>2, <2>1, <2>2, QualAdvance DEF CreateLead, Unborn
  <2>3. CASE req' = [req EXCEPT ![r].pc = "link"] /\ leads' = [leads EXCEPT ![r] = "live"]
    <3>1. req'[r].pc = "link" /\ \A q \in Requests \ {r} : leads'[q] = leads[q]
      BY <2>3 DEF Typed, TypeOK, Request
    <3> QED
      BY <1>2, <2>1, <2>3, <3>1, QualAdvance DEF CreateLead, Unborn
  <2> QED
    BY <1>2, <2>2, <2>3 DEF CreateLead
<1> QED
  BY <1>1, <1>2, QualRead, QualLink DEF Qualify

\* A deletion of the conversation: what was read of it is past.
LEMMA QualErase ==
  ASSUME Typed, QualInv, Erase, UNCHANGED <<req, crashes>>,
         \A r \in Requests : leads[r] = "none" => leads'[r] = "none"
  PROVE  QualInv'
<1>1. id \in Nat /\ id' = id + 1 /\ ~Exists' /\ \A r \in Requests : req[r].conv \in Nat
  BY InboxAssumption DEF Erase, Exists, Typed, TypeOK, Request
<1>2. \A r \in Requests : Past(r)' /\ Unborn(r)' /\ Kept(r)'
  BY <1>1 DEF QualInv, Past, Unborn, Kept, Current
<1>3. \A r, q \in Requests : Alone(r, q)' /\ Overtaken(r, q)'
  BY <1>1 DEF QualInv, Alone, Overtaken, InProgress
<1> QED
  BY <1>2, <1>3 DEF QualInv

\* A lead that changes its state without its conversation.
LEMMA QualLeadState ==
  ASSUME Typed, QualInv, UNCHANGED <<conv, id, req, crashes>>,
         \A r \in Requests : /\ leads[r] = "none" => leads'[r] = "none"
                             /\ leads'[r] \in {"live", "trashed"} => leads[r] \in {"live", "trashed"}
  PROVE  QualInv'
<1>1. \A r \in Requests : Past(r)' /\ Unborn(r)' /\ Kept(r)'
  BY DEF QualInv, Past, Unborn, Kept, Current, Exists
<1>2. \A r, q \in Requests : Alone(r, q)' /\ Overtaken(r, q)'
  BY DEF QualInv, Alone, Overtaken, InProgress, Current, Exists
<1> QED
  BY <1>1, <1>2 DEF QualInv

LEMMA QualDelete ==
  ASSUME Typed, QualInv, NEW r \in Requests, Delete(r)
  PROVE  QualInv'
<1>1. leads \in [Requests -> LeadState] /\ UNCHANGED <<req, crashes>>
  BY DEF Typed, TypeOK, Delete, TrashLead, RestoreLead, PurgeLead, RemoveContactLeads, RemoveContactConversation
<1>2. \A q \in Requests : /\ leads[q] = "none" => leads'[q] = "none"
                          /\ leads'[q] \in {"live", "trashed"} => leads[q] \in {"live", "trashed"}
  BY <1>1 DEF Delete, TrashLead, RestoreLead, PurgeLead, RemoveContactLeads, RemoveContactConversation, DropLead
<1>3. Erase \/ UNCHANGED <<conv, id>>
  BY DEF Delete, TrashLead, RestoreLead, PurgeLead, RemoveContactLeads, RemoveContactConversation, DropLead
<1> QED
  BY <1>1, <1>2, <1>3, QualErase, QualLeadState

LEMMA QualCrash ==
  ASSUME Typed, QualInv, Crash
  PROVE  QualInv'
<1>1. \A r \in Requests : /\ req'[r].conv = req[r].conv /\ req'[r].raced = req[r].raced
                          /\ req'[r].pc = IF r \in InProgress THEN "done" ELSE req[r].pc
  BY DEF Crash, Typed, TypeOK, Request
<1>2. InProgress' = {}
  BY <1>1 DEF InProgress
<1>3. crashes' > 0 /\ UNCHANGED <<conv, id, leads>>
  BY InboxAssumption DEF Crash, Typed, TypeOK
<1>4. \A r \in Requests : Past(r)' /\ Unborn(r)' /\ Kept(r)'
  BY <1>1, <1>3 DEF QualInv, Past, Unborn, Kept, Exists, InProgress
<1>5. \A r, q \in Requests : Alone(r, q)' /\ Overtaken(r, q)'
  BY <1>2 DEF Alone, Overtaken
<1> QED
  BY <1>4, <1>5 DEF QualInv

LEMMA QualNext == Typed /\ QualInv /\ [Next]_vars => QualInv'
<1> SUFFICES ASSUME Typed, QualInv, [Next]_vars PROVE QualInv'
  OBVIOUS
<1>1. CASE UNCHANGED vars
  BY <1>1 DEF vars, QualInv, Alone, Overtaken, Past, Unborn, Kept, InProgress, Current, Exists
<1> QED
  BY <1>1, QualHandlers, QualArchive, QualQualify, QualDelete, QualCrash DEF Next

\* OrphanExplained, for any number of requests: a lead that a qualify request
\* created is its conversation's, or the request had company, or the server died.
THEOREM OrphansExplained == Spec => []OrphanExplained
<1>1. Init => QualInv
  BY DEF Init, QualInv, Alone, Overtaken, Past, Unborn, Kept, InProgress, Exists
<1>2. QualInv => OrphanExplained
  BY DEF QualInv, Kept, OrphanExplained
<1> QED
  BY <1>1, <1>2, AlwaysTyped, QualNext, PTL DEF Spec

-----------------------------------------------------------------------------
\* What a fault and a deletion cost.  A handler carries its message to the table
\* as long as the conversation that it read is the one in the table, or it has
\* yet to read one; a message that was emitted and that no handler carries is
\* doomed.  Lost itself is not inductive: after a deletion the handlers still
\* hold the messages they can no longer store.

Carries(h, m) == /\ hand[h].msg = m
                 /\ \/ hand[h].pc = "upsert"
                    \/ hand[h].pc = "select" /\ Exists
                    \/ /\ hand[h].pc \in {"name", "check", "unarchive", "save"}
                       /\ Current(hand[h].conv)

Doomed == {m \in Msgs : /\ emitted[m] > 0
                        /\ m \notin saved \cup erased
                        /\ \A h \in Handlers : ~Carries(h, m)}

LossInv == Cardinality(Doomed) <= failures + Cardinality(Handlers) * (crashes + id)

\* The messages the handlers hold.
Held == {m \in Msgs : \E h \in Handlers : hand[h].msg = m}

LEMMA DoomedFinite ==
  /\ IsFiniteSet(Doomed) /\ Cardinality(Doomed) \in Nat
  /\ IsFiniteSet(Doomed') /\ Cardinality(Doomed') \in Nat
<1>1. Doomed \subseteq Msgs /\ Doomed' \subseteq Msgs
  BY DEF Doomed
<1> QED
  BY <1>1, InboxAssumption, FS_Subset, FS_CardinalityType

LEMMA HeldFinite == IsFiniteSet(Held) /\ Cardinality(Held) <= Cardinality(Handlers)
<1> DEFINE B == {h \in Handlers : hand[h].msg \in Msgs}
           f == [h \in B |-> hand[h].msg]
<1>1. IsFiniteSet(B) /\ Cardinality(B) <= Cardinality(Handlers)
  BY InboxAssumption, FS_Subset
<1>2. f \in Surjection(B, Held)
  BY DEF Held, Surjection
<1>3. IsFiniteSet(Held) /\ Cardinality(Held) <= Cardinality(B)
  BY <1>1, <1>2, FS_Surjection
<1>4. /\ Cardinality(Held) \in Nat /\ Cardinality(B) \in Nat /\ Cardinality(Handlers) \in Nat
  BY <1>1, <1>3, InboxAssumption, FS_CardinalityType
<1> QED
  BY <1>1, <1>3, <1>4

\* The bound one fault later.
LEMMA MoreFaults ==
  ASSUME NEW n \in Nat, NEW x \in Nat
  PROVE  n * (x + 1) = n * x + n /\ n * x \in Nat
OBVIOUS

LEMMA LossTypes ==
  ASSUME Typed
  PROVE  failures \in Nat /\ crashes \in Nat /\ id \in Nat /\ Cardinality(Handlers) \in Nat
<1>1. failures \in Nat /\ crashes \in Nat /\ id \in Nat
  BY InboxAssumption DEF Typed, TypeOK
<1> QED
  BY <1>1, InboxAssumption, FS_CardinalityType

\* A step that dooms no message.
LEMMA NoneDoomed ==
  ASSUME Typed, LossInv, Doomed' \subseteq Doomed, UNCHANGED <<failures, crashes, id>>
  PROVE  LossInv'
<1>1. Cardinality(Doomed') <= Cardinality(Doomed)
  BY DoomedFinite, FS_Subset
<1>2. Cardinality(Handlers) * (crashes + id) \in Nat
  BY LossTypes
<1> HIDE DEF Doomed
<1> DEFINE bound == Cardinality(Handlers) * (crashes + id)
<1>3. Cardinality(Doomed) <= failures + bound /\ bound \in Nat
  BY <1>2 DEF LossInv
<1>4. Cardinality(Doomed') <= failures' + Cardinality(Handlers) * (crashes' + id')
  <2> HIDE DEF bound
  <2>1. Cardinality(Doomed') <= failures + bound
    BY <1>1, <1>3, DoomedFinite, LossTypes
  <2> QED
    BY <2>1 DEF bound
<1> QED
  BY <1>4 DEF LossInv

\* A failing statement dooms the message of its handler.
LEMMA OneDoomed ==
  ASSUME Typed, LossInv, NEW m, Doomed' \subseteq Doomed \cup {m},
         failures' = failures + 1, UNCHANGED <<crashes, id>>
  PROVE  LossInv'
<1> DEFINE bound == Cardinality(Handlers) * (crashes + id)
<1>1. bound \in Nat /\ failures \in Nat
  BY LossTypes
<1>2. Cardinality(Doomed) <= failures + bound
  BY DEF LossInv
<1> HIDE DEF bound
<1>3. IsFiniteSet(Doomed \cup {m}) /\ Cardinality(Doomed \cup {m}) <= Cardinality(Doomed) + 1
  <2>1. CASE m \in Doomed
    <3>1. Doomed \cup {m} = Doomed
      BY <2>1
    <3> QED
      BY <3>1, DoomedFinite
  <2>2. CASE m \notin Doomed
    <3>1. IsFiniteSet(Doomed \cup {m}) /\ Cardinality(Doomed \cup {m}) = Cardinality(Doomed) + 1
      BY <2>2, DoomedFinite, FS_AddElement
    <3> QED
      BY <3>1, DoomedFinite
  <2> QED
    BY <2>1, <2>2
<1>4. Cardinality(Doomed') <= Cardinality(Doomed \cup {m}) /\ Cardinality(Doomed \cup {m}) \in Nat
  BY <1>3, FS_Subset, FS_CardinalityType
<1>5. Cardinality(Doomed') <= failures' + bound
  BY <1>1, <1>2, <1>3, <1>4, DoomedFinite
<1> QED
  BY <1>5 DEF LossInv, bound

\* A restart or a deletion dooms at most what the handlers hold.
LEMMA HeldDoomed ==
  ASSUME Typed, LossInv, Doomed' \subseteq Doomed \cup Held,
         failures' = failures, crashes' + id' = crashes + id + 1
  PROVE  LossInv'
<1> DEFINE n == Cardinality(Handlers)
           x == crashes + id
<1>1. n \in Nat /\ x \in Nat /\ failures \in Nat
  BY LossTypes
<1>2. Cardinality(Doomed) <= failures + n * x
  BY DEF LossInv
<1>3. /\ IsFiniteSet(Doomed \cup Held)
      /\ Cardinality(Doomed \cup Held) <= Cardinality(Doomed) + Cardinality(Held)
  <2>1. /\ IsFiniteSet(Doomed \cup Held)
        /\ Cardinality(Doomed \cup Held)
              = Cardinality(Doomed) + Cardinality(Held) - Cardinality(Doomed \cap Held)
    BY DoomedFinite, HeldFinite, FS_Union
  <2>2. IsFiniteSet(Doomed \cap Held)
    BY DoomedFinite, FS_Intersection
  <2>3. Cardinality(Doomed \cap Held) \in Nat /\ Cardinality(Held) \in Nat
    BY <2>2, HeldFinite, FS_CardinalityType
  <2> QED
    BY <2>1, <2>3, DoomedFinite
<1>4. Cardinality(Doomed') <= Cardinality(Doomed \cup Held)
  BY <1>3, FS_Subset
<1>5. Cardinality(Doomed \cup Held) \in Nat /\ Cardinality(Held) \in Nat
  BY <1>3, HeldFinite, FS_CardinalityType
<1>6. Cardinality(Held) <= n
  BY HeldFinite
<1>7. crashes' + id' = x + 1
  OBVIOUS
<1> HIDE DEF n, x
<1>8. n * (x + 1) = n * x + n /\ n * x \in Nat
  BY <1>1, MoreFaults
<1> DEFINE nx == n * x
<1>9. nx \in Nat /\ Cardinality(Doomed) <= failures + nx /\ n * (x + 1) = nx + n
  BY <1>2, <1>8
<1> HIDE DEF nx
<1>10. Cardinality(Doomed') <= failures + (nx + n)
  BY <1>1, <1>3, <1>4, <1>5, <1>6, <1>9, DoomedFinite
<1> QED
  BY <1>7, <1>9, <1>10 DEF LossInv, n

LEMMA InitLoss == Init => LossInv
<1> SUFFICES ASSUME Init PROVE LossInv
  OBVIOUS
<1>1. Doomed = {}
  BY DEF Init, Doomed
<1>2. Cardinality(Handlers) * 0 = 0
  BY InboxAssumption, FS_CardinalityType
<1> QED
  BY <1>1, <1>2, FS_EmptySet DEF Init, LossInv

\* A step of one handler, and of no other, that keeps the rows it found.
LEMMA LossHandlers ==
  ASSUME Typed, LossInv, NEW h \in Handlers,
         Handle(h) \/ HandlerFails(h) \/ \E m \in Msgs : Emit(h, m)
  PROVE  LossInv'
<1>1. /\ hand \in [Handlers -> Handler]
      /\ id' = id /\ erased' = erased /\ crashes' = crashes
      /\ \A g \in Handlers \ {h} : hand'[g] = hand[g]
  BY DEF Typed, TypeOK, Handle, Upsert, Select, StoreName, CheckArchived, Unarchive,
         SaveInbound, HandlerFails, Emit
<1>2. Exists => Exists'
  <2>1. CASE conv' = conv
    BY <2>1 DEF Exists
  <2>2. CASE Upsert(h)
    BY <2>1, <2>2 DEF Upsert
  <2>3. CASE StoreName(h) \/ Unarchive(h)
    <3>1. SUFFICES ASSUME Exists, conv' # conv PROVE conv' \in Conversation
      BY <2>1, NoConvAssumption DEF Exists
    <3>2. conv \in Conversation
      BY <3>1 DEF Exists, Typed, TypeOK
    <3>3. conv' = [conv EXCEPT !.named = TRUE] \/ conv' = [conv EXCEPT !.archived = FALSE]
      BY <2>3, <3>1 DEF StoreName, Unarchive
    <3> QED
      BY <3>2, <3>3 DEF Conversation
  <2> QED
    BY <2>1, <2>2, <2>3 DEF Handle, Select, CheckArchived, SaveInbound, HandlerFails, Emit
<1>3. \A g \in Handlers \ {h}, m \in Msgs : Carries(g, m) => Carries(g, m)'
  BY <1>1, <1>2 DEF Carries, Current
<1>4. ASSUME NEW m0 \in Msgs, Emit(h, m0) PROVE LossInv'
  <2>1. /\ hand'[h].pc = "upsert" /\ hand'[h].msg = m0 /\ hand[h].pc = "idle"
        /\ \A m \in Msgs \ {m0} : emitted'[m] = emitted[m]
        /\ saved' = saved /\ failures' = failures
    BY <1>1, <1>4 DEF Emit, Idle, Typed, TypeOK
  <2>2. \A m \in Msgs : m = m0 => Carries(h, m)'
    BY <2>1 DEF Carries
  <2>3. \A m \in Msgs : ~Carries(h, m)
    BY <2>1 DEF Carries
  <2>4. Doomed' \subseteq Doomed
    BY <1>1, <1>3, <2>1, <2>2, <2>3 DEF Doomed
  <2> QED
    BY <1>1, <2>1, <2>4, NoneDoomed
<1>5. CASE HandlerFails(h)
  <2> DEFINE m0 == hand[h].msg
  <2>1. failures' = failures + 1 /\ UNCHANGED <<saved, emitted>>
    BY <1>5 DEF HandlerFails
  <2>2. \A m \in Msgs : Carries(h, m) => m = m0
    BY DEF Carries
  <2> HIDE DEF m0
  <2>3. Doomed' \subseteq Doomed \cup {m0}
    BY <1>1, <1>3, <2>1, <2>2 DEF Doomed
  <2> QED
    BY <1>1, <2>1, <2>3, OneDoomed
<1>6. CASE Handle(h)
  <2>1. UNCHANGED <<emitted, failures>> /\ saved \subseteq saved'
    BY <1>6 DEF Handle, Upsert, Select, StoreName, CheckArchived, Unarchive, SaveInbound
  <2>2. \A m \in Msgs : Carries(h, m) => Carries(h, m)' \/ m \in saved'
    <3>1. CASE Upsert(h)
      <4>1. hand'[h].pc = "select" /\ hand'[h].msg = hand[h].msg
        BY <1>1, <3>1 DEF Upsert, Handler
      <4>2. Exists'
        <5>1. CASE Exists
          BY <1>2, <5>1
        <5>2. CASE ~Exists
          <6>1. \E named \in BOOLEAN : conv' = [lead |-> NoLead, archived |-> FALSE, named |-> named]
            BY <3>1, <5>2 DEF Upsert
          <6>2. conv' \in Conversation
            BY <6>1 DEF Conversation
          <6> QED
            BY <6>2, NoConvAssumption DEF Exists
        <5> QED
          BY <5>1, <5>2
      <4> QED
        BY <4>1, <4>2 DEF Carries
    <3>2. CASE Select(h)
      <4>1. CASE ~Exists
        BY <3>2, <4>1 DEF Select, Carries
      <4>2. CASE Exists
        <5>1. /\ hand'[h].pc \in {"name", "check", "save"} /\ hand'[h].conv = id
              /\ hand'[h].msg = hand[h].msg
          BY <1>1, <3>2, <4>2 DEF Select, Handler
        <5>2. Current(hand[h].conv)' <=> hand'[h].conv = id
          BY <1>1, <1>2, <4>2 DEF Current
        <5> QED
          BY <5>1, <5>2 DEF Carries
      <4> QED
        BY <4>1, <4>2
    <3>3. CASE StoreName(h) \/ CheckArchived(h) \/ Unarchive(h)
      <4>1. /\ hand[h].pc \in {"name", "check", "unarchive"}
            /\ hand'[h].pc \in {"check", "unarchive", "save"}
            /\ hand'[h].conv = hand[h].conv /\ hand'[h].msg = hand[h].msg
        BY <1>1, <3>3 DEF StoreName, CheckArchived, Unarchive, Handler
      <4> QED
        BY <1>1, <1>2, <4>1 DEF Carries, Current
    <3>4. CASE SaveInbound(h)
      BY <3>4 DEF SaveInbound, Carries
    <3> QED
      BY <1>6, <3>1, <3>2, <3>3, <3>4 DEF Handle
  <2>3. Doomed' \subseteq Doomed
    BY <1>1, <1>3, <2>1, <2>2 DEF Doomed
  <2> QED
    BY <1>1, <2>1, <2>3, NoneDoomed
<1> QED
  BY <1>4, <1>5, <1>6

\* A step that keeps the conversation, the messages, and what the handlers hold.
LEMMA LossAside ==
  ASSUME Typed, LossInv, UNCHANGED <<id, saved, erased, emitted, failures, crashes>>,
         Exists => Exists',
         \A h \in Handlers : /\ hand'[h].pc = hand[h].pc /\ hand'[h].msg = hand[h].msg
                             /\ hand'[h].conv = hand[h].conv
  PROVE  LossInv'
<1>1. \A h \in Handlers, m \in Msgs : Carries(h, m) => Carries(h, m)'
  BY DEF Carries, Current
<1>2. Doomed' \subseteq Doomed
  BY <1>1 DEF Doomed
<1> QED
  BY <1>2, NoneDoomed

LEMMA LossOperators ==
  ASSUME Typed, LossInv,
         \/ \E archive \in BOOLEAN : SetArchived(archive)
         \/ \E r \in Requests : Qualify(r)
  PROVE  LossInv'
<1>1. Exists => conv \in Conversation
  BY DEF Exists, Typed, TypeOK
<1>2. ASSUME NEW archive \in BOOLEAN, SetArchived(archive) PROVE LossInv'
  <2>1. \A h \in Handlers : /\ hand'[h].pc = hand[h].pc /\ hand'[h].msg = hand[h].msg
                            /\ hand'[h].conv = hand[h].conv
    BY <1>2 DEF SetArchived, Typed, TypeOK, Handler
  <2>2. Exists'
    BY <1>1, <1>2, NoConvAssumption DEF SetArchived, Exists, Conversation
  <2>3. UNCHANGED <<id, saved, erased, emitted, failures, crashes>>
    BY <1>2 DEF SetArchived
  <2> QED
    BY <2>1, <2>2, <2>3, LossAside
<1>3. ASSUME NEW r \in Requests, Qualify(r) PROVE LossInv'
  <2>1. UNCHANGED <<id, saved, erased, emitted, hand, failures, crashes>>
    BY <1>3 DEF Qualify, ReadConversation, CreateContact, CreateLead, LinkLead
  <2>2. Exists => Exists'
    <3>1. conv' = conv \/ (Exists /\ conv' = [conv EXCEPT !.lead = r])
      BY <1>3 DEF Qualify, ReadConversation, CreateContact, CreateLead, LinkLead, Current
    <3> QED
      BY <1>1, <3>1, NoConvAssumption DEF Exists, Conversation
  <2> QED
    BY <2>1, <2>2, LossAside
<1> QED
  BY <1>2, <1>3

LEMMA LossDelete ==
  ASSUME Typed, LossInv, NEW r \in Requests, Delete(r)
  PROVE  LossInv'
<1>1. UNCHANGED <<emitted, hand, failures, crashes>>
  BY DEF Delete, TrashLead, RestoreLead, PurgeLead, RemoveContactLeads, RemoveContactConversation
<1>2. Erase \/ UNCHANGED <<conv, id, saved, erased>>
  BY DEF Delete, TrashLead, RestoreLead, PurgeLead, RemoveContactLeads, RemoveContactConversation, DropLead
<1>3. CASE Erase
  <2>1. /\ id' = id + 1 /\ saved' \cup erased' = saved \cup erased
    BY <1>3 DEF Erase
  <2>2. Doomed' \subseteq Doomed \cup Held
    BY <1>1, <2>1 DEF Doomed, Held, Carries
  <2>3. crashes' + id' = crashes + id + 1
    BY <1>1, <2>1, LossTypes
  <2> QED
    BY <1>1, <2>2, <2>3, HeldDoomed
<1>4. CASE UNCHANGED <<conv, id, saved, erased>>
  BY <1>1, <1>4, LossAside DEF Exists
<1> QED
  BY <1>2, <1>3, <1>4

LEMMA LossCrash ==
  ASSUME Typed, LossInv, Crash
  PROVE  LossInv'
<1>1. UNCHANGED <<conv, id, saved, erased, emitted, failures>> /\ crashes' = crashes + 1
  BY DEF Crash
<1>2. Doomed' \subseteq Doomed \cup Held
  BY <1>1 DEF Doomed, Held, Carries
<1>3. crashes' + id' = crashes + id + 1
  BY <1>1, LossTypes
<1> QED
  BY <1>1, <1>2, <1>3, HeldDoomed

LEMMA LossNext == Typed /\ LossInv /\ [Next]_vars => LossInv'
<1> SUFFICES ASSUME Typed, LossInv, [Next]_vars PROVE LossInv'
  OBVIOUS
<1>1. CASE UNCHANGED vars
  BY <1>1, LossAside DEF vars, Exists
<1> QED
  BY <1>1, LossHandlers, LossOperators, LossDelete, LossCrash DEF Next

\* FaultsBoundLoss, for any number of messages, handlers and requests: what
\* nobody will store is one message per failed statement, and what the handlers
\* held at a restart or at a deletion of the conversation.
THEOREM OnlyFaultsLose == Spec => []FaultsBoundLoss
<1>1. Typed /\ LossInv => FaultsBoundLoss
  <2> SUFFICES ASSUME Typed, LossInv PROVE FaultsBoundLoss
    OBVIOUS
  <2>1. Lost \subseteq Doomed
    BY DEF Lost, Doomed, Carries
  <2>2. Cardinality(Lost) <= Cardinality(Doomed) /\ Cardinality(Lost) \in Nat
    BY <2>1, DoomedFinite, FS_Subset, FS_CardinalityType
  <2> DEFINE bound == failures + Cardinality(Handlers) * (crashes + id)
  <2>3. Cardinality(Doomed) <= bound /\ bound \in Nat
    BY LossTypes DEF LossInv
  <2> HIDE DEF bound
  <2>4. Cardinality(Lost) <= bound
    BY <2>2, <2>3, DoomedFinite
  <2> QED
    BY <2>4 DEF FaultsBoundLoss, bound
<1> QED
  BY <1>1, InitLoss, LossNext, AlwaysTyped, PTL DEF Spec
=============================================================================
