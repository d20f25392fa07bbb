------------------------------ MODULE Agendas ------------------------------
(***************************************************************************)
(* An agenda and its appointments (AgendasService): a creation looks for a  *)
(* conflict and inserts later, a cancellation and an update read a row and  *)
(* save it later, and the free slots of a day are computed in local minutes *)
(* from the appointments that start on that day in UTC.                     *)
(*                                                                          *)
(* An instant is a number of slots; a day has DayLength of them, and local  *)
(* midnight comes Offset slots after midnight UTC.                          *)
(***************************************************************************)
EXTENDS Integers, FiniteSets

CONSTANTS
    Ids, Requests,
    Days, DayLength, Offset,
    Lengths,             \* lengths of the appointments asked for
    Hours,               \* opening hours an agenda may have: sets of slots of a local day
    MaxRequests,         \* bound: requests in a behaviour
    NoAppointment, NoId

Instants == UNION {(d * DayLength)..(d * DayLength + DayLength - 1) : d \in Days}
Appointment == [start : Instants, length : Lengths, booked : BOOLEAN]

ConstantsOK ==
    /\ DayLength \in Nat \ {0} /\ Offset \in 0..DayLength - 1 /\ Days \subseteq Nat
    /\ Lengths \subseteq Nat \ {0} /\ Hours \subseteq SUBSET (0..DayLength - 1)
    /\ NoId \notin Ids /\ NoAppointment \notin Appointment /\ MaxRequests \in Nat

Request == [pc : {"idle", "insert", "save"}, id : Ids \cup {NoId},
            copy : Appointment \cup {NoAppointment}, row : Appointment \cup {NoAppointment}]
Idle == [pc |-> "idle", id |-> NoId, copy |-> NoAppointment, row |-> NoAppointment]

VARIABLES
    hours,          \* the agenda's opening hours; {} once it is removed
    removed,        \* the agenda was deleted
    appointments,   \* the appointments table, this agenda's rows
    requests, served,
    unchecked,      \* history: appointments whose time no conflict check alone has seen
    crossed         \* history: appointments saved over somebody else's save

vars == <<hours, removed, appointments, requests, served, unchecked, crossed>>

TypeOK ==
    /\ hours \in Hours \cup {{}} /\ removed \in BOOLEAN
    /\ appointments \in [Ids -> Appointment \cup {NoAppointment}]
    /\ requests \in [Requests -> Request]
    /\ served \in 0..MaxRequests
    /\ unchecked \subseteq Ids /\ crossed \subseteq Ids

Init ==
    /\ hours \in Hours /\ removed = FALSE
    /\ appointments = [i \in Ids |-> NoAppointment]
    /\ requests = [q \in Requests |-> Idle]
    /\ served = 0 /\ unchecked = {} /\ crossed = {}

Exists(i) == appointments[i] # NoAppointment
Booked == {i \in Ids : Exists(i) /\ appointments[i].booked}
Overlap(x, y) == x.start < y.start + y.length /\ y.start < x.start + x.length

Arrive(q, r) ==
    /\ requests[q].pc = "idle" /\ served < MaxRequests /\ ~removed
    /\ served' = served + 1
    /\ requests' = [requests EXCEPT ![q] = r]
End(q) == requests' = [requests EXCEPT ![q] = Idle]

-----------------------------------------------------------------------------
\* getAvailableSlots.
UtcDay(t) == t \div DayLength
LocalSlot(t) == (t + DayLength - Offset) % DayLength

\* cursor < b.end && slotEnd > b.start, both ends without their date.
Busy(slot, day) ==
    \E i \in Booked : LET a == appointments[i]
                      IN  /\ UtcDay(a.start) = day
                          /\ slot < LocalSlot(a.start + a.length)
                          /\ slot + 1 > LocalSlot(a.start)

AvailableSlots(day) == {slot \in hours : ~Busy(slot, day)}

-----------------------------------------------------------------------------
\* Mutated form of Conflict: only an appointment inside the new one is found.
Conflict_Inside(new) ==
    \E i \in Booked : /\ appointments[i].start >= new.start
                      /\ appointments[i].start + appointments[i].length <= new.start + new.length

\* "Horário indisponível - já existe um agendamento nesse intervalo".
Conflict(new) == \E i \in Booked : Overlap(appointments[i], new)

\* createAppointment, up to the check.
CheckConflict(q, i, new) ==
    /\ ~Exists(i) /\ \A p \in Requests : requests[p].id # i
    /\ ~Conflict(new)
    /\ Arrive(q, [pc |-> "insert", id |-> i, copy |-> NoAppointment, row |-> new])
    /\ unchecked' = unchecked \cup {requests[p].id : p \in {p \in Requests : requests[p].pc = "insert"}}
    /\ UNCHANGED <<hours, removed, appointments, crossed>>

\* The insert; refused by the foreign key when the agenda is gone.
InsertAppointment(q) ==
    LET r == requests[q] IN
    /\ r.pc = "insert"
    /\ appointments' = IF removed THEN appointments ELSE [appointments EXCEPT ![r.id] = r.row]
    /\ End(q)
    /\ UNCHANGED <<hours, removed, served, unchecked, crossed>>

\* cancelAppointment.
ReadForCancel(q, i) ==
    /\ Exists(i)
    /\ Arrive(q, [pc |-> "save", id |-> i, copy |-> appointments[i],
                  row |-> [appointments[i] EXCEPT !.booked = FALSE]])
    /\ UNCHANGED <<hours, removed, appointments, unchecked, crossed>>

\* updateAppointment: times, status and texts are taken as they come.
ReadForUpdate(q, i, start, booked) ==
    /\ Exists(i)
    /\ Arrive(q, [pc |-> "save", id |-> i, copy |-> appointments[i],
                  row |-> [appointments[i] EXCEPT !.start = start, !.booked = booked]])
    /\ UNCHANGED <<hours, removed, appointments, unchecked, crossed>>

\* save(): every column takes the entity's value; a row deleted meanwhile is not
\* inserted again, its agenda being gone.
SaveAppointment(q) ==
    LET r == requests[q]
        now == appointments[r.id]
    IN  /\ r.pc = "save"
        /\ appointments' = IF removed THEN appointments ELSE [appointments EXCEPT ![r.id] = r.row]
        /\ unchecked' = IF r.row.booked /\ (now = NoAppointment \/ now # r.row)
                        THEN unchecked \cup {r.id} ELSE unchecked
        /\ crossed' = IF now = r.copy /\ ~(r.row.booked /\ ~r.copy.booked) THEN crossed
                      ELSE crossed \cup {r.id}
        /\ End(q)
        /\ UNCHANGED <<hours, removed, served>>

-----------------------------------------------------------------------------
\* update of the agenda, and remove: its appointments go with it (ON DELETE CASCADE).
SetHours(open) ==
    /\ ~removed /\ hours # open
    /\ hours' = open
    /\ UNCHANGED <<removed, appointments, requests, served, unchecked, crossed>>

RemoveAgenda ==
    /\ ~removed /\ served = MaxRequests
    /\ removed' = TRUE /\ hours' = {}
    /\ appointments' = [i \in Ids |-> NoAppointment]
    /\ UNCHANGED <<requests, served, unchecked, crossed>>

Next ==
    \/ \E q \in Requests, i \in Ids, t \in Instants, l \in Lengths :
           CheckConflict(q, i, [start |-> t, length |-> l, booked |-> TRUE])
    \/ \E q \in Requests, i \in Ids : ReadForCancel(q, i)
    \/ \E q \in Requests, i \in Ids : Exists(i) /\
           \E t \in Instants \cup {appointments[i].start}, booked \in BOOLEAN : ReadForUpdate(q, i, t, booked)
    \/ \E q \in Requests : InsertAppointment(q) \/ SaveAppointment(q)
    \/ \E open \in Hours : SetHours(open)
    \/ RemoveAgenda

Spec == Init /\ [][Next]_vars

-----------------------------------------------------------------------------
\* agendas.service.ts:146: "já existe um agendamento nesse intervalo" - two booked
\* appointments overlap only when their creations did, or when one was moved or
\* booked again by an update.
NoDoubleBooking ==
    \A i, j \in Booked : i # j /\ Overlap(appointments[i], appointments[j])
                         => i \in unchecked \/ j \in unchecked

\* agendas.service.ts:90: a slot offered for a local day is free, unless what is booked
\* then began on another day in UTC or reaches local midnight.
OfferedSlotFree ==
    \A day \in Days : \A slot \in AvailableSlots(day), i \in Booked :
        LET a == appointments[i]
            offered == [start |-> day * DayLength + Offset + slot, length |-> 1]
        IN  Overlap(a, offered) => \/ UtcDay(a.start) # day
                                   \/ LocalSlot(a.start) + a.length >= DayLength

\* A cancelled appointment is booked again only when an update asked for it or saved
\* a copy read before the cancellation.
CancelledStaysCancelled ==
    [][\A i \in Ids : Exists(i) /\ ~appointments[i].booked /\ appointments'[i] # NoAppointment
                      => ~appointments'[i].booked \/ i \in crossed']_vars

-----------------------------------------------------------------------------
(* The inductive invariant behind these: what an insert or a save on its way
   still finds in the table. *)

RequestsOK ==
    /\ removed => \A i \in Ids : ~Exists(i)
    /\ \A q \in Requests :
           /\ requests[q].pc = "idle" => requests[q].id = NoId
           /\ requests[q].pc # "idle" => requests[q].id \in Ids /\ requests[q].row # NoAppointment
           /\ requests[q].pc = "save" => requests[q].copy # NoAppointment
           /\ requests[q].pc = "insert" =>
                  /\ requests[q].row.booked /\ ~Exists(requests[q].id)
                  /\ \A p \in Requests : requests[p].id = requests[q].id => p = q

\* What is about to be inserted overlaps what is booked, or another insert, only when
\* one of the two is unchecked.
InsertsChecked ==
    \A q \in Requests : requests[q].pc = "insert" =>
        /\ \A i \in Booked : Overlap(appointments[i], requests[q].row)
                              => i \in unchecked \/ requests[q].id \in unchecked
        /\ \A p \in Requests : p # q /\ requests[p].pc = "insert"
                              => requests[p].id \in unchecked \/ requests[q].id \in unchecked

IInv == TypeOK /\ RequestsOK /\ InsertsChecked /\ NoDoubleBooking
=============================================================================
