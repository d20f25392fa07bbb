-------------------------- MODULE OutboundMessages --------------------------
(***************************************************************************)
(* The outbound side of one WhatsApp conversation: POST /messages/send and *)
(* /messages/send-media (MessagesController), the message rows they write   *)
(* (MessagesService), and the provider's webhooks, which echo messages sent *)
(* from the API or typed on the handset (InboundListener) and report their  *)
(* delivery (UazapiWebhookController).                                      *)
(*                                                                         *)
(* A send writes a placeholder row with a fallback id "uza-...", calls the  *)
(* provider, then replaces the fallback id by the provider's.  The echo of  *)
(* the same message may arrive before, between or after those steps; it     *)
(* claims the row by body and time, or inserts a row of its own.            *)
(***************************************************************************)
EXTENDS Integers

CONSTANTS
    Sends,        \* requests to the two send endpoints
    PhoneMsgs,    \* messages typed on the handset, seen only through echoes
    Bodies,       \* message texts
    rowBody,      \* the body a send stores on its placeholder
    echoBody,     \* the body the provider's echo of a message carries
    AckStatuses,  \* the statuses the provider reports (mapUazapiStatus)
    Window,       \* half-width of the claim window (30 s in the code)
    MaxTime,      \* bound: last instant of the clock
    MaxEchoes,    \* bound: deliveries of one message's echo
    MaxCrashes,   \* bound: restarts of the server
    Erased,       \* the body softDelete leaves ("Mensagem apagada")
    NoRow, NoMsg, NoTime

Msgs == Sends \cup PhoneMsgs
Time == 0..MaxTime
Status == {"pending", "sent", "delivered", "read", "failed"}
PC == {"idle", "calling", "answered", "catch", "done", "errored", "dead"}
Answers == {"none", "id", "noid", "failed", "thrown"}

ASSUME OutboundAssumption ==
    /\ Sends \cap PhoneMsgs = {}
    /\ NoMsg \notin Msgs
    /\ rowBody \in [Sends -> Bodies]
    /\ echoBody \in [Msgs -> Bodies]
    /\ Erased \notin Bodies
    /\ AckStatuses \subseteq Status
    /\ Window \in Nat /\ MaxTime \in Nat /\ MaxEchoes \in Nat /\ MaxCrashes \in Nat
    /\ NoTime \notin Time

\* External ids: the "uza-" fallback of a send, the provider's id of a
\* message, and the empty string the adapters return with status "failed".
FallbackId(s) == [kind |-> "uza", of |-> s]
ProviderId(m) == [kind |-> "wa", of |-> m]
EmptyId == [kind |-> "empty", of |-> NoMsg]
ExtIds == {FallbackId(s) : s \in Sends} \cup {ProviderId(m) : m \in Msgs} \cup {EmptyId}

\* Rows of the messages table: the placeholder of a send, or the row an echo
\* inserted.
Api(s) == [origin |-> "api", msg |-> s]
Hook(m) == [origin |-> "hook", msg |-> m]
RowKeys == [origin : {"api"}, msg : Sends] \cup [origin : {"hook"}, msg : Msgs]

Message == [ext : ExtIds, body : Bodies \cup {Erased}, status : Status, sentAt : Time]

ASSUME NoRowAssumption == NoRow \notin Message

VARIABLES
    rows,        \* the messages table
    pc, answer,  \* each send's position in its handler, the adapter's result
    acceptedAt,  \* when the provider accepted a message
    echoes,      \* echoes of a message delivered so far
    inserting,   \* echo handlers between the failed claim and the insert
    acked,       \* reports about a message already delivered
    clock, crashes

vars == <<rows, pc, answer, acceptedAt, echoes, inserting, acked, clock, crashes>>

TypeOK ==
    /\ rows \in [RowKeys -> Message \cup {NoRow}]
    /\ pc \in [Sends -> PC]
    /\ answer \in [Sends -> Answers]
    /\ acceptedAt \in [Msgs -> Time \cup {NoTime}]
    /\ echoes \in [Msgs -> 0..MaxEchoes]
    /\ inserting \subseteq Msgs
    /\ acked \in [Msgs -> SUBSET AckStatuses]
    /\ clock \in Time
    /\ crashes \in 0..MaxCrashes

Init ==
    /\ rows = [k \in RowKeys |-> NoRow]
    /\ pc = [s \in Sends |-> "idle"]
    /\ answer = [s \in Sends |-> "none"]
    /\ acceptedAt = [m \in Msgs |-> NoTime]
    /\ echoes = [m \in Msgs |-> 0]
    /\ inserting = {}
    /\ acked = [m \in Msgs |-> {}]
    /\ clock = 0
    /\ crashes = 0

Live == {k \in RowKeys : rows[k] # NoRow}
Accepted(m) == acceptedAt[m] # NoTime

\* The UNIQUE constraint on messages."externalMessageId".
Taken(id, k) == \E j \in Live \ {k} : rows[j].ext = id

\* UPDATE messages SET "externalMessageId", status.
Update(k, id, st) == [rows EXCEPT ![k] = [ext |-> id, body |-> rows[k].body,
                                         status |-> st, sentAt |-> rows[k].sentAt]]

Near(t, u) == t - u <= Window /\ u - t <= Window

-----------------------------------------------------------------------------
\* The send endpoints.

\* Mutated form of StartSend: the placeholder is stored as already sent.
StartSend_AsSent(s) ==
    /\ pc[s] = "idle"
    /\ rows' = [rows EXCEPT ![Api(s)] = [ext |-> FallbackId(s), body |-> rowBody[s],
                                        status |-> "sent", sentAt |-> clock]]
    /\ pc' = [pc EXCEPT ![s] = "calling"]
    /\ UNCHANGED <<answer, acceptedAt, echoes, inserting, acked, clock, crashes>>

\* saveOutbound: the placeholder is stored before the provider is called.
StartSend(s) ==
    /\ pc[s] = "idle"
    /\ rows' = [rows EXCEPT ![Api(s)] = [ext |-> FallbackId(s), body |-> rowBody[s],
                                        status |-> "pending", sentAt |-> clock]]
    /\ pc' = [pc EXCEPT ![s] = "calling"]
    /\ UNCHANGED <<answer, acceptedAt, echoes, inserting, acked, clock, crashes>>

\* The adapter turns every error into status "failed" with an empty id, also
\* when the provider had accepted the message; an inactive channel throws.
ReceiveAnswer(s) ==
    /\ pc[s] = "calling"
    /\ \E a \in Answers \ {"none"} :
        /\ a \in {"id", "noid"} => Accepted(s)
        /\ a = "thrown" => ~Accepted(s)
        /\ answer' = [answer EXCEPT ![s] = a]
        /\ pc' = [pc EXCEPT ![s] = IF a = "thrown" THEN "catch" ELSE "answered"]
    /\ UNCHANGED <<rows, acceptedAt, echoes, inserting, acked, clock, crashes>>

AnswerId(s) == CASE answer[s] = "id" -> ProviderId(s)
                 [] answer[s] = "noid" -> FallbackId(s)
                 [] OTHER -> EmptyId

\* Mutated form of HoldsFallback: the answer is stored whatever the row holds.
HoldsFallback_Unchecked(k) == k \in Live

\* The UPDATE touches the row only while it holds a fallback id.
HoldsFallback(k) == rows[k].ext.kind = "uza"

\* updateOutboundResult: a no-op once an echo claimed the row, an error when
\* another row has the id.
StoreAnswer(s) ==
    /\ pc[s] = "answered"
    /\ \/ /\ ~HoldsFallback(Api(s))
          /\ pc' = [pc EXCEPT ![s] = "done"]
          /\ UNCHANGED rows
       \/ /\ HoldsFallback(Api(s))
          /\ ~Taken(AnswerId(s), Api(s))
          /\ rows' = Update(Api(s), AnswerId(s), IF answer[s] = "failed" THEN "failed" ELSE "sent")
          /\ pc' = [pc EXCEPT ![s] = "done"]
       \/ /\ HoldsFallback(Api(s))
          /\ Taken(AnswerId(s), Api(s))
          /\ pc' = [pc EXCEPT ![s] = "catch"]
          /\ UNCHANGED rows
    /\ UNCHANGED <<answer, acceptedAt, echoes, inserting, acked, clock, crashes>>

\* The catch block: markOutboundFailed has no guard on the row.
MarkFailed(s) ==
    /\ pc[s] = "catch"
    /\ rows' = Update(Api(s), rows[Api(s)].ext, "failed")
    /\ pc' = [pc EXCEPT ![s] = "errored"]
    /\ UNCHANGED <<answer, acceptedAt, echoes, inserting, acked, clock, crashes>>

\* Mutated form of DeleteMessage: the deletion is written to the status column.
DeleteMessage_InStatus(k) ==
    /\ k \in Live
    /\ rows[k].body # Erased
    /\ rows' = [rows EXCEPT ![k].body = Erased, ![k].status = "deleted"]
    /\ UNCHANGED <<pc, answer, acceptedAt, echoes, inserting, acked, clock, crashes>>

\* DELETE /messages/:id, after the provider deleted the message.
DeleteMessage(k) ==
    /\ k \in Live
    /\ rows[k].body # Erased
    /\ rows' = [rows EXCEPT ![k].body = Erased]
    /\ UNCHANGED <<pc, answer, acceptedAt, echoes, inserting, acked, clock, crashes>>

-----------------------------------------------------------------------------
\* The provider.

\* A request that timed out may still be accepted.
AcceptSend(s) ==
    /\ pc[s] # "idle"
    /\ answer[s] # "thrown"
    /\ ~Accepted(s)
    /\ acceptedAt' = [acceptedAt EXCEPT ![s] = clock]
    /\ UNCHANGED <<rows, pc, answer, echoes, inserting, acked, clock, crashes>>

TypeOnPhone(m) ==
    /\ ~Accepted(m)
    /\ acceptedAt' = [acceptedAt EXCEPT ![m] = clock]
    /\ UNCHANGED <<rows, pc, answer, echoes, inserting, acked, clock, crashes>>

-----------------------------------------------------------------------------
\* The webhook handlers.

\* Mutated forms of Claimable: without the window; only rows still pending.
Claimable_AnyTime(m) ==
    {k \in Live : rows[k].body = echoBody[m] /\ HoldsFallback(k)}
Claimable_OnlyPending(m) ==
    {k \in Live : /\ rows[k].body = echoBody[m]
                  /\ HoldsFallback(k) /\ rows[k].status = "pending"
                  /\ Near(rows[k].sentAt, acceptedAt[m])}

\* Rows the claim of m's echo matches: same conversation and body, close in
\* time, still under a fallback id.
Claimable(m) ==
    {k \in Live : /\ rows[k].body = echoBody[m]
                  /\ HoldsFallback(k)
                  /\ Near(rows[k].sentAt, acceptedAt[m])}

\* First statement of saveWebhookOutbound.  Two matching rows, or a row that
\* already has the id, break the unique constraint: the listener logs the
\* error and the echo is gone, for the webhook has been acknowledged.
ClaimEcho(m) ==
    /\ Accepted(m)
    /\ echoes[m] < MaxEchoes
    /\ echoes' = [echoes EXCEPT ![m] = @ + 1]
    /\ \/ /\ Claimable(m) = {}
          /\ inserting' = inserting \cup {m}
          /\ UNCHANGED rows
       \/ \E k \in Claimable(m) :
          /\ Claimable(m) = {k}
          /\ ~Taken(ProviderId(m), k)
          /\ rows' = Update(k, ProviderId(m), "sent")
          /\ UNCHANGED inserting
       \/ /\ \E k, j \in Claimable(m) : k # j \/ Taken(ProviderId(m), k)
          /\ UNCHANGED <<rows, inserting>>
    /\ UNCHANGED <<pc, answer, acceptedAt, acked, clock, crashes>>

\* Second statement: INSERT ... ON CONFLICT DO NOTHING.
InsertEcho(m) ==
    /\ m \in inserting
    /\ inserting' = inserting \ {m}
    /\ rows' = IF \E j \in Live : rows[j].ext = ProviderId(m)
               THEN rows
               ELSE [rows EXCEPT ![Hook(m)] = [ext |-> ProviderId(m), body |-> echoBody[m],
                                              status |-> "sent", sentAt |-> acceptedAt[m]]]
    /\ UNCHANGED <<pc, answer, acceptedAt, echoes, acked, clock, crashes>>

\* updateStatus: reports arrive in any order and overwrite the status; a
\* report about an id no row has is lost.
ReceiveAck(m, st) ==
    /\ Accepted(m)
    /\ st \notin acked[m]
    /\ acked' = [acked EXCEPT ![m] = @ \cup {st}]
    /\ rows' = [k \in RowKeys |->
                  IF k \in Live /\ rows[k].ext = ProviderId(m)
                  THEN [rows[k] EXCEPT !.status = st] ELSE rows[k]]
    /\ UNCHANGED <<pc, answer, acceptedAt, echoes, inserting, clock, crashes>>

-----------------------------------------------------------------------------
\* A restart loses every handler in progress; nothing resumes a placeholder.
Crash ==
    /\ crashes < MaxCrashes
    /\ crashes' = crashes + 1
    /\ pc' = [s \in Sends |-> IF pc[s] \in {"calling", "answered", "catch"}
                              THEN "dead" ELSE pc[s]]
    /\ inserting' = {}
    /\ UNCHANGED <<rows, answer, acceptedAt, echoes, acked, clock>>

Tick ==
    /\ clock < MaxTime
    /\ clock' = clock + 1
    /\ UNCHANGED <<rows, pc, answer, acceptedAt, echoes, inserting, acked, crashes>>

Next ==
    \/ \E s \in Sends : StartSend(s) \/ AcceptSend(s) \/ ReceiveAnswer(s)
                          \/ StoreAnswer(s) \/ MarkFailed(s)
    \/ \E m \in PhoneMsgs : TypeOnPhone(m)
    \/ \E m \in Msgs : ClaimEcho(m) \/ InsertEcho(m)
    \/ \E m \in Msgs, st \in AckStatuses : ReceiveAck(m, st)
    \/ \E k \in RowKeys : DeleteMessage(k)
    \/ Crash
    \/ Tick

Spec == Init /\ [][Next]_vars

-----------------------------------------------------------------------------
\* A provider id sits on the row of its own message, or on the placeholder of
\* another send with the same text written within the window: whatever the
\* order of answers, echoes and restarts, delivery reports and deletions
\* never land on a row with other content (saveWebhookOutbound's conditions).
ProviderIdOnMatchingRow ==
    \A k \in Live, m \in Msgs :
        rows[k].ext = ProviderId(m) =>
            \/ k.msg = m
            \/ /\ k.origin = "api"
               /\ rowBody[k.msg] = echoBody[m]
               /\ Accepted(m) /\ Near(rows[k].sentAt, acceptedAt[m])

\* A row shown as sent, delivered or read stands for a message the provider
\* accepted: the one its provider id names, or its own while it still has a
\* fallback id.  A send that failed or was lost in a restart never reads as
\* sent unless an identical message was.
SentIsAccepted ==
    \A k \in Live :
        rows[k].status \in {"sent", "delivered", "read"} =>
            /\ rows[k].ext.kind \in {"uza", "wa"}
            /\ Accepted(rows[k].ext.of)

\* A message sent from the CRM shows twice (placeholder and echo row) only
\* when the claim could not match: the send was answered "failed", the
\* placeholder was deleted, its body differs from the echo's, it was written
\* outside the window, or an identical message took it.
Unclaimable(s) ==
    \/ rows[Api(s)].ext = EmptyId
    \/ rows[Api(s)].body = Erased
    \/ rowBody[s] # echoBody[s]
    \/ ~Near(rows[Api(s)].sentAt, acceptedAt[s])
    \/ rows[Api(s)].ext.kind = "wa" /\ rows[Api(s)].ext.of # s

DuplicateExplained ==
    \A s \in Sends : Hook(s) \in Live => Unclaimable(s)

\* Once a row has a provider id it keeps it: a late answer of the send
\* endpoint cannot take a row away from the echo that claimed it.
ProviderIdIsFinal ==
    [][\A k \in Live : rows[k].ext.kind = "wa" =>
          rows'[k] # NoRow /\ rows'[k].ext = rows[k].ext]_vars

\* "INSERT placeholder before the HTTP send to close the webhook race window"
\* (messages.controller.ts): a send the provider answered with an id is not
\* left as failed because its echo came first.
RaceWindowClosed ==
    \A s \in Sends : answer[s] = "id" /\ pc[s] \in {"done", "errored"} =>
        rows[Api(s)].status # "failed"
=============================================================================
