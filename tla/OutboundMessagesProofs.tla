----------------------- MODULE OutboundMessagesProofs -----------------------
(***************************************************************************)
(* Proofs about OutboundMessages, for every set of sends, handset messages *)
(* and bodies, every window and every number of restarts.                   *)
(***************************************************************************)
EXTENDS OutboundMessages, TLAPS

-----------------------------------------------------------------------------
\* Facts about keys and ids, so that no later step has to look inside them.

LEMMA Keys ==
    /\ \A s \in Sends : Api(s) \in RowKeys
    /\ \A m \in Msgs : Hook(m) \in RowKeys
    /\ \A k \in RowKeys : \/ k.origin = "api" /\ k.msg \in Sends /\ k = Api(k.msg)
                          \/ k.origin = "hook" /\ k.msg \in Msgs /\ k = Hook(k.msg)
    /\ \A s : Api(s).msg = s /\ Api(s).origin = "api"
    /\ \A m : Hook(m).msg = m /\ Hook(m).origin = "hook"
    /\ \A s, t : Api(s) = Api(t) => s = t
    /\ \A s, t : Hook(s) = Hook(t) => s = t
    /\ \A s, m : Api(s) # Hook(m)
BY DEF RowKeys, Api, Hook

LEMMA Ids ==
    /\ \A s : FallbackId(s).kind = "uza" /\ FallbackId(s).of = s
    /\ \A m : ProviderId(m).kind = "wa" /\ ProviderId(m).of = m
    /\ EmptyId.kind = "empty"
    /\ \A s, m : FallbackId(s) # ProviderId(m)
    /\ \A s : FallbackId(s) # EmptyId /\ ProviderId(s) # EmptyId
    /\ \A m, n : ProviderId(m) = ProviderId(n) => m = n
    /\ \A s \in Sends : FallbackId(s) \in ExtIds
    /\ \A m \in Msgs : ProviderId(m) \in ExtIds
    /\ EmptyId \in ExtIds
    /\ \A id \in ExtIds : \/ id.kind = "uza" /\ id.of \in Sends /\ id = FallbackId(id.of)
                          \/ id.kind = "wa" /\ id.of \in Msgs /\ id = ProviderId(id.of)
                          \/ id.kind = "empty" /\ id = EmptyId
<1>1. /\ \A s : FallbackId(s).kind = "uza" /\ FallbackId(s).of = s
      /\ \A m : ProviderId(m).kind = "wa" /\ ProviderId(m).of = m
      /\ EmptyId.kind = "empty"
  BY DEF FallbackId, ProviderId, EmptyId
<1>2. "uza" # "wa" /\ "uza" # "empty" /\ "wa" # "empty"
  OBVIOUS
<1>3. /\ \A s, m : FallbackId(s) # ProviderId(m)
      /\ \A s : FallbackId(s) # EmptyId /\ ProviderId(s) # EmptyId
      /\ \A m, n : ProviderId(m) = ProviderId(n) => m = n
  <2>1. ASSUME NEW s, NEW m PROVE FallbackId(s) # ProviderId(m)
    BY <1>1, <1>2, Zenon
  <2>2. ASSUME NEW s PROVE FallbackId(s) # EmptyId /\ ProviderId(s) # EmptyId
    BY <1>1, <1>2, Zenon
  <2>3. ASSUME NEW m, NEW n, ProviderId(m) = ProviderId(n) PROVE m = n
    <3>1. ProviderId(m).of = m /\ ProviderId(n).of = n
      BY <1>1, Zenon
    <3> QED BY <2>3, <3>1
  <2> QED BY <2>1, <2>2, <2>3
<1>4. /\ \A s \in Sends : FallbackId(s) \in ExtIds
      /\ \A m \in Msgs : ProviderId(m) \in ExtIds
      /\ EmptyId \in ExtIds
  BY DEF ExtIds
<1>5. ASSUME NEW id \in ExtIds
      PROVE  \/ id.kind = "uza" /\ id.of \in Sends /\ id = FallbackId(id.of)
             \/ id.kind = "wa" /\ id.of \in Msgs /\ id = ProviderId(id.of)
             \/ id.kind = "empty" /\ id = EmptyId
  <2>1. CASE \E s \in Sends : id = FallbackId(s)
    BY <1>1, <2>1, Zenon
  <2>2. CASE \E m \in Msgs : id = ProviderId(m)
    BY <1>1, <2>2, Zenon
  <2>3. CASE id = EmptyId
    BY <1>1, <2>3, Zenon
  <2> QED BY <2>1, <2>2, <2>3 DEF ExtIds
<1> QED BY <1>1, <1>3, <1>4, <1>5

-----------------------------------------------------------------------------
\* The inductive invariant.  Beside the three properties: a handler that runs
\* has its placeholder, an answer that names an id or claims success comes from
\* an accepted message, and a row never leaves the ids its history allows.

Handlers ==
    /\ \A s \in Sends : pc[s] # "idle" <=> Api(s) \in Live
    /\ \A s \in Sends : Accepted(s) => pc[s] # "idle"
    /\ \A s \in Sends : answer[s] \in {"id", "noid"} => Accepted(s)
    /\ \A s \in Sends : pc[s] = "answered" => answer[s] \in {"id", "noid", "failed"}
    /\ \A m \in inserting : Accepted(m)

RowShapes ==
    /\ \A s \in Sends : Api(s) \in Live =>
          /\ rows[Api(s)].body \in {rowBody[s], Erased}
          /\ rows[Api(s)].ext.kind = "uza" => rows[Api(s)].ext = FallbackId(s)
    /\ \A m \in Msgs : Hook(m) \in Live => rows[Hook(m)].ext = ProviderId(m)

\* An echo about to be inserted cannot match the placeholder of its send any
\* more, or the send's answer has already given the placeholder its id.
InsertingUnclaimable ==
    \A s \in inserting \cap Sends : Unclaimable(s) \/ rows[Api(s)].ext = ProviderId(s)

\* Which message a provider id may belong to, part of SentIsAccepted.
IdsAccepted ==
    \A k \in Live : rows[k].ext.kind = "wa" => Accepted(rows[k].ext.of)

IInv == /\ TypeOK /\ Handlers /\ RowShapes /\ IdsAccepted
        /\ ProviderIdOnMatchingRow /\ SentIsAccepted
        /\ InsertingUnclaimable /\ DuplicateExplained

LEMMA InitIInv == Init => IInv
<1> SUFFICES ASSUME Init PROVE IInv
  OBVIOUS
<1>1. TypeOK
  BY OutboundAssumption DEF Init, TypeOK, PC, Answers, Time
<1>2. Live = {}
  BY DEF Init, Live
<1>3. Handlers /\ RowShapes /\ IdsAccepted
  BY <1>2, Keys DEF Init, Handlers, RowShapes, IdsAccepted, Accepted, Msgs
<1>4. ProviderIdOnMatchingRow /\ SentIsAccepted /\ InsertingUnclaimable /\ DuplicateExplained
  BY <1>2 DEF Init, ProviderIdOnMatchingRow, SentIsAccepted, InsertingUnclaimable,
              DuplicateExplained
<1> QED BY <1>1, <1>3, <1>4 DEF IInv

-----------------------------------------------------------------------------
\* A step that leaves the rows alone, only lets more messages be accepted and
\* moves no handler past its facts, keeps the invariant.
LEMMA RowsUnchanged ==
    ASSUME IInv, TypeOK', Handlers', UNCHANGED rows,
           \A m \in Msgs : Accepted(m) => acceptedAt'[m] = acceptedAt[m],
           \A m \in inserting' : Accepted(m),
           \A s \in inserting' \cap Sends : s \in inserting \/ Unclaimable(s)
                                                 \/ rows[Api(s)].ext = ProviderId(s)
    PROVE  IInv'
<1> USE DEF IInv
<1>1. Live' = Live
  BY DEF Live
<1>2. \A m \in Msgs : Accepted(m) => Accepted(m)'
  BY DEF Accepted
<1>3. \A s \in Sends : Accepted(s) => (Unclaimable(s) => Unclaimable(s)')
  BY DEF Unclaimable, Accepted, Msgs
<1>4. RowShapes'
  BY <1>1 DEF RowShapes
<1>5. IdsAccepted'
  <2> SUFFICES ASSUME NEW k \in Live, rows[k].ext.kind = "wa"
               PROVE  Accepted(rows[k].ext.of)'
    BY <1>1 DEF IdsAccepted
  <2>1. rows[k].ext \in ExtIds
    BY DEF Live, TypeOK, Message
  <2>2. rows[k].ext.of \in Msgs
    BY <2>1, Ids
  <2> QED BY <1>2, <2>2 DEF IdsAccepted
<1>6. ProviderIdOnMatchingRow'
  BY <1>1, <1>2 DEF ProviderIdOnMatchingRow
<1>7. SentIsAccepted'
  <2> SUFFICES ASSUME NEW k \in Live, rows[k].status \in {"sent", "delivered", "read"}
               PROVE  rows[k].ext.kind \in {"uza", "wa"} /\ Accepted(rows[k].ext.of)'
    BY <1>1 DEF SentIsAccepted
  <2>1. rows[k].ext \in ExtIds
    BY DEF Live, TypeOK, Message
  <2>2. rows[k].ext.kind \in {"uza", "wa"} /\ Accepted(rows[k].ext.of)
    BY DEF SentIsAccepted
  <2>3. rows[k].ext.of \in Msgs
    BY <2>1, <2>2, Ids DEF Msgs
  <2> QED BY <1>2, <2>2, <2>3
<1>8. InsertingUnclaimable'
  BY <1>1, <1>3 DEF InsertingUnclaimable
<1>9. DuplicateExplained'
  <2> SUFFICES ASSUME NEW s \in Sends, Hook(s) \in Live PROVE Unclaimable(s)'
    BY <1>1 DEF DuplicateExplained
  <2>1. Accepted(s)
    BY Ids DEF RowShapes, IdsAccepted, Msgs
  <2> QED BY <1>3, <2>1 DEF DuplicateExplained
<1> QED BY <1>4, <1>5, <1>6, <1>7, <1>8, <1>9

\* An UPDATE of one row keeps the invariant when it respects what the row's id
\* stands for.
LEMMA RowUpdated ==
    ASSUME IInv, TypeOK', Handlers', UNCHANGED <<acceptedAt, inserting>>,
           NEW k \in Live, NEW r \in Message, rows' = [rows EXCEPT ![k] = r],
           r.sentAt = rows[k].sentAt,
           r.body \in {rows[k].body, Erased},
           rows[k].ext.kind # "uza" => r.ext = rows[k].ext,
           k.origin = "hook" => r.ext = rows[k].ext,
           r.ext.kind = "uza" => r.ext = rows[k].ext,
           \A m \in Msgs : r.ext = ProviderId(m) =>
               /\ Accepted(m)
               /\ \/ k.msg = m
                  \/ /\ k.origin = "api" /\ rowBody[k.msg] = echoBody[m]
                     /\ Near(rows[k].sentAt, acceptedAt[m]),
           r.status \in {"sent", "delivered", "read"} =>
               r.ext.kind \in {"uza", "wa"} /\ Accepted(r.ext.of)
    PROVE  IInv'
<1> USE DEF IInv
<1>1. k \in RowKeys /\ rows[k] \in Message /\ r # NoRow /\ Live' = Live
  BY NoRowAssumption DEF Live, TypeOK
<1>2. rows'[k] = r /\ \A j \in RowKeys \ {k} : rows'[j] = rows[j]
  BY <1>1 DEF TypeOK
<1>3. \A m : Accepted(m)' = Accepted(m)
  BY DEF Accepted
<1>4. \A j \in Live : /\ rows'[j].sentAt = rows[j].sentAt
                       /\ rows'[j].body \in {rows[j].body, Erased}
                       /\ rows[j].ext.kind # "uza" => rows'[j].ext = rows[j].ext
  BY <1>1, <1>2 DEF Live
<1>5. ASSUME NEW s \in Sends, Api(s) \in Live, Unclaimable(s) PROVE Unclaimable(s)'
  BY <1>4, <1>5, Ids DEF Unclaimable, Near
<1>6. RowShapes'
  <2>1. ASSUME NEW s \in Sends, Api(s) \in Live
        PROVE  /\ rows'[Api(s)].body \in {rowBody[s], Erased}
               /\ rows'[Api(s)].ext.kind = "uza" => rows'[Api(s)].ext = FallbackId(s)
    BY <1>1, <1>2, <2>1, Keys DEF RowShapes
  <2>2. ASSUME NEW m \in Msgs, Hook(m) \in Live PROVE rows'[Hook(m)].ext = ProviderId(m)
    BY <1>1, <1>2, <2>2, Keys DEF RowShapes
  <2> QED BY <1>1, <2>1, <2>2 DEF RowShapes
<1>7. IdsAccepted'
  <2> SUFFICES ASSUME NEW j \in Live, rows'[j].ext.kind = "wa"
               PROVE  Accepted(rows'[j].ext.of)
    BY <1>1, <1>3 DEF IdsAccepted
  <2>1. CASE j = k
    <3>1. r.ext \in ExtIds
      BY DEF Message
    <3>2. r.ext.of \in Msgs /\ r.ext = ProviderId(r.ext.of)
      BY <1>2, <2>1, <3>1, Ids
    <3> QED BY <1>2, <2>1, <3>2
  <2>2. CASE j # k
    BY <1>2, <2>2 DEF IdsAccepted, Live
  <2> QED BY <2>1, <2>2
<1>8. ProviderIdOnMatchingRow'
  <2> SUFFICES ASSUME NEW j \in Live, NEW m \in Msgs, rows'[j].ext = ProviderId(m)
               PROVE  \/ j.msg = m
                      \/ /\ j.origin = "api" /\ rowBody[j.msg] = echoBody[m]
                         /\ Accepted(m) /\ Near(rows[j].sentAt, acceptedAt[m])
    BY <1>1, <1>3, <1>4 DEF ProviderIdOnMatchingRow, Near
  <2>1. CASE j = k
    BY <1>2, <2>1
  <2>2. CASE j # k
    BY <1>2, <2>2 DEF ProviderIdOnMatchingRow, Live
  <2> QED BY <2>1, <2>2
<1>9. SentIsAccepted'
  <2> SUFFICES ASSUME NEW j \in Live, rows'[j].status \in {"sent", "delivered", "read"}
               PROVE  rows'[j].ext.kind \in {"uza", "wa"} /\ Accepted(rows'[j].ext.of)
    BY <1>1, <1>3 DEF SentIsAccepted
  <2>1. CASE j = k
    BY <1>2, <2>1
  <2>2. CASE j # k
    BY <1>2, <2>2 DEF SentIsAccepted, Live
  <2> QED BY <2>1, <2>2
<1>10. InsertingUnclaimable'
  <2> SUFFICES ASSUME NEW s \in inserting \cap Sends
               PROVE  Unclaimable(s)' \/ rows'[Api(s)].ext = ProviderId(s)
    BY DEF InsertingUnclaimable
  <2>1. Api(s) \in Live
    BY DEF Handlers
  <2> QED BY <1>4, <1>5, <2>1, Ids DEF InsertingUnclaimable
<1>11. DuplicateExplained'
  <2> SUFFICES ASSUME NEW s \in Sends, Hook(s) \in Live PROVE Unclaimable(s)'
    BY <1>1 DEF DuplicateExplained
  <2>1. Accepted(s)
    BY Ids DEF RowShapes, IdsAccepted, Msgs
  <2>2. Api(s) \in Live
    BY <2>1 DEF Handlers
  <2> QED BY <1>5, <2>2 DEF DuplicateExplained
<1> QED BY <1>6, <1>7, <1>8, <1>9, <1>10, <1>11

-----------------------------------------------------------------------------
\* One lemma per action that writes rows.

LEMMA StepStartSend == ASSUME IInv, NEW s \in Sends, StartSend(s) PROVE IInv'
<1> DEFINE r == [ext |-> FallbackId(s), body |-> rowBody[s], status |-> "pending", sentAt |-> clock]
<1> USE DEF IInv
<1>1. r \in Message /\ r # NoRow
  BY OutboundAssumption, NoRowAssumption, Ids DEF Message, Status, TypeOK
<1>2. /\ rows' = [rows EXCEPT ![Api(s)] = r] /\ pc' = [pc EXCEPT ![s] = "calling"]
      /\ UNCHANGED <<answer, acceptedAt, echoes, inserting, acked, clock, crashes>>
      /\ pc[s] = "idle"
  BY DEF StartSend
<1> HIDE DEF r
<1>3. /\ Api(s) \in RowKeys /\ rows'[Api(s)] = r
      /\ \A j \in RowKeys \ {Api(s)} : rows'[j] = rows[j]
      /\ Live' = Live \cup {Api(s)}
  BY <1>1, <1>2, Keys DEF TypeOK, Live
<1>4. TypeOK'
  BY <1>1, <1>2, <1>3 DEF TypeOK, PC
<1>5. ~Accepted(s) /\ \A m : Accepted(m)' = Accepted(m)
  BY <1>2 DEF Handlers, Accepted
<1>6. Handlers'
  BY <1>2, <1>3, <1>5, Keys DEF Handlers, TypeOK
<1>7. Hook(s) \notin Live /\ s \notin inserting
  BY <1>5, Ids DEF RowShapes, IdsAccepted, Handlers, Msgs
<1>8. r.ext = FallbackId(s) /\ r.body = rowBody[s] /\ r.status = "pending"
  BY DEF r
<1>9. RowShapes'
  BY <1>3, <1>8, Keys DEF RowShapes, Live
<1>10. IdsAccepted' /\ ProviderIdOnMatchingRow' /\ SentIsAccepted'
  <2>1. ASSUME NEW j \in Live', rows'[j].ext.kind = "wa" PROVE Accepted(rows'[j].ext.of)
    <3>1. j # Api(s)
      BY <1>3, <1>8, <2>1, Ids
    <3>2. j \in Live /\ rows'[j] = rows[j]
      BY <1>3, <3>1 DEF Live
    <3> QED BY <2>1, <3>2 DEF IdsAccepted
  <2>2. ASSUME NEW j \in Live', NEW m \in Msgs, rows'[j].ext = ProviderId(m)
        PROVE  \/ j.msg = m
               \/ /\ j.origin = "api" /\ rowBody[j.msg] = echoBody[m]
                  /\ Accepted(m)' /\ Near(rows'[j].sentAt, acceptedAt'[m])
    <3>1. j # Api(s)
      BY <1>3, <1>8, <2>2, Ids
    <3>2. j \in Live /\ rows'[j] = rows[j]
      BY <1>3, <3>1 DEF Live
    <3> QED BY <1>2, <1>5, <2>2, <3>2 DEF ProviderIdOnMatchingRow
  <2>3. ASSUME NEW j \in Live', rows'[j].status \in {"sent", "delivered", "read"}
        PROVE  rows'[j].ext.kind \in {"uza", "wa"} /\ Accepted(rows'[j].ext.of)
    <3>1. j # Api(s)
      BY <1>3, <1>8, <2>3
    <3>2. j \in Live /\ rows'[j] = rows[j]
      BY <1>3, <3>1 DEF Live
    <3> QED BY <2>3, <3>2 DEF SentIsAccepted
  <2> QED BY <1>5, <2>1, <2>2, <2>3 DEF IdsAccepted, ProviderIdOnMatchingRow, SentIsAccepted
<1>11. ASSUME NEW t \in Sends, t # s PROVE Unclaimable(t)' = Unclaimable(t)
  BY <1>2, <1>3, <1>11, Keys DEF Unclaimable
<1>12. InsertingUnclaimable'
  BY <1>2, <1>3, <1>7, <1>11, Keys DEF InsertingUnclaimable
<1>13. DuplicateExplained'
  BY <1>3, <1>7, <1>11, Keys DEF DuplicateExplained, Msgs
<1> QED BY <1>4, <1>6, <1>9, <1>10, <1>12, <1>13

LEMMA StepStoreAnswer == ASSUME IInv, NEW s \in Sends, StoreAnswer(s) PROVE IInv'
<1> USE DEF IInv
<1>1. /\ pc' \in [Sends -> PC] /\ \A t \in Sends : (pc'[t] = "idle" <=> pc[t] = "idle")
      /\ \A t \in Sends : pc'[t] = "answered" => pc[t] = "answered"
      /\ UNCHANGED <<answer, acceptedAt, echoes, inserting, acked, clock, crashes>>
      /\ pc[s] = "answered"
  BY DEF StoreAnswer, TypeOK, PC
<1>2. Api(s) \in Live /\ answer[s] \in {"id", "noid", "failed"}
  BY <1>1 DEF Handlers
<1>3. CASE UNCHANGED rows
  <2>1. TypeOK'
    BY <1>1, <1>3 DEF TypeOK
  <2>2. Handlers'
    BY <1>1, <1>3 DEF Handlers, Live, Accepted
  <2> QED BY <1>1, <1>3, <2>1, <2>2, RowsUnchanged DEF Handlers
<1>4. CASE rows' # rows
  <2> DEFINE st == IF answer[s] = "failed" THEN "failed" ELSE "sent"
             r == [ext |-> AnswerId(s), body |-> rows[Api(s)].body,
                   status |-> st, sentAt |-> rows[Api(s)].sentAt]
  <2>1. rows' = [rows EXCEPT ![Api(s)] = r] /\ rows[Api(s)].ext.kind = "uza"
    BY <1>4 DEF StoreAnswer, Update, HoldsFallback
  <2>2. rows[Api(s)] \in Message /\ Api(s) \in RowKeys
    BY <1>2 DEF Live, TypeOK
  <2>3. AnswerId(s) \in ExtIds
    BY Ids DEF AnswerId, Msgs
  <2>4. r \in Message
    BY <2>2, <2>3 DEF Message, Status
  <2>5. TypeOK'
    BY <1>1, <2>1, <2>2, <2>4 DEF TypeOK
  <2>6. Live' = Live
    BY <2>1, <2>4, <1>2, NoRowAssumption DEF Live, TypeOK
  <2>7. Handlers'
    BY <1>1, <2>6 DEF Handlers, Accepted
  <2>8. rows[Api(s)].ext = FallbackId(s)
    BY <1>2, <2>1 DEF RowShapes
  <2>9. /\ answer[s] = "id" => AnswerId(s) = ProviderId(s)
        /\ answer[s] = "noid" => AnswerId(s) = FallbackId(s)
        /\ answer[s] = "failed" => AnswerId(s) = EmptyId
    BY DEF AnswerId
  <2>10. answer[s] \in {"id", "noid"} => Accepted(s)
    BY DEF Handlers
  <2>11. /\ r.ext = AnswerId(s) /\ r.body = rows[Api(s)].body
         /\ r.sentAt = rows[Api(s)].sentAt /\ r.status = st
    OBVIOUS
  <2> HIDE DEF r
  <2>12. r.ext.kind = "uza" => r.ext = rows[Api(s)].ext
    BY <1>2, <2>8, <2>9, <2>11, Ids
  <2>13. ASSUME NEW m \in Msgs, r.ext = ProviderId(m) PROVE Accepted(m) /\ Api(s).msg = m
    BY <1>2, <2>9, <2>10, <2>11, <2>13, Ids, Keys
  <2>15. \A m \in Msgs : r.ext = ProviderId(m) =>
            /\ Accepted(m)
            /\ \/ Api(s).msg = m
               \/ /\ Api(s).origin = "api" /\ rowBody[Api(s).msg] = echoBody[m]
                  /\ Near(rows[Api(s)].sentAt, acceptedAt[m])
    BY <2>13
  <2>14. r.status \in {"sent", "delivered", "read"} =>
             r.ext.kind \in {"uza", "wa"} /\ Accepted(r.ext.of)
    BY <1>2, <2>9, <2>10, <2>11, Ids
  <2>16. Api(s).origin # "hook" /\ UNCHANGED <<acceptedAt, inserting>>
    BY <1>1, Keys
  <2> QED BY <1>2, <2>1, <2>4, <2>5, <2>7, <2>11, <2>12, <2>14, <2>15, <2>16, RowUpdated
<1> QED BY <1>3, <1>4

LEMMA StepMarkFailed == ASSUME IInv, NEW s \in Sends, MarkFailed(s) PROVE IInv'
<1> USE DEF IInv
<1> DEFINE r == [ext |-> rows[Api(s)].ext, body |-> rows[Api(s)].body,
                 status |-> "failed", sentAt |-> rows[Api(s)].sentAt]
<1>1. /\ rows' = [rows EXCEPT ![Api(s)] = r] /\ pc' = [pc EXCEPT ![s] = "errored"]
      /\ UNCHANGED <<answer, acceptedAt, echoes, inserting, acked, clock, crashes>>
      /\ pc[s] = "catch"
  BY DEF MarkFailed, Update
<1>2. Api(s) \in Live /\ Api(s) \in RowKeys /\ rows[Api(s)] \in Message
  BY <1>1, Keys DEF Handlers, Live, TypeOK
<1>3. r \in Message
  BY <1>2 DEF Message, Status
<1>4. TypeOK'
  BY <1>1, <1>2, <1>3 DEF TypeOK, PC
<1>5. Live' = Live
  BY <1>1, <1>2, <1>3, NoRowAssumption DEF Live, TypeOK
<1>6. Handlers'
  BY <1>1, <1>5 DEF Handlers, Accepted, TypeOK
<1>7. /\ r.ext = rows[Api(s)].ext /\ r.body = rows[Api(s)].body
      /\ r.sentAt = rows[Api(s)].sentAt /\ r.status = "failed"
  OBVIOUS
<1> HIDE DEF r
<1>8. \A m \in Msgs : r.ext = ProviderId(m) =>
         /\ Accepted(m)
         /\ \/ Api(s).msg = m
            \/ /\ Api(s).origin = "api" /\ rowBody[Api(s).msg] = echoBody[m]
               /\ Near(rows[Api(s)].sentAt, acceptedAt[m])
  <2> SUFFICES ASSUME NEW m \in Msgs, rows[Api(s)].ext = ProviderId(m)
               PROVE  /\ Accepted(m)
                      /\ \/ Api(s).msg = m
                         \/ /\ Api(s).origin = "api" /\ rowBody[Api(s).msg] = echoBody[m]
                            /\ Near(rows[Api(s)].sentAt, acceptedAt[m])
    BY <1>7
  <2>1. rows[Api(s)].ext.kind = "wa" /\ rows[Api(s)].ext.of = m
    BY Ids
  <2> QED BY <1>2, <2>1 DEF IdsAccepted, ProviderIdOnMatchingRow
<1>9. Api(s).origin # "hook" /\ UNCHANGED <<acceptedAt, inserting>>
  BY <1>1, Keys
<1> QED BY <1>1, <1>2, <1>3, <1>4, <1>6, <1>7, <1>8, <1>9, RowUpdated

LEMMA StepDeleteMessage == ASSUME IInv, NEW k \in RowKeys, DeleteMessage(k) PROVE IInv'
<1> USE DEF IInv
<1> DEFINE r == [ext |-> rows[k].ext, body |-> Erased,
                 status |-> rows[k].status, sentAt |-> rows[k].sentAt]
<1>1. k \in Live /\ rows[k] \in Message
  BY DEF DeleteMessage, Live, TypeOK
<1>2. /\ rows' = [rows EXCEPT ![k] = r]
      /\ UNCHANGED <<pc, answer, acceptedAt, echoes, inserting, acked, clock, crashes>>
  <2>1. [rows[k] EXCEPT !.body = Erased] = r
    BY <1>1 DEF Message
  <2> HIDE DEF r
  <2> QED BY <1>1, <2>1 DEF DeleteMessage
<1>3. r \in Message
  BY <1>1 DEF Message
<1>4. TypeOK'
  BY <1>2, <1>3 DEF TypeOK
<1>5. Live' = Live
  BY <1>1, <1>2, <1>3, NoRowAssumption DEF Live, TypeOK
<1>6. Handlers'
  BY <1>2, <1>5 DEF Handlers, Accepted
<1>7. /\ r.ext = rows[k].ext /\ r.body = Erased
      /\ r.sentAt = rows[k].sentAt /\ r.status = rows[k].status
  OBVIOUS
<1> HIDE DEF r
<1>8. \A m \in Msgs : r.ext = ProviderId(m) =>
         /\ Accepted(m)
         /\ \/ k.msg = m
            \/ /\ k.origin = "api" /\ rowBody[k.msg] = echoBody[m]
               /\ Near(rows[k].sentAt, acceptedAt[m])
  <2> SUFFICES ASSUME NEW m \in Msgs, rows[k].ext = ProviderId(m)
               PROVE  /\ Accepted(m)
                      /\ \/ k.msg = m
                         \/ /\ k.origin = "api" /\ rowBody[k.msg] = echoBody[m]
                            /\ Near(rows[k].sentAt, acceptedAt[m])
    BY <1>7
  <2>1. rows[k].ext.kind = "wa" /\ rows[k].ext.of = m
    BY Ids
  <2> QED BY <1>1, <2>1 DEF IdsAccepted, ProviderIdOnMatchingRow
<1>9. r.status \in {"sent", "delivered", "read"} =>
         r.ext.kind \in {"uza", "wa"} /\ Accepted(r.ext.of)
  BY <1>1, <1>7 DEF SentIsAccepted
<1>10. UNCHANGED <<acceptedAt, inserting>>
  BY <1>2
<1> QED BY <1>1, <1>2, <1>3, <1>4, <1>6, <1>7, <1>8, <1>9, <1>10, RowUpdated

LEMMA StepClaimEcho == ASSUME IInv, NEW m \in Msgs, ClaimEcho(m) PROVE IInv'
<1> USE DEF IInv
<1>1. /\ Accepted(m) /\ echoes' \in [Msgs -> 0..MaxEchoes]
      /\ inserting' \in {inserting, inserting \cup {m}}
      /\ UNCHANGED <<pc, answer, acceptedAt, acked, clock, crashes>>
  <2>1. Accepted(m) /\ UNCHANGED <<pc, answer, acceptedAt, acked, clock, crashes>>
    BY DEF ClaimEcho
  <2>2. echoes' \in [Msgs -> 0..MaxEchoes]
    BY OutboundAssumption DEF ClaimEcho, TypeOK
  <2>3. inserting' = inserting \/ inserting' = inserting \cup {m}
    BY Zenon DEF ClaimEcho
  <2> QED BY <2>1, <2>2, <2>3
<1>2. CASE UNCHANGED rows
  <2>1. TypeOK'
    BY <1>1, <1>2 DEF TypeOK
  <2>2. Handlers'
    BY <1>1, <1>2 DEF Handlers, Live, Accepted
  <2>3. ASSUME m \in Sends, inserting' # inserting
        PROVE  Unclaimable(m) \/ rows[Api(m)].ext = ProviderId(m)
    <3>1. Claimable(m) = {}
      BY <1>2, <2>3 DEF ClaimEcho
    <3>2. Api(m) \in Live /\ rows[Api(m)].ext \in ExtIds
      BY <1>1, <2>3 DEF Handlers, Live, TypeOK, Message
    <3>3. \/ rows[Api(m)].body # echoBody[m]
          \/ rows[Api(m)].ext.kind # "uza"
          \/ ~Near(rows[Api(m)].sentAt, acceptedAt[m])
      BY <3>1, <3>2 DEF Claimable, HoldsFallback
    <3>4. rows[Api(m)].body \in {rowBody[m], Erased}
      BY <2>3, <3>2 DEF RowShapes
    <3> QED BY <3>2, <3>3, <3>4, Ids DEF Unclaimable
  <2>4. \A s \in inserting' \cap Sends : s \in inserting \/ Unclaimable(s)
                                              \/ rows[Api(s)].ext = ProviderId(s)
    BY <1>1, <2>3
  <2>5. \A n \in inserting' : Accepted(n)
    BY <1>1 DEF Handlers
  <2> QED BY <1>1, <1>2, <2>1, <2>2, <2>4, <2>5, RowsUnchanged
<1>3. CASE rows' # rows
  <2>1. PICK k \in Claimable(m) :
           rows' = Update(k, ProviderId(m), "sent") /\ UNCHANGED inserting
    BY <1>3 DEF ClaimEcho
  <2> DEFINE r == [ext |-> ProviderId(m), body |-> rows[k].body,
                   status |-> "sent", sentAt |-> rows[k].sentAt]
  <2>2. /\ k \in Live /\ rows[k] \in Message /\ rows[k].ext.kind = "uza"
        /\ rows[k].body = echoBody[m] /\ Near(rows[k].sentAt, acceptedAt[m])
        /\ rows' = [rows EXCEPT ![k] = r]
    BY <2>1 DEF Claimable, Live, TypeOK, HoldsFallback, Update
  <2>3. r \in Message
    BY <2>2, Ids DEF Message, Status
  <2>4. TypeOK'
    BY <1>1, <2>1, <2>2, <2>3 DEF TypeOK
  <2>5. Live' = Live
    BY <2>2, <2>3, NoRowAssumption DEF Live, TypeOK
  <2>6. Handlers'
    BY <1>1, <2>1, <2>5 DEF Handlers, Accepted
  <2>7. PICK s \in Sends : k = Api(s)
    BY <2>2, Keys, Ids DEF Live, RowShapes
  <2>8. rowBody[s] = echoBody[m]
    BY <2>2, <2>7, OutboundAssumption DEF RowShapes
  <2>9. /\ r.ext = ProviderId(m) /\ r.body = rows[k].body
        /\ r.sentAt = rows[k].sentAt /\ r.status = "sent"
    OBVIOUS
  <2> HIDE DEF r
  <2>10. \A n \in Msgs : r.ext = ProviderId(n) =>
            /\ Accepted(n)
            /\ \/ k.msg = n
               \/ /\ k.origin = "api" /\ rowBody[k.msg] = echoBody[n]
                  /\ Near(rows[k].sentAt, acceptedAt[n])
    <3> SUFFICES ASSUME NEW n \in Msgs, r.ext = ProviderId(n)
                 PROVE  /\ Accepted(m) /\ n = m
                        /\ k.origin = "api" /\ rowBody[k.msg] = echoBody[m]
                        /\ Near(rows[k].sentAt, acceptedAt[m])
      OBVIOUS
    <3>1. n = m
      <4>1. ProviderId(m) = ProviderId(n)
        BY <2>9
      <4> QED BY <4>1, Ids
    <3>2. k.origin = "api" /\ k.msg = s
      BY <2>7, Keys
    <3> QED BY <1>1, <2>2, <2>8, <3>1, <3>2
  <2>11. /\ k.origin # "hook" /\ UNCHANGED <<acceptedAt, inserting>>
         /\ r.ext.kind = "wa" /\ Accepted(r.ext.of)
    BY <1>1, <2>1, <2>7, <2>9, Keys, Ids
  <2> QED BY <2>2, <2>3, <2>4, <2>6, <2>9, <2>10, <2>11, RowUpdated
<1> QED BY <1>2, <1>3

LEMMA StepInsertEcho == ASSUME IInv, NEW m \in Msgs, InsertEcho(m) PROVE IInv'
<1> USE DEF IInv
<1> DEFINE r == [ext |-> ProviderId(m), body |-> echoBody[m],
                 status |-> "sent", sentAt |-> acceptedAt[m]]
<1>1. /\ m \in inserting /\ inserting' = inserting \ {m}
      /\ UNCHANGED <<pc, answer, acceptedAt, echoes, acked, clock, crashes>>
  BY DEF InsertEcho
<1>2. Accepted(m)
  BY <1>1 DEF Handlers
<1>3. CASE UNCHANGED rows
  <2>1. TypeOK' /\ Handlers'
    BY <1>1, <1>3 DEF TypeOK, Handlers, Live, Accepted
  <2> QED BY <1>1, <1>3, <2>1, RowsUnchanged DEF Handlers
<1>4. CASE rows' # rows
  <2>1. rows' = [rows EXCEPT ![Hook(m)] = r] /\ \A j \in Live : rows[j].ext # ProviderId(m)
    BY <1>4 DEF InsertEcho
  <2>2. r \in Message /\ r # NoRow
    BY <1>2, OutboundAssumption, NoRowAssumption, Ids DEF Message, Status, TypeOK, Accepted
  <2>3. Hook(m) \notin Live
    BY <2>1 DEF RowShapes
  <2>4. r.ext = ProviderId(m) /\ r.status = "sent"
    OBVIOUS
  <2> HIDE DEF r
  <2>5. /\ rows'[Hook(m)] = r /\ Hook(m) \in RowKeys
        /\ \A j \in RowKeys \ {Hook(m)} : rows'[j] = rows[j]
        /\ Live' = Live \cup {Hook(m)}
    BY <2>1, <2>2, Keys DEF TypeOK, Live
  <2>6. TypeOK'
    BY <1>1, <2>1, <2>2 DEF TypeOK
  <2>7. Handlers'
    <3>1. \A s \in Sends : Api(s) \in Live' <=> Api(s) \in Live
      BY <2>5, Keys
    <3> QED BY <1>1, <3>1 DEF Handlers, Accepted
  <2>8. \A n : Accepted(n)' = Accepted(n)
    BY <1>1 DEF Accepted
  <2>9. RowShapes'
    BY <2>4, <2>5, Keys DEF RowShapes, Live
  <2>10. ASSUME NEW j \in Live', j # Hook(m) PROVE j \in Live /\ rows'[j] = rows[j]
    BY <2>5, <2>10 DEF Live
  <2>11. IdsAccepted'
    <3> SUFFICES ASSUME NEW j \in Live', rows'[j].ext.kind = "wa"
                 PROVE  Accepted(rows'[j].ext.of)
      BY <2>8 DEF IdsAccepted
    <3>1. CASE j = Hook(m)
      BY <1>2, <2>4, <2>5, <3>1, Ids
    <3>2. CASE j # Hook(m)
      BY <2>10, <3>2 DEF IdsAccepted
    <3> QED BY <3>1, <3>2
  <2>12. ProviderIdOnMatchingRow'
    <3> SUFFICES ASSUME NEW j \in Live', NEW n \in Msgs, rows'[j].ext = ProviderId(n)
                 PROVE  \/ j.msg = n
                        \/ /\ j.origin = "api" /\ rowBody[j.msg] = echoBody[n]
                           /\ Accepted(n) /\ Near(rows'[j].sentAt, acceptedAt[n])
      BY <1>1, <2>8 DEF ProviderIdOnMatchingRow
    <3>1. CASE j = Hook(m)
      <4>1. ProviderId(m) = ProviderId(n)
        BY <2>4, <2>5, <3>1
      <4> QED BY <3>1, <4>1, Ids, Keys
    <3>2. CASE j # Hook(m)
      BY <2>10, <3>2 DEF ProviderIdOnMatchingRow
    <3> QED BY <3>1, <3>2
  <2>13. SentIsAccepted'
    <3> SUFFICES ASSUME NEW j \in Live', rows'[j].status \in {"sent", "delivered", "read"}
                 PROVE  rows'[j].ext.kind \in {"uza", "wa"} /\ Accepted(rows'[j].ext.of)
      BY <2>8 DEF SentIsAccepted
    <3>1. CASE j = Hook(m)
      BY <1>2, <2>4, <2>5, <3>1, Ids
    <3>2. CASE j # Hook(m)
      BY <2>10, <3>2 DEF SentIsAccepted
    <3> QED BY <3>1, <3>2
  <2>14. \A s \in Sends : rows'[Api(s)] = rows[Api(s)] /\ Unclaimable(s)' = Unclaimable(s)
    BY <1>1, <2>5, Keys DEF Unclaimable
  <2>15. InsertingUnclaimable'
    BY <1>1, <2>14 DEF InsertingUnclaimable
  <2>16. DuplicateExplained'
    <3> SUFFICES ASSUME NEW s \in Sends, Hook(s) \in Live' PROVE Unclaimable(s)
      BY <2>14 DEF DuplicateExplained
    <3>1. CASE s = m
      <4>1. Api(s) \in Live
        BY <1>2, <3>1 DEF Handlers
      <4>2. rows[Api(s)].ext # ProviderId(s)
        BY <2>1, <3>1, <4>1
      <4> QED BY <1>1, <3>1, <4>2 DEF InsertingUnclaimable
    <3>2. CASE s # m
      BY <2>5, <3>2, Keys DEF DuplicateExplained
    <3> QED BY <3>1, <3>2
  <2> QED BY <2>6, <2>7, <2>9, <2>11, <2>12, <2>13, <2>15, <2>16
<1> QED BY <1>3, <1>4

LEMMA StepReceiveAck ==
    ASSUME IInv, NEW m \in Msgs, NEW st \in AckStatuses, ReceiveAck(m, st) PROVE IInv'
<1> USE DEF IInv
<1>1. /\ Accepted(m) /\ acked' \in [Msgs -> SUBSET AckStatuses]
      /\ UNCHANGED <<pc, answer, acceptedAt, echoes, inserting, clock, crashes>>
  BY DEF ReceiveAck, TypeOK
<1>2. /\ rows' \in [RowKeys -> Message \cup {NoRow}]
      /\ Live' = Live
      /\ \A j \in Live : /\ rows'[j].ext = rows[j].ext
                         /\ rows'[j].body = rows[j].body
                         /\ rows'[j].sentAt = rows[j].sentAt
                         /\ rows[j].ext # ProviderId(m) => rows'[j].status = rows[j].status
  BY OutboundAssumption, NoRowAssumption, SMTT(60) DEF ReceiveAck, TypeOK, Live, Message
<1>3. TypeOK' /\ Handlers'
  BY <1>1, <1>2 DEF TypeOK, Handlers, Accepted
<1>4. \A n : Accepted(n)' = Accepted(n)
  BY <1>1 DEF Accepted
<1>5. RowShapes'
  BY <1>2 DEF RowShapes
<1>6. IdsAccepted'
  BY <1>2, <1>4 DEF IdsAccepted
<1>7. ProviderIdOnMatchingRow'
  BY <1>1, <1>2, <1>4 DEF ProviderIdOnMatchingRow
<1>8. SentIsAccepted'
  <2> SUFFICES ASSUME NEW j \in Live, rows'[j].status \in {"sent", "delivered", "read"}
               PROVE  rows[j].ext.kind \in {"uza", "wa"} /\ Accepted(rows[j].ext.of)
    BY <1>2, <1>4 DEF SentIsAccepted
  <2>1. CASE rows[j].ext = ProviderId(m)
    BY <1>1, <2>1, Ids
  <2>2. CASE rows[j].ext # ProviderId(m)
    BY <1>2, <2>2 DEF SentIsAccepted
  <2> QED BY <2>1, <2>2
<1>9. \A s \in Sends : Api(s) \in Live => Unclaimable(s)' = Unclaimable(s)
  BY <1>1, <1>2 DEF Unclaimable
<1>10. InsertingUnclaimable'
  BY <1>1, <1>2, <1>9 DEF InsertingUnclaimable, Handlers
<1>11. DuplicateExplained'
  <2> SUFFICES ASSUME NEW s \in Sends, Hook(s) \in Live PROVE Unclaimable(s)'
    BY <1>2 DEF DuplicateExplained
  <2>1. Accepted(s)
    BY Ids DEF RowShapes, IdsAccepted, Msgs
  <2>2. Api(s) \in Live
    BY <2>1 DEF Handlers
  <2> QED BY <1>9, <2>2 DEF DuplicateExplained
<1> QED BY <1>3, <1>5, <1>6, <1>7, <1>8, <1>10, <1>11

-----------------------------------------------------------------------------
\* Every step keeps the invariant.
LEMMA NextIInv == IInv /\ [Next]_vars => IInv'
<1> SUFFICES ASSUME IInv, [Next]_vars PROVE IInv'
  OBVIOUS
<1> USE DEF IInv
<1>1. ASSUME NEW s \in Sends, ReceiveAnswer(s) PROVE IInv'
  <2>1. TypeOK'
    BY <1>1 DEF ReceiveAnswer, TypeOK, Answers, PC
  <2>2. Handlers'
    BY <1>1 DEF ReceiveAnswer, TypeOK, Handlers, Live, Accepted, Answers
  <2> QED BY <1>1, <2>1, <2>2, RowsUnchanged DEF ReceiveAnswer, Handlers
<1>2. ASSUME NEW m \in Msgs, ~Accepted(m), acceptedAt' = [acceptedAt EXCEPT ![m] = clock],
             m \in Sends => pc[m] # "idle",
             UNCHANGED <<rows, pc, answer, echoes, inserting, acked, clock, crashes>>
      PROVE  IInv'
  <2>1. TypeOK'
    BY <1>2 DEF TypeOK
  <2>2. \A n \in Msgs : Accepted(n) => acceptedAt'[n] = acceptedAt[n]
    BY <1>2 DEF TypeOK
  <2>3. \A n \in Msgs : Accepted(n)' => Accepted(n) \/ n = m
    BY <1>2 DEF TypeOK, Accepted
  <2>4. Handlers'
    BY <1>2, <2>2, <2>3 DEF Handlers, Live, Accepted, Msgs, TypeOK
  <2> QED BY <1>2, <2>1, <2>2, <2>4, RowsUnchanged DEF Handlers
<1>3. ASSUME NEW s \in Sends, AcceptSend(s) PROVE IInv'
  BY <1>2, <1>3 DEF AcceptSend, Msgs
<1>4. ASSUME NEW m \in PhoneMsgs, TypeOnPhone(m) PROVE IInv'
  BY <1>2, <1>4, OutboundAssumption DEF TypeOnPhone, Msgs
<1>5. CASE Crash
  <2>1. TypeOK'
    BY <1>5, OutboundAssumption DEF Crash, TypeOK, PC
  <2>2. Handlers'
    BY <1>5 DEF Crash, Handlers, Live, Accepted
  <2> QED BY <1>5, <2>1, <2>2, RowsUnchanged DEF Crash
<1>6. CASE Tick
  <2>1. TypeOK' /\ Handlers'
    BY <1>6, OutboundAssumption DEF Tick, TypeOK, Time, Handlers, Live, Accepted
  <2> QED BY <1>6, <2>1, RowsUnchanged DEF Tick, Handlers
<1>7. CASE UNCHANGED vars
  <2>1. TypeOK' /\ Handlers'
    BY <1>7 DEF vars, TypeOK, Handlers, Live, Accepted
  <2> QED BY <1>7, <2>1, RowsUnchanged DEF vars, Handlers
<1> QED BY <1>1, <1>3, <1>4, <1>5, <1>6, <1>7, StepStartSend, StepStoreAnswer, StepMarkFailed,
           StepDeleteMessage, StepClaimEcho, StepInsertEcho, StepReceiveAck DEF Next

LEMMA Invariance == Spec => []IInv
BY InitIInv, NextIInv, PTL DEF Spec

\* The messages table, the handlers and the webhook queue stay in their types.
THEOREM TypeSafe == Spec => []TypeOK
BY Invariance, PTL DEF IInv

\* A provider id is on the row of its message, or on the placeholder of a send
\* of the same text within the window: reports and deletions reach that text.
THEOREM IdsOnMatchingRows == Spec => []ProviderIdOnMatchingRow
BY Invariance, PTL DEF IInv

\* A row that reads sent, delivered or read stands for an accepted message.
THEOREM SentRowsAccepted == Spec => []SentIsAccepted
BY Invariance, PTL DEF IInv

\* A send shows twice only when no claim could have matched its placeholder.
THEOREM DuplicatesExplained == Spec => []DuplicateExplained
BY Invariance, PTL DEF IInv

\* No step takes a provider id off the row that has it.
LEMMA FinalStep == IInv /\ [Next]_vars =>
    \A k \in Live : rows[k].ext.kind = "wa" =>
        rows'[k] # NoRow /\ rows'[k].ext = rows[k].ext
<1> SUFFICES ASSUME IInv, [Next]_vars, NEW k \in Live, rows[k].ext.kind = "wa"
             PROVE  rows'[k] # NoRow /\ rows'[k].ext = rows[k].ext
  OBVIOUS
<1> USE DEF IInv
<1>1. k \in RowKeys /\ rows[k] \in Message
  BY DEF Live, TypeOK
<1>2. rows[k] # NoRow
  BY DEF Live
<1>3. ASSUME NEW j \in RowKeys, NEW r, rows' = [rows EXCEPT ![j] = r], j # k
      PROVE  rows'[k] = rows[k]
  BY <1>1, <1>3 DEF TypeOK
<1>4. ASSUME NEW s \in Sends, StartSend(s) PROVE rows'[k] = rows[k]
  BY <1>3, <1>4, Keys DEF StartSend, Handlers
<1>5. ASSUME NEW s \in Sends, StoreAnswer(s) PROVE rows'[k] = rows[k]
  BY <1>3, <1>5, Keys DEF StoreAnswer, Update, HoldsFallback
<1>6. ASSUME NEW s \in Sends, MarkFailed(s)
      PROVE  rows'[k] # NoRow /\ rows'[k].ext = rows[k].ext
  <2>1. CASE k = Api(s)
    <3> DEFINE r == [ext |-> rows[k].ext, body |-> rows[k].body,
                     status |-> "failed", sentAt |-> rows[k].sentAt]
    <3>1. rows'[k] = r
      BY <1>1, <1>6, <2>1 DEF MarkFailed, Update, TypeOK
    <3>2. r \in Message
      BY <1>1 DEF Message, Status
    <3> QED BY <3>1, <3>2, NoRowAssumption
  <2>2. CASE k # Api(s)
    BY <1>2, <1>3, <1>6, <2>2, Keys DEF MarkFailed, Update
  <2> QED BY <2>1, <2>2
<1>7. ASSUME NEW m \in Msgs, ClaimEcho(m) PROVE rows'[k] = rows[k]
  <2>1. CASE UNCHANGED rows
    BY <2>1
  <2>2. CASE rows' # rows
    <3>1. PICK j \in Claimable(m) : rows' = Update(j, ProviderId(m), "sent")
      BY <1>7, <2>2 DEF ClaimEcho
    <3> QED BY <1>3, <3>1 DEF Claimable, HoldsFallback, Live, Update
  <2> QED BY <2>1, <2>2
<1>8. ASSUME NEW m \in Msgs, InsertEcho(m) PROVE rows'[k] = rows[k]
  <2>1. CASE UNCHANGED rows
    BY <2>1
  <2>2. CASE rows' # rows
    <3>1. \A j \in Live : rows[j].ext # ProviderId(m)
      BY <1>8, <2>2 DEF InsertEcho
    <3>2. Hook(m) # k
      BY <3>1 DEF RowShapes
    <3> QED BY <1>3, <1>8, <2>2, <3>2, Keys DEF InsertEcho
  <2> QED BY <2>1, <2>2
<1>9. ASSUME NEW m \in Msgs, NEW st \in AckStatuses, ReceiveAck(m, st)
      PROVE  rows'[k] # NoRow /\ rows'[k].ext = rows[k].ext
  BY <1>1, <1>2, <1>9, OutboundAssumption, NoRowAssumption DEF ReceiveAck, Live, Message
<1>10. ASSUME NEW j \in RowKeys, DeleteMessage(j)
       PROVE  rows'[k] # NoRow /\ rows'[k].ext = rows[k].ext
  <2>1. CASE k = j
    <3>1. rows'[k] = [rows[k] EXCEPT !.body = Erased]
      BY <1>1, <1>10, <2>1 DEF DeleteMessage, TypeOK
    <3>2. [rows[k] EXCEPT !.body = Erased] \in Message
      BY <1>1 DEF Message
    <3> QED BY <1>1, <3>1, <3>2, NoRowAssumption DEF Message
  <2>2. CASE k # j
    BY <1>2, <1>3, <1>10, <2>2 DEF DeleteMessage
  <2> QED BY <2>1, <2>2
<1>11. CASE UNCHANGED rows
  BY <1>2, <1>11
<1> QED BY <1>2, <1>4, <1>5, <1>6, <1>7, <1>8, <1>9, <1>10, <1>11
        DEF Next, ReceiveAnswer, AcceptSend, TypeOnPhone, Crash, Tick, vars

\* A late answer, a repeated echo or a restart never moves a provider id.
THEOREM IdsAreFinal == Spec => ProviderIdIsFinal
BY Invariance, FinalStep, PTL DEF Spec, ProviderIdIsFinal
=============================================================================
