------------------------------- MODULE Signup -------------------------------
(***************************************************************************)
(* The public registration (SignupService): a code is sent by WhatsApp, and *)
(* the right code creates the workspace with its owner, pipeline and agenda *)
(* in one transaction.  The row of a code is read as an entity and saved    *)
(* whole later, after a bcrypt or a query, by resend and by verify.         *)
(***************************************************************************)
EXTENDS Integers, FiniteSets

CONSTANTS
    Otps, Addresses, AddressOf,  \* the codes' rows, and the e-mail each was asked for
    Requests,                    \* concurrent requests
    MaxAttempts,                 \* OTP_MAX_ATTEMPTS
    MaxCodes, MaxRequests,       \* bounds: codes generated for a row; requests
    NoRow, NoOtp

\* A generated code is named by its number; expiresAt and createdAt are written with it.
Codes == 1..MaxCodes
Row == [code : Codes, attempts : 0..MaxAttempts, consumed : BOOLEAN]

ConstantsOK ==
    /\ AddressOf \in [Otps -> Addresses] /\ NoOtp \notin Otps /\ NoRow \notin Row
    /\ MaxAttempts \in Nat \ {0} /\ MaxCodes \in Nat \ {0} /\ MaxRequests \in Nat

VARIABLES
    rows,        \* otp_verifications
    age,         \* of each code: unused, in its cooldown, valid, or expired
    workspaces,  \* how many workspaces have an owner of each address
    requests,    \* where each request stands, and the copy of the row it read
    sent,        \* the code of the last message that left for each row (0: none)
    served,      \* requests made so far
    failures,    \* history: wrong answers given since the code was generated
    crossed,     \* history: rows saved over somebody else's save, or whose messages
                 \* were not sent in order
    overlapped   \* history: addresses two verifications found free at once

vars == <<rows, age, workspaces, requests, sent, served, failures, crossed, overlapped>>

Request == [pc : {"idle", "send", "resend", "wrong", "right", "create"},
            otp : Otps \cup {NoOtp}, copy : Row \cup {NoRow}, code : 0..MaxCodes]
Idle == [pc |-> "idle", otp |-> NoOtp, copy |-> NoRow, code |-> 0]

TypeOK ==
    /\ rows \in [Otps -> Row \cup {NoRow}]
    /\ age \in [Otps -> [Codes -> {"unused", "new", "cooled", "expired"}]]
    /\ workspaces \in [Addresses -> Nat]
    /\ requests \in [Requests -> Request]
    /\ sent \in [Otps -> 0..MaxCodes]
    /\ served \in 0..MaxRequests
    /\ failures \in [Otps -> Nat]
    /\ crossed \subseteq Otps /\ overlapped \subseteq Addresses

Init ==
    /\ rows = [o \in Otps |-> NoRow]
    /\ age = [o \in Otps |-> [c \in Codes |-> "unused"]]
    /\ workspaces = [a \in Addresses |-> 0]
    /\ requests = [q \in Requests |-> Idle]
    /\ sent = [o \in Otps |-> 0] /\ failures = [o \in Otps |-> 0]
    /\ served = 0 /\ crossed = {} /\ overlapped = {}

Exists(o) == rows[o] # NoRow
\* The client is told the id of the row when start has sent its message.
Known(o) == Exists(o) /\ sent[o] # 0
AgeOf(o) == age[o][rows[o].code]

NextCode(o) == 1 + Cardinality({c \in Codes : age[o][c] # "unused"})
Generate(o, code) == age' = [age EXCEPT ![o][code] = "new"]

Arrive == served < MaxRequests /\ served' = served + 1
GoTo(q, pc, o, copy, code) ==
    requests' = [requests EXCEPT ![q] = [pc |-> pc, otp |-> o, copy |-> copy, code |-> code]]
End(q) == requests' = [requests EXCEPT ![q] = Idle]

\* save(): every column takes the entity's value, whatever was written since the read.
Save(q, row) ==
    LET r == requests[q] IN
    /\ rows' = [rows EXCEPT ![r.otp] = row]
    /\ crossed' = IF r.copy = rows[r.otp] THEN crossed ELSE crossed \cup {r.otp}

-----------------------------------------------------------------------------
\* start: the address must be free.
Start(q, o) ==
    /\ requests[q].pc = "idle" /\ ~Exists(o)
    /\ workspaces[AddressOf[o]] = 0
    /\ rows' = [rows EXCEPT ![o] = [code |-> 1, attempts |-> 0, consumed |-> FALSE]]
    /\ Generate(o, 1)
    /\ GoTo(q, "send", o, NoRow, 1)
    /\ Arrive
    /\ UNCHANGED <<workspaces, sent, failures, crossed, overlapped>>

\* resend, up to the hash.
ReadForResend(q, o) ==
    /\ requests[q].pc = "idle" /\ Known(o)
    /\ ~rows[o].consumed /\ AgeOf(o) # "new"
    /\ GoTo(q, "resend", o, rows[o], 0)
    /\ Arrive
    /\ UNCHANGED <<rows, age, workspaces, sent, failures, crossed, overlapped>>

SaveResend(q) ==
    LET o == requests[q].otp IN
    /\ requests[q].pc = "resend" /\ NextCode(o) \in Codes
    /\ Save(q, [requests[q].copy EXCEPT !.code = NextCode(o), !.attempts = 0])
    /\ failures' = [failures EXCEPT ![o] = 0]
    /\ Generate(o, NextCode(o))
    /\ GoTo(q, "send", o, NoRow, NextCode(o))
    /\ UNCHANGED <<workspaces, sent, served, overlapped>>

SendMessage(q) ==
    /\ requests[q].pc = "send"
    /\ sent' = [sent EXCEPT ![requests[q].otp] = requests[q].code]
    /\ crossed' = IF sent[requests[q].otp] > requests[q].code
                  THEN crossed \cup {requests[q].otp} ELSE crossed
    /\ End(q)
    /\ UNCHANGED <<rows, age, workspaces, served, failures, overlapped>>

\* "Não foi possível enviar o código": the row keeps the code nobody received.
SendFails(q) ==
    /\ requests[q].pc = "send"
    /\ crossed' = crossed \cup {requests[q].otp}
    /\ End(q)
    /\ UNCHANGED <<rows, age, workspaces, sent, served, failures, overlapped>>

-----------------------------------------------------------------------------
\* verify.

\* Mutated form of ReadForVerify: the attempts are not looked at.
ReadForVerify_AnyAttempt(q, o, code) ==
    /\ requests[q].pc = "idle" /\ Known(o)
    /\ ~rows[o].consumed /\ AgeOf(o) # "expired"
    /\ GoTo(q, IF code = rows[o].code THEN "right" ELSE "wrong", o, rows[o], 0)
    /\ Arrive
    /\ UNCHANGED <<rows, age, workspaces, sent, failures, crossed, overlapped>>

ReadForVerify(q, o, code) ==
    /\ requests[q].pc = "idle" /\ Known(o)
    /\ ~rows[o].consumed /\ AgeOf(o) # "expired" /\ rows[o].attempts < MaxAttempts
    /\ GoTo(q, IF code = rows[o].code THEN "right" ELSE "wrong", o, rows[o], 0)
    /\ Arrive
    /\ UNCHANGED <<rows, age, workspaces, sent, failures, crossed, overlapped>>

SaveFailure(q) ==
    LET r == requests[q] IN
    /\ r.pc = "wrong"
    /\ Save(q, [r.copy EXCEPT !.attempts = @ + 1])
    /\ failures' = [failures EXCEPT ![r.otp] = @ + 1]
    /\ End(q)
    /\ UNCHANGED <<age, workspaces, sent, served, overlapped>>

\* Mutated form of CheckAddress: start has checked it already.
CheckAddress_Skipped(q) ==
    LET r == requests[q] IN
    /\ r.pc = "right"
    /\ requests' = [requests EXCEPT ![q].pc = "create"]
    /\ UNCHANGED <<rows, age, workspaces, sent, served, failures, crossed, overlapped>>

CheckAddress(q) ==
    LET r == requests[q]
        address == AddressOf[r.otp]
    IN  /\ r.pc = "right"
        /\ IF workspaces[address] = 0
           THEN requests' = [requests EXCEPT ![q].pc = "create"]
           ELSE End(q)
        /\ overlapped' = IF \E p \in Requests : /\ requests[p].pc = "create"
                                                /\ AddressOf[requests[p].otp] = address
                         THEN overlapped \cup {address} ELSE overlapped
        /\ UNCHANGED <<rows, age, workspaces, sent, served, failures, crossed>>

\* The transaction: workspace, owner, pipeline, stages, agenda, and the code marked
\* consumed.  No constraint makes an address unique over the workspaces.
CreateWorkspace(q) ==
    LET r == requests[q] IN
    /\ r.pc = "create"
    /\ workspaces' = [workspaces EXCEPT ![AddressOf[r.otp]] = @ + 1]
    /\ Save(q, [r.copy EXCEPT !.consumed = TRUE])
    /\ End(q)
    /\ UNCHANGED <<age, sent, served, failures, overlapped>>

Rollback(q) ==
    /\ requests[q].pc = "create" /\ End(q)
    /\ UNCHANGED <<rows, age, workspaces, sent, served, failures, crossed, overlapped>>

-----------------------------------------------------------------------------
\* Sixty seconds, then ten minutes, after a code was stored.
Grow(o) ==
    /\ Exists(o) /\ AgeOf(o) # "expired"
    /\ age' = [age EXCEPT ![o][rows[o].code] = IF @ = "new" THEN "cooled" ELSE "expired"]
    /\ UNCHANGED <<rows, workspaces, requests, sent, served, failures, crossed, overlapped>>

Step(q) ==
    \/ SaveResend(q) \/ SendMessage(q) \/ SendFails(q)
    \/ SaveFailure(q) \/ CheckAddress(q) \/ CreateWorkspace(q) \/ Rollback(q)

Next ==
    \/ \E q \in Requests, o \in Otps : Start(q, o) \/ ReadForResend(q, o)
    \/ \E q \in Requests, o \in Otps : \E code \in {0, sent[o]} : ReadForVerify(q, o, code)
    \/ \E q \in Requests : Step(q)
    \/ \E o \in Otps : Grow(o)

Spec == Init /\ [][Next]_vars

-----------------------------------------------------------------------------
\* signup.service.ts:147: "Email já cadastrado" - an address gets a second workspace
\* only when two verifications found it free at once.
OneWorkspacePerAddress == \A a \in Addresses : workspaces[a] <= 1 \/ a \in overlapped

\* Every wrong answer since the code was generated is counted, and a new code gives
\* all the attempts back, unless a save went over another one.
FailuresCounted == \A o \in Otps : Exists(o) => rows[o].attempts = failures[o] \/ o \in crossed

\* The code of the last message is the one the row holds, once no message is under
\* way, unless a save went over another one or a message failed or overtook a newer one.
LastCodeWorks ==
    \A o \in Otps :
        Exists(o) => \/ rows[o].code = sent[o] \/ o \in crossed
                     \/ \E q \in Requests : requests[q].pc = "send" /\ requests[q].otp = o

\* A code that created a workspace is refused from then on, unless a save that had
\* read the row before unmarks it.
UsedCodeStaysUsed ==
    [][\A o \in Otps : Exists(o) /\ rows[o].consumed
                       => rows'[o].consumed \/ o \in crossed']_vars

-----------------------------------------------------------------------------
(* The inductive invariant behind these: what is still true of a row, of the
   address and of the codes while requests hold a copy of the row. *)

Sends(q, o) == requests[q].pc = "send" /\ requests[q].otp = o
Creates(q, a) == requests[q].pc = "create" /\ AddressOf[requests[q].otp] = a
Used(o) == {c \in Codes : age[o][c] # "unused"}

RequestsOK ==
    \A q \in Requests :
        /\ requests[q].pc # "idle" => requests[q].otp \in Otps /\ Exists(requests[q].otp)
        /\ requests[q].pc \in {"resend", "wrong", "right", "create"} <=> requests[q].copy # NoRow
        /\ requests[q].pc = "wrong" => requests[q].copy.attempts < MaxAttempts
        /\ requests[q].pc = "send" => requests[q].code \in Codes

\* Whoever creates a workspace for an address is alone, and it is still the first.
CreatorsAlone ==
    \A a \in Addresses \ overlapped :
        /\ workspaces[a] <= 1
        /\ \A q \in Requests : Creates(q, a) =>
               workspaces[a] = 0 /\ \A p \in Requests : Creates(p, a) => p = q

FailuresKept ==
    /\ FailuresCounted
    /\ \A o \in Otps : ~Exists(o) => failures[o] = 0

\* The codes of a row are generated in order, and no copy has one of the future.
CodesInOrder ==
    \A o \in Otps :
        /\ \E n \in 0..MaxCodes : Used(o) = 1..n
        /\ Exists(o) => rows[o].code \in Used(o)
        /\ \A q \in Requests :
               requests[q].otp = o /\ requests[q].copy # NoRow => requests[q].copy.code \in Used(o)

\* Of a row nobody crossed, the newest code was sent last or is about to be sent.
NewestSent ==
    \A o \in Otps \ crossed : Exists(o) =>
        /\ \A q \in Requests : Sends(q, o) => requests[q].code <= rows[o].code
        /\ rows[o].code = sent[o] \/ \E q \in Requests : Sends(q, o) /\ requests[q].code = rows[o].code

IInv == TypeOK /\ RequestsOK /\ CreatorsAlone /\ FailuresKept /\ CodesInOrder /\ NewestSent
=============================================================================
