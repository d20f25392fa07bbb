---------------------------- MODULE OneTimeCodes ----------------------------
(***************************************************************************)
(* The codes that confirm a new password or address (OtpService): a code    *)
(* and a count of failures in Redis, a signed token for the right code, and *)
(* a mark that the token was consumed.  One purpose and one user: the keys  *)
(* of two never meet.  Every Redis command is a step of its own.            *)
(***************************************************************************)
EXTENDS Integers, FiniteSets

CONSTANTS
    Requests,             \* concurrent requests
    MaxAttempts,          \* MAX_ATTEMPTS
    MaxCodes, MaxRequests \* bounds: codes generated; requests

ConstantsOK ==
    IsFiniteSet(Requests) /\ MaxAttempts \in Nat \ {0} /\ MaxCodes \in Nat /\ MaxRequests \in Nat

Codes == 1..MaxCodes
Tokens == 1..MaxRequests

VARIABLES
    stored,      \* otp:<purpose>:<user>; 0 when the key is absent
    attempts,    \* otp_attempts:<purpose>:<user>
    issued,      \* codes generated so far
    sent,        \* the code of the last message that left
    tokens,      \* for each token signed, the code it was signed for
    consumed,    \* otp_consumed:<token>
    applied,     \* how often each token changed the password or the address
    requests, served,
    crossed,     \* history: codes deleted by the verification of an older one, or
                 \* whose message was overtaken or failed
    overlapped   \* history: codes two verifications compared before either deleted it

vars == <<stored, attempts, issued, sent, tokens, consumed, applied, requests, served, crossed, overlapped>>

Request == [pc : {"idle", "send", "compare", "fail", "delete", "sign", "apply"},
            answer : 0..MaxCodes, token : 0..MaxRequests]
Idle == [pc |-> "idle", answer |-> 0, token |-> 0]

TypeOK ==
    /\ stored \in 0..MaxCodes /\ issued \in 0..MaxCodes /\ sent \in 0..MaxCodes
    /\ attempts \in Nat
    /\ tokens \in [Tokens -> 0..MaxCodes]
    /\ consumed \subseteq Tokens
    /\ applied \in [Tokens -> Nat]
    /\ requests \in [Requests -> Request]
    /\ served \in 0..MaxRequests
    /\ crossed \subseteq Codes /\ overlapped \subseteq Codes

Init ==
    /\ stored = 0 /\ issued = 0 /\ sent = 0 /\ attempts = 0 /\ served = 0
    /\ tokens = [t \in Tokens |-> 0] /\ consumed = {} /\ applied = [t \in Tokens |-> 0]
    /\ requests = [q \in Requests |-> Idle]
    /\ crossed = {} /\ overlapped = {}

Arrive(q, r) ==
    /\ requests[q].pc = "idle" /\ served < MaxRequests
    /\ served' = served + 1
    /\ requests' = [requests EXCEPT ![q] = r]
GoTo(q, pc) == requests' = [requests EXCEPT ![q].pc = pc]
End(q) == requests' = [requests EXCEPT ![q] = Idle]

-----------------------------------------------------------------------------
\* send: the code replaces the one before it; the failures stay.
StoreCode(q) ==
    /\ issued + 1 \in Codes
    /\ Arrive(q, [pc |-> "send", answer |-> issued + 1, token |-> 0])
    /\ issued' = issued + 1 /\ stored' = issued + 1
    /\ UNCHANGED <<attempts, sent, tokens, consumed, applied, crossed, overlapped>>

\* The owner's channel, then the dispatcher.
SendMessage(q) ==
    LET code == requests[q].answer IN
    /\ requests[q].pc = "send"
    /\ sent' = code
    /\ crossed' = IF sent > code THEN crossed \cup Codes ELSE crossed
    /\ End(q)
    /\ UNCHANGED <<stored, attempts, issued, tokens, consumed, applied, served, overlapped>>

SendFails(q) ==
    /\ requests[q].pc = "send"
    /\ crossed' = crossed \cup Codes
    /\ End(q)
    /\ UNCHANGED <<stored, attempts, issued, sent, tokens, consumed, applied, served, overlapped>>

-----------------------------------------------------------------------------
\* verify: the failures so far.
ReadAttempts(q, answer) ==
    /\ attempts < MaxAttempts
    /\ Arrive(q, [pc |-> "compare", answer |-> answer, token |-> 0])
    /\ UNCHANGED <<stored, attempts, issued, sent, tokens, consumed, applied, crossed, overlapped>>

\* The stored code; absent, or not the answer: a failure.
Compare(q) ==
    LET answer == requests[q].answer
        right == stored # 0 /\ stored = answer
    IN  /\ requests[q].pc = "compare"
        /\ GoTo(q, IF right THEN "delete" ELSE "fail")
        /\ overlapped' = IF right /\ \E p \in Requests : requests[p].pc = "delete" /\ requests[p].answer = answer
                         THEN overlapped \cup {answer} ELSE overlapped
        /\ UNCHANGED <<stored, attempts, issued, sent, tokens, consumed, applied, served, crossed>>

CountFailure(q) ==
    /\ requests[q].pc = "fail"
    /\ attempts' = attempts + 1
    /\ End(q)
    /\ UNCHANGED <<stored, issued, sent, tokens, consumed, applied, served, crossed, overlapped>>

\* The two keys, in one round trip: whatever the code's key holds by now goes.
DeleteCode(q) ==
    /\ requests[q].pc = "delete"
    /\ stored' = 0 /\ attempts' = 0
    /\ crossed' = IF stored > requests[q].answer THEN crossed \cup {stored} ELSE crossed
    /\ GoTo(q, "sign")
    /\ UNCHANGED <<issued, sent, tokens, consumed, applied, served, overlapped>>

Sign(q) ==
    /\ requests[q].pc = "sign"
    /\ \E t \in Tokens : /\ t = 1 + Cardinality({k \in Tokens : tokens[k] # 0})
                         /\ tokens' = [tokens EXCEPT ![t] = requests[q].answer]
    /\ End(q)
    /\ UNCHANGED <<stored, attempts, issued, sent, consumed, applied, served, crossed, overlapped>>

-----------------------------------------------------------------------------
\* consume: SET NX decides which request goes on.
Consume(q, t) ==
    /\ tokens[t] # 0 /\ t \notin consumed
    /\ consumed' = consumed \cup {t}
    /\ Arrive(q, [pc |-> "apply", answer |-> 0, token |-> t])
    /\ UNCHANGED <<stored, attempts, issued, sent, tokens, applied, crossed, overlapped>>

\* resetPassword, changePassword, changeEmail; or the write is refused, and the
\* token is spent all the same.
Apply(q, written) ==
    /\ requests[q].pc = "apply"
    /\ applied' = IF written THEN [applied EXCEPT ![requests[q].token] = @ + 1] ELSE applied
    /\ End(q)
    /\ UNCHANGED <<stored, attempts, issued, sent, tokens, consumed, served, crossed, overlapped>>

\* The time to live of each key: ten minutes since it was written.
ExpireCode ==
    /\ stored # 0 /\ stored' = 0
    /\ crossed' = crossed \cup {stored}
    /\ UNCHANGED <<attempts, issued, sent, tokens, consumed, applied, requests, served, overlapped>>
ExpireAttempts ==
    /\ attempts # 0 /\ attempts' = 0
    /\ UNCHANGED <<stored, issued, sent, tokens, consumed, applied, requests, served, crossed, overlapped>>

Step(q) ==
    \/ SendMessage(q) \/ SendFails(q) \/ Compare(q) \/ CountFailure(q)
    \/ DeleteCode(q) \/ Sign(q) \/ \E written \in BOOLEAN : Apply(q, written)

Next ==
    \/ \E q \in Requests : StoreCode(q) \/ Step(q)
    \/ \E q \in Requests, answer \in {0, sent} : ReadAttempts(q, answer)
    \/ \E q \in Requests, t \in Tokens : Consume(q, t)
    \/ ExpireCode \/ ExpireAttempts

Spec == Init /\ [][Next]_vars

-----------------------------------------------------------------------------
\* otp.service.ts:86: the failures pass the limit by at most the verifications that
\* had read the count before it was reached.
FailuresLimited == attempts <= MaxAttempts - 1 + Cardinality(Requests)

\* otp.service.ts:96: a code is worth one token, unless two verifications compared
\* it before either deleted it.
OneTokenPerCode ==
    \A c \in Codes \ overlapped : Cardinality({t \in Tokens : tokens[t] = c}) <= 1

\* otp.service.ts:120: a token changes the account once, however many requests bring it.
TokenAppliedOnce ==
    \A t \in Tokens : applied[t] + Cardinality({q \in Requests : requests[q].token = t}) <= 1

\* The code of the last message is the one stored, until it expired or was used,
\* unless the verification of an older one deleted it or messages were lost or overtaken.
LastCodeWorks ==
    sent # 0 => \/ stored = sent \/ sent \in crossed
                \/ \E q \in Requests : requests[q].pc = "send"
                \/ \E q \in Requests : requests[q].pc = "sign" /\ requests[q].answer = sent
                \/ \E t \in Tokens : tokens[t] = sent

-----------------------------------------------------------------------------
(* The inductive invariant behind these: what a request on its way still knows
   of the keys, and which message or token stands for the newest code. *)

RequestsOK ==
    /\ stored \in {0, issued} /\ sent <= issued /\ \A t \in Tokens : tokens[t] <= issued
    /\ \A q \in Requests :
           /\ requests[q].answer <= issued
           /\ requests[q].pc \in {"send", "delete", "sign"} => requests[q].answer # 0
           /\ requests[q].pc = "apply" <=> requests[q].token # 0

\* The failures still to be counted were let in below the limit.
Failing == {q \in Requests : requests[q].pc \in {"compare", "fail"}}
FailuresKept == attempts + Cardinality(Failing) <= MaxAttempts - 1 + Cardinality(Requests)

\* Of a code nobody compared twice, one request or one token is all there is.
Holds(q, code) == requests[q].pc \in {"delete", "sign"} /\ requests[q].answer = code
TokensAlone ==
    /\ \A q \in Requests : requests[q].pc = "sign" => stored # requests[q].answer
    /\ \A t \in Tokens : tokens[t] # 0 => stored # tokens[t]
    /\ \A c \in Codes \ overlapped :
           /\ \A p, q \in Requests : Holds(p, c) /\ Holds(q, c) => p = q
           /\ \A q \in Requests, t \in Tokens : ~(Holds(q, c) /\ tokens[t] = c)
           /\ \A t, u \in Tokens : tokens[t] = c /\ tokens[u] = c => t = u

\* A token is with one request at most, which has not applied it, and then never again.
AppliedAlone ==
    \A t \in Tokens :
        /\ applied[t] <= 1
        /\ t \notin consumed => applied[t] = 0
        /\ \A q \in Requests : requests[q].token = t => t \in consumed /\ applied[t] = 0
        /\ \A p, q \in Requests : requests[p].token = t /\ requests[q].token = t => p = q

TokensInOrder == \E n \in 0..MaxRequests : {k \in Tokens : tokens[k] # 0} = 1..n

\* A code is live, or something newer is on its way or has arrived.
Live(code) ==
    \/ stored = code \/ code \in crossed
    \/ \E q \in Requests : requests[q].pc = "sign" /\ requests[q].answer = code
    \/ \E t \in Tokens : tokens[t] = code
MessagesLive ==
    \A c \in Codes :
        /\ sent = c => Live(c) \/ \E q \in Requests : requests[q].pc = "send"
        /\ \A q \in Requests : requests[q].pc = "send" /\ requests[q].answer = c =>
               \/ Live(c) \/ sent > c
               \/ \E p \in Requests : requests[p].pc = "send" /\ requests[p].answer > c

IInv ==
    /\ TypeOK /\ RequestsOK /\ FailuresKept /\ TokensAlone /\ AppliedAlone /\ TokensInOrder
    /\ MessagesLive
=============================================================================
