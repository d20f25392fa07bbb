-------------------------- MODULE BoundedStaleness --------------------------
(* What a cache with a time to live promises: an answer is the value of now or
   one that was the value no more than Bound ago.  Values are numbered as they
   are written. *)
EXTENDS Naturals, Sequences

CONSTANT Bound   \* the age of an answer

VARIABLES
    now,     \* the time
    ended,   \* when each value but the last was replaced
    answer   \* the last answer: the value's number, and when it was given

Recent == {v \in 1..(Len(ended) + 1) : v = Len(ended) + 1 \/ now <= ended[v] + Bound}

Init == now = 0 /\ ended = <<>> /\ answer = [value |-> 0, at |-> 0]

Tick == now' = now + 1 /\ UNCHANGED <<ended, answer>>
Write == ended' = Append(ended, now) /\ UNCHANGED <<now, answer>>
Read == \E v \in Recent : answer' = [value |-> v, at |-> now] /\ UNCHANGED <<now, ended>>

Next == Tick \/ Write \/ Read
vars == <<now, ended, answer>>
Spec == Init /\ [][Next]_vars
=============================================================================
