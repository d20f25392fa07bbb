------------------------------ MODULE MCInbox -------------------------------
(* Instances of Inbox for TLC. *)
EXTENDS Inbox, TLC

CONSTANTS m1, m2, h1, h2, r1, r2

Symmetry == Permutations(Handlers) \cup Permutations(Requests) \cup Permutations(Msgs)
=============================================================================
