------------------------ MODULE MCScheduledMessages -------------------------
(* Instances of ScheduledMessages for TLC. *)
EXTENDS ScheduledMessages, TLC

CONSTANTS m1, m2, w1, w2
SymWorkers == Permutations(Workers)
=============================================================================
