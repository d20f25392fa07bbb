--------------------------- MODULE MCAutomations ----------------------------
(* Instances of Automations for TLC. *)
EXTENDS Automations

CONSTANTS a1, a2, l1, l2, m1, m2, q1, q2, p1, S1, S2, W, Z, F

OnStage == [a \in Autos |-> [type |-> "stage", at |-> q2]]

\* One automation of the stage, one of the pipeline.
Both == [a \in Autos |-> IF a = a1 THEN [type |-> "stage", at |-> q2]
                                   ELSE [type |-> "pipeline", at |-> 2]]
TwoPipelines == [s \in Stages |-> IF s = q1 THEN 1 ELSE 2]

OnePhone == [l \in Leads |-> IF l = l1 THEN p1 ELSE NoPhone]
StepKinds == [s \in Steps |-> CASE s = W -> "wait" [] s = Z -> "nowait" [] s = F -> "filter" [] OTHER -> "send"]

\* A message, a wait, a second one; the other list starts with a filter and a
\* wait of zero length, and drops the first message.
Lists == {<<S1, W, S2>>, <<F, Z, S2>>}
ShortList == {<<S1>>}

\* One lead is moved into the stage: the one with a phone, or, in the shorter of the
\* automations, the one without.
OneLeadInit ==
    /\ Init
    /\ stage[l1] # stage[l2]
    /\ stage[l2] = q1 => autos[a1].steps = <<F, Z, S2>> /\ convs[p1] = NoConv

OneLeadSpec == OneLeadInit /\ [][Next]_vars /\ Fairness
=============================================================================
