---------------------------- MODULE MCPlatform ------------------------------
(* Instances, for TLC, of the components that what happens outside drives: Stripe's
   events in order, the automations of two moves at once, and repeated messages.
   A behaviour is one of the component that part names. *)
EXTENDS MCBillingWebhook

CONSTANTS
    a1, a2, l1, l2, q1, q2, p1, S1,   \* automations, leads, stages, a phone, a step
    m1, m2, r1,                       \* moves or messages, a qualify request
    NoExec, NoConv, Unqualified, NoPhone, NoStage, NoAuto, NoLead, NoMsg

VARIABLES
    part,   \* the component of this behaviour
    moveAutos, moveStage, moves, moveExec, moveJobs, moveConvs, moveSent, moveTried,
    moveCrashes, moveEdits,
    inConv, inId, inSaved, inErased, inEmitted, inHand, inReq, inLeads, inContacts, inArchives,
    inFailures, inCrashes

\* One automation of the stage, one of the pipeline, and jobs that are counted, not run.
M == INSTANCE Automations WITH
    Autos <- {a1, a2}, Leads <- {l1, l2}, Moves <- {m1, m2}, Stages <- {q1, q2},
    pipelineOf <- [s \in {q1, q2} |-> IF s = q1 THEN 1 ELSE 2],
    trigger <- [a \in {a1, a2} |-> IF a = a1 THEN [type |-> "stage", at |-> q2]
                                             ELSE [type |-> "pipeline", at |-> 2]],
    Phones <- {p1}, phone <- [l \in {l1, l2} |-> IF l = l1 THEN p1 ELSE NoPhone],
    Steps <- {S1}, kind <- [s \in {S1} |-> "send"], StepLists <- {<<S1>>},
    MaxJobs <- 3, MaxWorkers <- 0, MaxAttempts <- 1, MaxStalls <- 0, MaxCrashes <- 1, MaxEdits <- 0,
    autos <- moveAutos, stage <- moveStage, exec <- moveExec, jobs <- moveJobs, convs <- moveConvs,
    sent <- moveSent, tried <- moveTried, crashes <- moveCrashes, edits <- moveEdits

I == INSTANCE Inbox WITH
    Msgs <- {m1, m2}, Handlers <- {h1, h2}, Requests <- {r1}, MaxEmits <- 2, MaxArchives <- 1,
    MaxDeletes <- 0, MaxFailures <- 0, MaxCrashes <- 0,
    conv <- inConv, id <- inId, saved <- inSaved, erased <- inErased, emitted <- inEmitted,
    hand <- inHand, req <- inReq, leads <- inLeads, contacts <- inContacts,
    archives <- inArchives, failures <- inFailures, crashes <- inCrashes

moveVars == <<moveAutos, moveStage, moves, moveExec, moveJobs, moveConvs, moveSent, moveTried,
              moveCrashes, moveEdits>>
inVars == <<inConv, inId, inSaved, inErased, inEmitted, inHand, inReq, inLeads, inContacts,
            inArchives, inFailures, inCrashes>>

GroupInit ==
    /\ part \in {"billing", "moves", "inbox"}
    /\ Init /\ M!Init /\ I!Init
    /\ part # "moves" => (moveStage[l1] = q1 /\ moveStage[l2] = q1 /\ moveConvs[p1] = NoConv)

BillingStep ==
    /\ part = "billing" /\ Next
    /\ UNCHANGED <<part, moveVars, inVars>>

MovesStep ==
    /\ part = "moves" /\ M!Next
    /\ UNCHANGED <<part, vars, inVars>>

InboxStep ==
    /\ part = "inbox" /\ I!Next
    /\ UNCHANGED <<part, vars, moveVars>>

GroupNext == BillingStep \/ MovesStep \/ InboxStep

GroupSpec ==
    /\ GroupInit /\ [][GroupNext]_<<part, vars, moveVars, inVars>>
    /\ WF_vars(part = "billing" /\ \E h \in Handlers, e \in Events : Deliver(h, e))
    /\ \A h \in Handlers : WF_vars(part = "billing" /\ Handle(h))
    /\ WF_vars(part = "billing" /\ ExpireTrial)
    /\ \A h \in {h1, h2} : WF_inVars(part = "inbox" /\ I!Handle(h))

\* What comes from outside is done at least once, and started at most once: every
\* event of Stripe is processed and every message stored in the end, whatever is
\* repeated, and two moves at once start an automation once for a lead.
DoneOnce ==
    /\ EventuallyHandled
    /\ I!EventuallySaved
    /\ []M!StartedOnce
=============================================================================
