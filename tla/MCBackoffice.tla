---------------------------- MODULE MCBackoffice ----------------------------
(* The office and its schema, for TLC: a behaviour is one of the component that
   part names, the others stay as they began.  The catalogue has two parts: its
   rows, written concurrently, and its lists, read as time passes. *)
EXTENDS Backoffice, TLC, Schema

VARIABLE part   \* the component of this behaviour

AddressOfAll == [o \in Otps |-> "address"]
RoleLimit == [manager |-> 1, agent |-> 3]
OpeningHours == {{1, 2}}

Parts == {"accounts", "signup", "codes", "agendas", "pipelines", "lists", "plans", "schema",
          "leads"}

\* The lists in time: one writer, one pipeline, and fewer writes: no updates, whose
\* keys are those of a creation, and no defaults.
OneAtATime ==
    /\ catWrites <= MaxPlanWrites
    /\ Cardinality({w \in Requests : catWriter[w].pc # "idle"}) <= 1
    /\ \A w \in Requests : ~catWriter[w].default /\ catWriter[w].op \notin {"update pipeline", "update stage"}
    /\ Cardinality({p \in Pipelines : \/ catPipeline[p] # "none" \/ catCache[p] # None
                                      \/ catAnswer[p].value # 0
                                      \/ \E r \in Readers : catReader[r].key = p}) <= 1

PartInit ==
    /\ part \in Parts
    /\ OfficeInit /\ Init
    /\ subPlans["trial"] \in IF part = "plans" THEN {None, F!Plan({F!Feature}, TRUE)} ELSE {None}
    /\ part # "schema" => ~clientFirst /\ recorded = <<>>

OfficeStep ==
    \/ part = "accounts" /\ AccountsStep
    \/ part = "signup" /\ SignupStep
    \/ part = "codes" /\ CodesStep
    \/ part = "agendas" /\ AgendasStep
    \/ part = "pipelines" /\ CatalogueStep /\ UNCHANGED <<catNow, catReads, catFailures>>
    \/ part = "lists" /\ CatalogueStep /\ OneAtATime'
    \/ part = "plans" /\ PlansStep
    \/ part = "leads" /\ LeadsStep

SchemaStep == part = "schema" /\ Next /\ UNCHANGED officeVars

PartNext ==
    /\ UNCHANGED part
    /\ \/ OfficeStep /\ UNCHANGED vars
       \/ SchemaStep

PartSpec == PartInit /\ [][PartNext]_<<part, officeVars, vars>>

\* The schema: reverts restore it and stay possible, the code finds in it what it names,
\* nothing is granted twice, and a boot fails, but for the migrations and lists each
\* invariant names.
SchemaExplained ==
    part = "schema" =>
        /\ ConstantsOK /\ TypeOK
        /\ RevertRestores /\ RevertPossible /\ CodeFitsSchema /\ GrantedOnce /\ BootsExplained

Symmetry == Permutations(Requests) \cup Permutations(Otps) \cup Permutations(Stages)
=============================================================================
