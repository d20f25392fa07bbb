------------------------------- MODULE Schema -------------------------------
(* The database's schema under the instances that migrate it as they boot and
   an operator who reverts: TypeORM reads the table of executed migrations,
   runs the others in one transaction, and records them in it.  Two boots lock
   the same tables, so one transaction follows the other, each with the list it
   read before.  What is used of the database between releases is the rows that
   can stand in the way of a down. *)
EXTENDS SchemaHistory, SchemaEntities

CONSTANTS
    Instances,   \* the processes that boot
    Starts,      \* how many migrations the database may begin with
    MaxBoots,    \* bound on the boots
    MaxReverts   \* bound on the migrations an operator reverts

VARIABLES
    clientFirst, \* of the two migrations of one time, the one of the clients comes first
    recorded,    \* the executed migrations, in order
    schema,      \* the schema
    instance,    \* each process and the migrations it read as pending
    boots,       \* how many boots there were
    reverted,    \* the migrations ever reverted
    stale        \* a boot executed what it read as pending after another boot's or a revert's commit

vars == <<clientFirst, recorded, schema, instance, boots, reverted, stale>>

Names == [i \in 1..Len(History) |-> History[i][1]]
Ups == [i \in 1..Len(History) |-> History[i][2].up]
Downs == [i \in 1..Len(History) |-> History[i][2].down]
Number(name) == CHOOSE i \in DOMAIN Names : Names[i] = name
Client == Number("ProductClient")
ProductsOfAll == Number("Products")

\* The files in the order of their times.
Ordered(first) ==
    [i \in DOMAIN Names |-> IF first \/ i \notin {Client, ProductsOfAll} THEN i
                            ELSE (Client + ProductsOfAll) - i]
All(first) == FlattenSeq([i \in DOMAIN Names |-> <<Ordered(first)[i]>>])

\* The schema after the first n migrations, none reverted.
RECURSIVE From(_, _, _)
From(s, lo, hi) ==
    IF lo = hi THEN <<Execute(s, Ups[Ordered(FALSE)[lo]])>>
    ELSE LET mid == (lo + hi) \div 2
             left == From(s, lo, mid)
         IN  left \o From(Last(left), mid + 1, hi)
Versions == <<EmptySchema>> \o From(EmptySchema, 1, Len(History))
Version(n) == Versions[n + 1]

ConstantsOK == Starts \subseteq 0..Len(History) /\ {MaxBoots, MaxReverts} \subseteq Nat

Off == [state |-> "off", pending |-> <<>>]

Init ==
    /\ clientFirst \in BOOLEAN
    /\ \E n \in Starts : recorded = SubSeq(All(FALSE), 1, n) /\ schema = Version(n)
    /\ instance = [i \in Instances |-> Off]
    /\ boots = 0 /\ reverted = {} /\ stale = FALSE

ReadRecord(i) ==
    /\ instance[i].state \in {"off", "failed"}
    /\ instance[i].state = "off" => boots < MaxBoots
    /\ boots' = boots + (IF instance[i].state = "off" THEN 1 ELSE 0)
    /\ instance' = [instance EXCEPT ![i] = [state |-> "migrating", pending |->
                       SelectSeq(All(clientFirst), LAMBDA n : ~Contains(recorded, n))]]
    /\ UNCHANGED <<clientFirst, recorded, schema, reverted, stale>>

Migrated(i) == Execute(schema, FlattenSeq([k \in DOMAIN instance[i].pending |-> Ups[instance[i].pending[k]]]))

Migrate(i) ==
    /\ instance[i].state = "migrating" /\ Migrated(i) # Failed
    /\ schema' = Migrated(i)
    /\ recorded' = recorded \o instance[i].pending
    /\ stale' = (stale \/ recorded' \notin {All(first) : first \in BOOLEAN})
    /\ instance' = [instance EXCEPT ![i] = [state |-> "up", pending |-> <<>>]]
    /\ UNCHANGED <<clientFirst, boots, reverted>>

MigrationFails(i) ==
    /\ instance[i].state = "migrating" /\ Migrated(i) = Failed
    /\ instance' = [instance EXCEPT ![i].state = "failed"]
    /\ UNCHANGED <<clientFirst, recorded, schema, boots, reverted, stale>>

Stop(i) ==
    /\ instance[i].state # "off"
    /\ instance' = [instance EXCEPT ![i] = Off]
    /\ UNCHANGED <<clientFirst, recorded, schema, boots, reverted, stale>>

\* migration:revert: the last one executed.
Undone == Execute(schema, Downs[Last(recorded)])
Revert ==
    /\ recorded # <<>> /\ Cardinality(reverted) < MaxReverts /\ Undone # Failed
    /\ schema' = Undone
    /\ recorded' = SelectSeq(recorded, LAMBDA n : n # Last(recorded))
    /\ reverted' = reverted \cup {Last(recorded)}
    /\ UNCHANGED <<clientFirst, instance, boots, stale>>

\* The application writes rows of these kinds, from the migration that permits them on.
Kinds ==
    {[row |-> <<"workspaces", "signed up">>, since |-> "GrandfatherExistingWorkspaces", after |-> {}],
     [row |-> <<"users", "one address in two workspaces">>, since |-> "WorkspacesFoundation",
      after |-> {<<"workspaces", "signed up">>}],
     [row |-> <<"leads", "without contact">>, since |-> "LeadCompany", after |-> {}],
     [row |-> <<"conversations", "two of one lead and channel">>,
      since |-> "MultiConversationsPerLead", after |-> {}]}
Use(kind) ==
    /\ \E i \in Instances : instance[i].state = "up"
    /\ Contains(recorded, Number(kind.since)) /\ kind.after \subseteq schema.rows
    /\ kind.row \notin schema.rows
    /\ schema' = [schema EXCEPT !.rows = @ \cup {kind.row}]
    /\ UNCHANGED <<clientFirst, recorded, instance, boots, reverted, stale>>

Next ==
    \/ \E i \in Instances : ReadRecord(i) \/ Migrate(i) \/ MigrationFails(i) \/ Stop(i)
    \/ Revert
    \/ \E kind \in Kinds : Use(kind)

Spec == Init /\ [][Next]_vars

------------------------------------------------------------------------------
TypeOK ==
    /\ clientFirst \in BOOLEAN /\ stale \in BOOLEAN /\ boots \in 0..MaxBoots
    /\ recorded \in Seq(DOMAIN Names) /\ reverted \subseteq DOMAIN Names
    /\ schema # Failed
    /\ \A i \in Instances : instance[i].state \in {"off", "migrating", "failed", "up"}

\* The migrations whose down leaves something of what their up did, or more: values
\* of enumerated types stay, dropped tables and a dropped uniqueness do not return.
NotRestoring ==
    {Number(n) : n \in {"AutomationsWorkflow", "WorkspacesFoundation", "SeedDefaultLossReasons",
                        "AddFrozenToLeadStatusEnum", "FixRoleEnumValues", "TaskStatusAddCancelled"}}

\* The same tables but for the names of the constraints.
Nameless(tables) ==
    [t \in DOMAIN tables |-> [tables[t] EXCEPT !.cons =
        {[k EXCEPT !.name = IF k.kind = "enum" THEN @ ELSE ""] : k \in @}]]

(* A database whose migrations were reverted has the schema it had before them,
   unless one of them does not restore what it changed, or a boot executed
   migrations again or over a missing one, from a list it read too early. *)
RevertRestores ==
    reverted \cap NotRestoring = {} /\ ~stale
        => /\ Nameless(schema.tables) = Nameless(Version(Len(recorded)).tables)
           /\ schema.types = Version(Len(recorded)).types

\* The rows that stand in the way of a down.
Blocks == {<<"WorkspacesFoundation", "one address in two workspaces">>,
           <<"LeadCompany", "without contact">>,
           <<"SeedDefaultLossReasons", "signed up">>,
           <<"MultiConversationsPerLead", "two of one lead and channel">>}
(* An operator can revert the last migration, unless rows that the release in
   between permitted stand in the way. *)
RevertPossible ==
    recorded # <<>> /\ Undone = Failed
        => \E b \in Blocks : Last(recorded) = Number(b[1]) /\ \E r \in schema.rows : r[2] = b[2]

(* A boot fails only after another one that migrated what it had read as pending,
   after a revert of what it had read as executed, or on a fresh database with
   the two migrations of one time in the wrong order. *)
BootsExplained ==
    \A i \in Instances : instance[i].state = "migrating" /\ Migrated(i) = Failed =>
          \/ \E k \in DOMAIN instance[i].pending : Contains(recorded, instance[i].pending[k])
          \/ reverted \ Range(instance[i].pending \o recorded) # {}
          \/ clientFirst /\ ~Contains(recorded, ProductsOfAll)

(* A workspace that signed up after the grandfathering is not granted the plan,
   unless the migration was reverted or executed from a list read too early. *)
GrantedOnce ==
    <<"workspaces", "granted">> \in schema.rows
        => Number("GrandfatherExistingWorkspaces") \in reverted \/ stale

(* The code finds every column it names, with every value it may write in it,
   and every set of columns it takes to be unique. *)
Fits(e) ==
    LET t == schema.tables[e.table]
    IN  /\ e.table \in DOMAIN schema.tables
        /\ e.columns \subseteq t.cols
        /\ \A p \in e.enums : \E k \in t.cons :
              k.kind = "enum" /\ p[1] \in k.cols /\ p[2] \subseteq schema.types[k.name]
        /\ \A u \in e.uniques : \E k \in t.cons : k.kind \in {"unique", "index"} /\ k.cols = u
CodeFitsSchema ==
    recorded \in {All(first) : first \in BOOLEAN} => \A e \in Entities : Fits(e)

(* The origins, categories and sectors a workspace names are its own: the
   entities declare them unique by workspace and name
   (customer-origin.entity.ts: "@Unique(['workspaceId', 'name'])"), and another
   workspace may take the same names.  *)
NamesPerWorkspace ==
    recorded \in {All(first) : first \in BOOLEAN}
        => \A t \in {"customer_origins", "customer_categories", "sectors"} :
              \A k \in schema.tables[t].cons :
                  k.kind \in {"unique", "index"} => "workspaceId" \in k.cols
=============================================================================
