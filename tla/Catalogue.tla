----------------------------- MODULE Catalogue ------------------------------
(* Pipelines and stages, and the lists of them that TenantCacheService keeps in
   Redis: a list is fetched on a miss and kept for a time, a write saves its row
   and then deletes the keys whose lists it changed.  A pipeline is saved with
   the stages it was read with, and the save cascades to them. *)
EXTENDS Naturals, FiniteSets, Sequences

CONSTANTS
    Readers, Writers,      \* requests
    Pipelines, Stages,     \* ids
    TTL,                   \* CATALOG_TTL_MS
    MaxFetch,              \* bound on a list's way from the database to Redis
    MaxTime, MaxReads, MaxWrites, MaxFailures,
    None

VARIABLES
    pipeline,   \* the rows of pipelines: none, or whether it is the default
    stage,      \* the rows of stages: none, or the pipeline and the position
    removed,    \* the stages deleted by a request
    cache,      \* the lists in Redis
    ended,      \* when each version of a list but the last was replaced
    answer,     \* the last list answered for each key
    shown,      \* the version of each list that answered writes made
    kept,       \* the keys whose lists, stored or on their way, may lack a write that did not
                \* delete them
    overlaps,   \* the pairs of writes that ran at the same time
    reader, writer, now, reads, writes, failures

redis == <<cache, ended, answer, shown, kept>>
vars == <<pipeline, stage, removed, redis, overlaps, reader, writer, now, reads, writes, failures>>

\* 'pipelines:all', whose list has the stages too, and 'stages:pipeline:<id>'.
Keys == {"pipelines"} \cup Pipelines
Version(k) == Len(ended[k]) + 1

NotReading == [pc |-> "idle", key |-> "pipelines", version |-> 0, at |-> 0, late |-> FALSE]
NotWriting == [pc |-> "idle", op |-> "", of |-> None, stage |-> None, default |-> FALSE,
               read |-> None, dels |-> {}, made |-> [k \in Keys |-> 0]]

StageRow == [of : Pipelines, position : Nat]
Stored == [Stages -> StageRow \cup {None}]
List == [version : Nat, until : Nat, late : BOOLEAN]
Reader == [pc : {"idle", "fetch", "set"}, key : Keys, version : Nat, at : Nat, late : BOOLEAN]
Writer ==
    [pc : {"idle", "clear", "save pipeline", "delete pipeline", "save stage", "delete stage", "del"},
     op : {"", "create pipeline", "update pipeline", "remove pipeline",
           "create stage", "update stage", "remove stage"},
     of : Pipelines \cup {None}, stage : Stages \cup {None}, default : BOOLEAN,
     read : Stored \cup StageRow \cup {None},
     dels : SUBSET Keys, made : [Keys -> Nat]]

ConstantsOK ==
    /\ {TTL, MaxFetch, MaxTime, MaxReads, MaxWrites, MaxFailures} \subseteq Nat
    /\ IsFiniteSet(Pipelines) /\ IsFiniteSet(Stages) /\ None \notin Pipelines \cup Stages
    /\ None \notin StageRow /\ None \notin Stored /\ None \notin List

Init ==
    /\ pipeline = [p \in Pipelines |-> "none"] /\ stage = [s \in Stages |-> None]
    /\ removed = {} /\ kept = {} /\ overlaps = {}
    /\ cache = [k \in Keys |-> None] /\ ended = [k \in Keys |-> <<>>]
    /\ answer = [k \in Keys |-> [value |-> 0, at |-> 0]] /\ shown = [k \in Keys |-> 0]
    /\ reader = [r \in Readers |-> NotReading] /\ writer = [w \in Writers |-> NotWriting]
    /\ now = 0 /\ reads = 0 /\ writes = 0 /\ failures = 0

------------------------------------------------------------------------------
(* getOrSet *)

Hit(k) == cache[k] # None /\ now < cache[k].until
Answer(k, v) == answer' = [answer EXCEPT ![k] = [value |-> v, at |-> now]]
\* An error of Redis is logged and taken for a miss.
MayFail(fails) == IF fails THEN failures < MaxFailures /\ failures' = failures + 1
                  ELSE UNCHANGED failures

Get(r, k, fails) ==
    /\ reader[r].pc = "idle" /\ reads < MaxReads /\ reads' = reads + 1
    /\ MayFail(fails)
    /\ IF Hit(k) /\ ~fails
       THEN Answer(k, cache[k].version) /\ UNCHANGED reader
       ELSE /\ reader' = [reader EXCEPT ![r] = [NotReading EXCEPT !.pc = "fetch", !.key = k]]
            /\ UNCHANGED answer
    /\ UNCHANGED <<pipeline, stage, removed, cache, ended, shown, kept, overlaps, writer, now, writes>>

Fetch(r) ==
    /\ reader[r].pc = "fetch"
    /\ reader' = [reader EXCEPT ![r].pc = "set", ![r].version = Version(reader[r].key), ![r].at = now]
    /\ UNCHANGED <<pipeline, stage, removed, redis, overlaps, writer, now, reads, writes, failures>>

\* Mutated form of Until: the list has no time to live.
Until_Never(r) == MaxTime + 1
Until(r) == now + TTL

OnItsWay(r, k) == reader[r].pc = "set" /\ reader[r].key = k
Set(r, fails) ==
    LET k == reader[r].key
    IN  /\ reader[r].pc = "set"
        /\ MayFail(fails)
        /\ Answer(k, reader[r].version)
        /\ IF fails THEN UNCHANGED <<cache, kept>>
           ELSE /\ cache' = [cache EXCEPT ![k] = [version |-> reader[r].version, until |-> Until(r),
                                                  late |-> reader[r].late]]
                /\ kept' = kept \ {l \in {k} : /\ reader[r].version = Version(k)
                                               /\ \A q \in Readers \ {r} : ~OnItsWay(q, k)}
        /\ reader' = [reader EXCEPT ![r] = NotReading]
        /\ UNCHANGED <<pipeline, stage, removed, ended, shown, overlaps, writer, now, reads, writes>>

\* Time passes: a fetched list does not stay on its way for longer than MaxFetch.
Tick ==
    /\ now < MaxTime /\ now' = now + 1
    /\ \A r \in Readers : reader[r].pc = "set" => now < reader[r].at + MaxFetch
    /\ UNCHANGED <<pipeline, stage, removed, redis, overlaps, reader, writer, reads, writes, failures>>

------------------------------------------------------------------------------
(* Writes. *)

StagesOf(p) == {s \in Stages : stage[s] # None /\ stage[s].of = p}
WithStages(p) == [s \in Stages |-> IF s \in StagesOf(p) THEN stage[s] ELSE None]
Stage(p, i) == [of |-> p, position |-> i]

Begin(w, req) ==
    /\ writer[w].pc = "idle" /\ writes < MaxWrites /\ writes' = writes + 1
    /\ writer' = [writer EXCEPT ![w] = req]
    /\ overlaps' = overlaps \cup {{req.op, writer[v].op} : v \in {v \in Writers : writer[v].pc # "idle"}}
    /\ UNCHANGED <<redis, reader, now, reads, failures>>
Read(w, req) == Begin(w, req) /\ UNCHANGED <<pipeline, stage, removed>>

\* The row is saved: the lists it is in are new, and the keys are to be deleted.
Saved(w, changed, dels) ==
    /\ ended' = [k \in Keys |-> IF k \in changed THEN Append(ended[k], now) ELSE ended[k]]
    /\ kept' = kept \cup (changed \ dels)
    /\ writer' = [writer EXCEPT ![w].pc = "del", ![w].dels = dels,
                     ![w].made = [k \in Keys |-> IF k \in changed THEN Version(k) + 1 ELSE 0]]
Refused(w) == writer' = [writer EXCEPT ![w] = NotWriting] /\ UNCHANGED <<ended, kept>>
Step(w, pc) ==
    /\ writer[w].pc = pc
    /\ UNCHANGED <<cache, answer, shown, overlaps, reader, now, reads, writes, failures>>

\* PipelinesService.create and update: the other default is cleared first.
CreatePipeline(w, p, default) ==
    /\ pipeline[p] = "none" /\ \A v \in Writers : writer[v].of # p
    /\ Read(w, [NotWriting EXCEPT !.pc = IF default THEN "clear" ELSE "save pipeline",
                   !.op = "create pipeline", !.of = p, !.default = default])

UpdatePipeline(w, p, change) ==
    /\ pipeline[p] # "none"
    /\ Read(w, [NotWriting EXCEPT !.pc = IF change = "default" THEN "clear" ELSE "save pipeline",
                   !.op = "update pipeline", !.of = p, !.read = WithStages(p),
                   !.default = (change = "default" \/ (change = "same" /\ pipeline[p] = "default"))])

ClearDefault(w) ==
    /\ Step(w, "clear")
    /\ pipeline' = [p \in Pipelines |-> IF pipeline[p] = "default" THEN "plain" ELSE pipeline[p]]
    /\ ended' = [ended EXCEPT !["pipelines"] = Append(@, now)]
    /\ kept' = kept \cup {"pipelines"}
    /\ writer' = [writer EXCEPT ![w].pc = "save pipeline"]
    /\ UNCHANGED <<stage, removed>>

\* A stage of the pipeline that the save was not given would lose its pipeline:
\* NOT NULL refuses it, and the whole save.  A stage it was given is as it was read.
SavePipeline(w) ==
    LET p == writer[w].of
        read == writer[w].read
        given == IF read = None THEN {} ELSE {s \in Stages : read[s] # None}
        Row == IF writer[w].default THEN "default" ELSE "plain"
    IN  /\ Step(w, "save pipeline")
        /\ IF read # None /\ ~(StagesOf(p) \subseteq given)
           THEN Refused(w) /\ UNCHANGED <<pipeline, stage>>
           ELSE /\ pipeline' = [pipeline EXCEPT ![p] = Row]
                /\ stage' = [s \in Stages |-> IF s \in given THEN read[s] ELSE stage[s]]
                /\ Saved(w, {"pipelines"} \cup {q \in Pipelines : \E s \in Stages :
                               stage'[s] # stage[s] /\ stage'[s].of = q}, {"pipelines"})
        /\ UNCHANGED removed

\* A pipeline goes with its stages, unless a lead stands in one.
RemovePipeline(w, p) ==
    /\ pipeline[p] # "none"
    /\ Read(w, [NotWriting EXCEPT !.pc = "delete pipeline", !.op = "remove pipeline", !.of = p])
DeletePipeline(w) ==
    LET p == writer[w].of
    IN  /\ Step(w, "delete pipeline")
        /\ pipeline' = [pipeline EXCEPT ![p] = "none"]
        /\ stage' = [s \in Stages |-> IF s \in StagesOf(p) THEN None ELSE stage[s]]
        /\ removed' = removed \cup StagesOf(p)
        /\ Saved(w, {"pipelines"} \cup {q \in {p} : StagesOf(p) # {}}, {"pipelines"})

\* StagesService.create: the position is the number of stages.
CreateStage(w, s, p) ==
    /\ stage[s] = None /\ s \notin removed /\ \A v \in Writers : writer[v].stage # s
    /\ Read(w, [NotWriting EXCEPT !.pc = "save stage", !.op = "create stage", !.of = p, !.stage = s,
                   !.read = Stage(p, Cardinality(StagesOf(p)))])
UpdateStage(w, s) ==
    /\ stage[s] # None
    /\ Read(w, [NotWriting EXCEPT !.pc = "save stage", !.op = "update stage", !.of = stage[s].of,
                   !.stage = s, !.read = stage[s]])
\* A row that is gone is inserted again; its pipeline must be there.
SaveStage(w) ==
    LET p == writer[w].of
    IN  /\ Step(w, "save stage")
        /\ IF pipeline[p] = "none" THEN Refused(w) /\ UNCHANGED stage
           ELSE /\ stage' = [stage EXCEPT ![writer[w].stage] = writer[w].read]
                /\ Saved(w, {"pipelines", p}, {"pipelines", p})
        /\ UNCHANGED <<pipeline, removed>>

RemoveStage(w, s) ==
    /\ stage[s] # None
    /\ Read(w, [NotWriting EXCEPT !.pc = "delete stage", !.op = "remove stage", !.of = stage[s].of, !.stage = s])
DeleteStage(w) ==
    LET s == writer[w].stage
    IN  /\ Step(w, "delete stage")
        /\ stage' = [stage EXCEPT ![s] = None]
        /\ removed' = removed \cup {s}
        /\ Saved(w, IF stage[s] = None THEN {} ELSE {"pipelines", writer[w].of}, {"pipelines", writer[w].of})
        /\ UNCHANGED pipeline

\* The keys are deleted in either order; an error is logged, and the write is
\* answered all the same.  A list fetched before may be stored after.
Del(w, k, fails) ==
    LET made == writer[w].made
    IN  /\ writer[w].pc = "del" /\ k \in writer[w].dels
        /\ MayFail(fails)
        /\ IF fails THEN kept' = kept \cup {k} /\ UNCHANGED <<cache, reader>>
           ELSE /\ cache' = [cache EXCEPT ![k] = None]
                /\ kept' = kept \ {k}
                /\ reader' = [r \in Readers |->
                                 [reader[r] EXCEPT !.late = @ \/ OnItsWay(r, k)]]
        /\ IF writer[w].dels = {k}
           THEN /\ writer' = [writer EXCEPT ![w] = NotWriting]
                /\ shown' = [l \in Keys |-> IF made[l] > shown[l] THEN made[l] ELSE shown[l]]
           ELSE writer' = [writer EXCEPT ![w].dels = @ \ {k}] /\ UNCHANGED shown
        /\ UNCHANGED <<pipeline, stage, removed, ended, answer, overlaps, now, reads, writes>>

\* A statement fails, or the server dies.
Fails(w) ==
    /\ writer[w].pc # "idle" /\ failures < MaxFailures /\ failures' = failures + 1
    /\ writer' = [writer EXCEPT ![w] = NotWriting]
    /\ kept' = kept \cup writer[w].dels
    /\ UNCHANGED <<pipeline, stage, removed, cache, ended, answer, shown, overlaps, reader, now, reads, writes>>

Next ==
    \/ \E r \in Readers : Fetch(r) \/ \E fails \in BOOLEAN : Set(r, fails) \/ \E k \in Keys : Get(r, k, fails)
    \/ \E w \in Writers, p \in Pipelines :
          \/ \E default \in BOOLEAN : CreatePipeline(w, p, default)
          \/ \E change \in {"default", "plain", "same"} : UpdatePipeline(w, p, change)
          \/ RemovePipeline(w, p)
          \/ \E s \in Stages : CreateStage(w, s, p)
    \/ \E w \in Writers : \/ ClearDefault(w) \/ SavePipeline(w) \/ DeletePipeline(w) \/ SaveStage(w)
                          \/ DeleteStage(w) \/ Fails(w)
                          \/ \E s \in Stages : UpdateStage(w, s) \/ RemoveStage(w, s)
                          \/ \E k \in Keys, fails \in BOOLEAN : Del(w, k, fails)
    \/ Tick

Spec == Init /\ [][Next]_vars

------------------------------------------------------------------------------
TypeOK ==
    /\ pipeline \in [Pipelines -> {"none", "plain", "default"}]
    /\ stage \in Stored
    /\ removed \subseteq Stages /\ kept \subseteq Keys
    /\ cache \in [Keys -> List \cup {None}] /\ ended \in [Keys -> Seq(0..MaxTime)]
    /\ answer \in [Keys -> [value : Nat, at : Nat]] /\ shown \in [Keys -> Nat]
    /\ reader \in [Readers -> Reader] /\ writer \in [Writers -> Writer]
    /\ now \in 0..MaxTime /\ reads \in 0..MaxReads /\ writes \in 0..MaxWrites
    /\ failures \in 0..MaxFailures

(* A list is as old as its time to live and its way to Redis at the
   most: every key implements BoundedStaleness. *)
Listed(k) == INSTANCE BoundedStaleness WITH
    Bound <- TTL + MaxFetch, ended <- ended[k], answer <- answer[k]
ListsBounded ==
    /\ \A k \in Keys : Listed(k)!Init
    /\ [][\A k \in Keys : [Listed(k)!Next]_(Listed(k)!vars)]_vars

(* The list in Redis has every change that was answered, unless it was on its way
   while the key was deleted, or the write did not delete it. *)
ListsExplained ==
    \A k \in Keys : Hit(k) /\ cache[k].version < shown[k] => cache[k].late \/ k \in kept

Overlapped(ops) == ops \in overlaps
(* A workspace has one default pipeline, unless two writes of pipelines overlap. *)
OneDefault ==
    Cardinality({p \in Pipelines : pipeline[p] = "default"}) > 1
        => \E o \in overlaps : o \subseteq {"create pipeline", "update pipeline"}

(* A stage that was removed stays removed, unless it was being written. *)
StaysRemoved ==
    \A s \in removed : stage[s] # None
        => \E o \in overlaps : o \cap {"remove stage", "remove pipeline"} # {}
                               /\ o \cap {"update stage", "update pipeline"} # {}

(* Two stages share a position only after a removal, or when they were created at the same time. *)
PositionsExplained ==
    \A s, t \in Stages :
        s # t /\ stage[s] # None /\ stage[t] # None /\ stage[s] = stage[t]
            => removed # {} \/ Overlapped({"create stage"})

------------------------------------------------------------------------------
(* The inductive invariant behind these.  Its first part: what a write on its way
   is doing, and that two writes on their way have been seen to overlap. *)

Saving(w) == writer[w].pc \in {"clear", "save pipeline"}
Creates(w, s) == writer[w].pc = "save stage" /\ writer[w].op = "create stage" /\ writer[w].stage = s
\* The write has read the stage and will write it.
Updates(w, s) ==
    \/ writer[w].pc = "save stage" /\ writer[w].op = "update stage" /\ writer[w].stage = s
    \/ Saving(w) /\ writer[w].read # None /\ writer[w].read[s] # None

WritesOK ==
    \A w \in Writers :
        /\ writer[w].pc = "idle" => writer[w] = NotWriting
        /\ Saving(w) =>
               /\ writer[w].of \in Pipelines
               /\ \/ writer[w].op = "create pipeline" /\ writer[w].read = None
                  \/ writer[w].op = "update pipeline" /\ writer[w].read \in Stored
        /\ writer[w].pc = "delete pipeline" => writer[w].op = "remove pipeline" /\ writer[w].of \in Pipelines
        /\ writer[w].pc = "save stage" =>
               /\ writer[w].op \in {"create stage", "update stage"}
               /\ writer[w].of \in Pipelines /\ writer[w].stage \in Stages
               /\ writer[w].read \in StageRow /\ writer[w].read.of = writer[w].of
        /\ writer[w].pc = "delete stage" =>
               writer[w].op = "remove stage" /\ writer[w].of \in Pipelines /\ writer[w].stage \in Stages

PairsSeen ==
    \A v, w \in Writers : v # w /\ writer[v].pc # "idle" /\ writer[w].pc # "idle"
                          => {writer[v].op, writer[w].op} \in overlaps

\* A default on its way finds no other.
DefaultsAlone ==
    \/ \E o \in overlaps : o \subseteq {"create pipeline", "update pipeline"}
    \/ /\ \A p, q \in Pipelines : pipeline[p] = "default" /\ pipeline[q] = "default" => p = q
       /\ \A w \in Writers, p \in Pipelines :
              writer[w].pc = "save pipeline" /\ writer[w].default /\ pipeline[p] = "default"
              => p = writer[w].of

\* A stage on its way is new, or was there and is not removed.
StagesNamed ==
    /\ \A w \in Writers, s \in Stages : Updates(w, s) => stage[s] # None \/ s \in removed
    /\ \A w \in Writers, s \in Stages : Creates(w, s) =>
           /\ s \notin removed /\ stage[s] = None
           /\ \A v \in Writers \ {w} : writer[v].stage # s /\ ~Updates(v, s)

RemovalCrossed ==
    \E o \in overlaps : /\ o \cap {"remove stage", "remove pipeline"} # {}
                        /\ o \cap {"update stage", "update pipeline"} # {}
RemovedAlone ==
    RemovalCrossed \/ \A s \in removed : stage[s] = None /\ \A w \in Writers : ~Updates(w, s)

\* Without a removal, positions number the stages and what was read is what is there.
PositionsAlone ==
    removed = {} /\ {"create stage"} \notin overlaps =>
        /\ \A s, t \in Stages : s # t /\ stage[s] # None => stage[s] # stage[t]
        /\ \A s \in Stages : stage[s] # None => stage[s].position < Cardinality(StagesOf(stage[s].of))
        /\ \A w \in Writers, s \in Stages :
               /\ Creates(w, s) => writer[w].read.position = Cardinality(StagesOf(writer[w].of))
               /\ Updates(w, s) =>
                      stage[s] = IF writer[w].pc = "save stage" THEN writer[w].read ELSE writer[w].read[s]

(* Its second part: how old a list in Redis, or on its way there, can be, and which
   answered writes it may lack. *)

ListsAged ==
    /\ \A k \in Keys :
           /\ shown[k] <= Version(k) /\ \A w \in Writers : writer[w].made[k] <= Version(k)
           /\ cache[k] # None =>
                  /\ cache[k].version \in 1..Version(k)
                  /\ \/ cache[k].version = Version(k) /\ cache[k].until <= now + TTL
                     \/ /\ cache[k].version < Version(k)
                        /\ cache[k].until <= ended[k][cache[k].version] + TTL + MaxFetch
    /\ \A r \in Readers : reader[r].pc = "set" =>
           /\ reader[r].at <= now /\ now <= reader[r].at + MaxFetch
           /\ reader[r].version \in 1..Version(reader[r].key)
           /\ \/ reader[r].version = Version(reader[r].key)
              \/ /\ reader[r].version < Version(reader[r].key)
                 /\ reader[r].at <= ended[reader[r].key][reader[r].version]

\* The list of k has version v, stored and on its way, but for the causes named.
Covered(k, v) ==
    \/ k \in kept
    \/ /\ cache[k] # None => cache[k].version >= v \/ cache[k].late
       /\ \A r \in Readers : OnItsWay(r, k) => reader[r].version >= v \/ reader[r].late
ListsCovered ==
    \A k \in Keys : /\ Covered(k, shown[k])
                    /\ \A w \in Writers : writer[w].pc = "del" /\ k \notin writer[w].dels
                                           => Covered(k, writer[w].made[k])

IInv ==
    /\ TypeOK /\ WritesOK /\ PairsSeen /\ DefaultsAlone /\ StagesNamed /\ RemovedAlone /\ PositionsAlone
    /\ ListsAged /\ ListsCovered
=============================================================================
