-------------------------- MODULE BackofficeProofs --------------------------
(***************************************************************************)
(* The catalogue and the plans, and what holds of the whole office: the      *)
(* invariants of its components together, and what one step may do.          *)
(***************************************************************************)
EXTENDS OfficeProofs, FiniteSetTheorems, SequenceTheorems, TLAPS

-----------------------------------------------------------------------------
(* The catalogue: types. *)

LEMMA CatNumbers ==
    /\ TTL \in Nat /\ MaxFetch \in Nat /\ MaxTime \in Nat /\ MaxReads \in Nat
    /\ MaxCatalogueWrites \in Nat /\ MaxFailures \in Nat
  BY CatalogueAssumption DEF C!ConstantsOK

LEMMA CatNone ==
    /\ None \notin Pipelines /\ None \notin Stages /\ None \notin C!StageRow
    /\ None \notin C!Stored /\ None \notin C!List
    /\ IsFiniteSet(Pipelines) /\ IsFiniteSet(Stages)
  <1>1. \A T : C!IsFiniteSet(T) <=> IsFiniteSet(T)
    BY DEF C!IsFiniteSet, IsFiniteSet
  <1> QED
    BY <1>1, CatalogueAssumption DEF C!ConstantsOK

LEMMA CatIdle ==
    /\ C!NotWriting \in C!Writer /\ C!NotWriting.pc = "idle" /\ C!NotWriting.op = ""
    /\ C!NotWriting.of = None /\ C!NotWriting.stage = None /\ C!NotWriting.default = FALSE
    /\ C!NotWriting.read = None
    /\ C!NotWriting.dels = {} /\ C!NotWriting.made = [k \in C!Keys |-> 0]
    /\ C!NotReading \in C!Reader /\ C!NotReading.pc = "idle" /\ C!NotReading.late = FALSE
  BY DEF C!NotWriting, C!Writer, C!NotReading, C!Reader, C!Keys

LEMMA CatMoved ==
    ASSUME C!TypeOK, NEW w \in Requests, NEW r \in C!Writer, catWriter' = [catWriter EXCEPT ![w] = r]
    PROVE  /\ catWriter' \in [Requests -> C!Writer] /\ catWriter'[w] = r
           /\ \A v \in Requests \ {w} : catWriter'[v] = catWriter[v]
  BY DEF C!TypeOK

LEMMA CatRead ==
    ASSUME C!TypeOK, NEW q \in Readers, NEW r \in C!Reader, catReader' = [catReader EXCEPT ![q] = r]
    PROVE  /\ catReader' \in [Readers -> C!Reader] /\ catReader'[q] = r
           /\ \A p \in Readers \ {q} : catReader'[p] = catReader[p]
  BY DEF C!TypeOK

\* The number of stages of a pipeline, which a stage that is created takes for its position.
LEMMA CatSize ==
    ASSUME NEW p
    PROVE  IsFiniteSet(C!StagesOf(p)) /\ Cardinality(C!StagesOf(p)) \in Nat
           /\ C!Cardinality(C!StagesOf(p)) = Cardinality(C!StagesOf(p))
  <1>1. C!StagesOf(p) \subseteq Stages
    BY DEF C!StagesOf
  <1>2. IsFiniteSet(C!StagesOf(p))
    BY <1>1, CatNone, FS_Subset
  <1>3. C!Cardinality(C!StagesOf(p)) = Cardinality(C!StagesOf(p))
    BY DEF C!Cardinality, Cardinality
  <1> QED
    BY <1>2, <1>3, FS_CardinalityType

LEMMA CatVersion ==
    ASSUME C!TypeOK, NEW k \in C!Keys
    PROVE  /\ C!Version(k) \in Nat /\ C!Version(k) >= 1 /\ catEnded[k] \in Seq(0..MaxTime)
           /\ C!Version(k) = Len(catEnded[k]) + 1 /\ Len(catEnded[k]) \in Nat
           /\ \A v \in 1..Len(catEnded[k]) : catEnded[k][v] \in Nat
  <1>1. catEnded[k] \in Seq(0..MaxTime)
    BY DEF C!TypeOK
  <1>2. Len(catEnded[k]) \in Nat /\ \A v \in 1..Len(catEnded[k]) : catEnded[k][v] \in 0..MaxTime
    BY <1>1, ElementOfSeq, LenProperties
  <1> QED
    BY <1>1, <1>2, CatNumbers DEF C!Version

\* A version of a list is replaced now.
LEMMA CatAppended ==
    ASSUME C!TypeOK, NEW k \in C!Keys, catEnded'[k] = Append(catEnded[k], catNow)
    PROVE  /\ catEnded'[k] \in Seq(0..MaxTime) /\ Len(catEnded'[k]) = Len(catEnded[k]) + 1
           /\ \A v \in 1..Len(catEnded[k]) : catEnded'[k][v] = catEnded[k][v]
           /\ catEnded'[k][Len(catEnded[k]) + 1] = catNow
  <1>1. catEnded[k] \in Seq(0..MaxTime) /\ catNow \in 0..MaxTime
    BY DEF C!TypeOK
  <1> QED
    BY <1>1

-----------------------------------------------------------------------------
(* The catalogue: what each step does. *)

\* What a write has read when it begins.
CatRequest(req) ==
    /\ req.dels = {} /\ req.made = [k \in C!Keys |-> 0] /\ req.pc \notin {"idle", "del"}
    /\ \/ /\ req.op = "create pipeline" /\ req.pc \in {"clear", "save pipeline"} /\ req.of \in Pipelines
          /\ req.stage = None /\ req.read = None /\ (req.pc = "save pipeline" => ~req.default)
       \/ /\ req.op = "update pipeline" /\ req.pc \in {"clear", "save pipeline"} /\ req.of \in Pipelines
          /\ req.stage = None /\ req.read = C!WithStages(req.of)
          /\ req.pc = "save pipeline" /\ req.default => catPipeline[req.of] = "default"
       \/ /\ req.op = "remove pipeline" /\ req.pc = "delete pipeline" /\ req.of \in Pipelines /\ req.stage = None
       \/ /\ req.op = "create stage" /\ req.pc = "save stage" /\ req.of \in Pipelines /\ req.stage \in Stages
          /\ catStage[req.stage] = None /\ req.stage \notin catRemoved
          /\ \A v \in Requests : catWriter[v].stage # req.stage
          /\ req.read = C!Stage(req.of, C!Cardinality(C!StagesOf(req.of)))
       \/ /\ req.op = "update stage" /\ req.pc = "save stage" /\ req.stage \in Stages
          /\ catStage[req.stage] # None /\ req.read = catStage[req.stage] /\ req.of = catStage[req.stage].of
       \/ /\ req.op = "remove stage" /\ req.pc = "delete stage" /\ req.stage \in Stages
          /\ catStage[req.stage] # None /\ req.of = catStage[req.stage].of

CatBegins(w) ==
    \/ \E p \in Pipelines :
          \/ \E default \in BOOLEAN : C!CreatePipeline(w, p, default)
          \/ \E change \in {"default", "plain", "same"} : C!UpdatePipeline(w, p, change)
          \/ C!RemovePipeline(w, p)
          \/ \E s \in Stages : C!CreateStage(w, s, p)
    \/ \E s \in Stages : C!UpdateStage(w, s) \/ C!RemoveStage(w, s)

LEMMA CatBegin ==
    ASSUME C!TypeOK, NEW w \in Requests, CatBegins(w)
    PROVE  \E req \in C!Writer : C!Read(w, req) /\ CatRequest(req)
  <1> USE CatIdle
  <1>1. ASSUME NEW p \in Pipelines, NEW default \in BOOLEAN, C!CreatePipeline(w, p, default)
        PROVE  \E req \in C!Writer : C!Read(w, req) /\ CatRequest(req)
    <2> DEFINE req == [C!NotWriting EXCEPT !.pc = IF default THEN "clear" ELSE "save pipeline",
                         !.op = "create pipeline", !.of = p, !.default = default]
    <2>1. req \in C!Writer /\ CatRequest(req)
      BY DEF CatRequest, C!Writer
    <2>2. C!Read(w, req)
      BY <1>1 DEF C!CreatePipeline
    <2> HIDE DEF req
    <2> QED
      BY <2>1, <2>2
  <1>2. ASSUME NEW p \in Pipelines, NEW change \in {"default", "plain", "same"}, C!UpdatePipeline(w, p, change)
        PROVE  \E req \in C!Writer : C!Read(w, req) /\ CatRequest(req)
    <2> DEFINE default == (change = "default" \/ (change = "same" /\ catPipeline[p] = "default"))
               pc == IF change = "default" THEN "clear" ELSE "save pipeline"
               req == [C!NotWriting EXCEPT !.pc = pc, !.op = "update pipeline", !.of = p,
                         !.read = C!WithStages(p), !.default = default]
    <2>1. C!WithStages(p) \in C!Stored
      BY DEF C!WithStages, C!StagesOf, C!Stored, C!TypeOK
    <2>2. default \in BOOLEAN /\ pc \in {"clear", "save pipeline"}
          /\ (pc = "save pipeline" /\ default => catPipeline[p] = "default")
      <3>1. pc \in {"clear", "save pipeline"} /\ (pc = "save pipeline" /\ default => catPipeline[p] = "default")
        OBVIOUS
      <3>2. default \in BOOLEAN
        OBVIOUS
      <3> QED
        BY <3>1, <3>2
    <2>3. C!Read(w, req)
      BY <1>2 DEF C!UpdatePipeline
    <2> HIDE DEF default, pc
    <2>4. /\ req \in C!Writer /\ req.pc = pc /\ req.op = "update pipeline" /\ req.of = p /\ req.stage = None
          /\ req.read = C!WithStages(p) /\ req.default = default
          /\ req.dels = {} /\ req.made = [k \in C!Keys |-> 0]
      BY <2>1, <2>2 DEF C!Writer
    <2> HIDE DEF req
    <2>5. CatRequest(req)
      BY <2>2, <2>4 DEF CatRequest
    <2> QED
      BY <2>3, <2>4, <2>5
  <1>3. ASSUME NEW p \in Pipelines, C!RemovePipeline(w, p)
        PROVE  \E req \in C!Writer : C!Read(w, req) /\ CatRequest(req)
    <2> DEFINE req == [C!NotWriting EXCEPT !.pc = "delete pipeline", !.op = "remove pipeline", !.of = p]
    <2>1. req \in C!Writer /\ CatRequest(req)
      BY DEF CatRequest, C!Writer
    <2>2. C!Read(w, req)
      BY <1>3 DEF C!RemovePipeline
    <2> HIDE DEF req
    <2> QED
      BY <2>1, <2>2
  <1>4. ASSUME NEW p \in Pipelines, NEW s \in Stages, C!CreateStage(w, s, p)
        PROVE  \E req \in C!Writer : C!Read(w, req) /\ CatRequest(req)
    <2> DEFINE row == C!Stage(p, C!Cardinality(C!StagesOf(p)))
               req == [C!NotWriting EXCEPT !.pc = "save stage", !.op = "create stage", !.of = p, !.stage = s,
                         !.read = row]
    <2>1. row \in C!StageRow
      BY CatSize DEF C!Stage, C!StageRow
    <2>2. C!Read(w, req) /\ catStage[s] = None /\ s \notin catRemoved /\ \A v \in Requests : catWriter[v].stage # s
      BY <1>4 DEF C!CreateStage
    <2>3. row = C!Stage(p, C!Cardinality(C!StagesOf(p)))
      OBVIOUS
    <2> HIDE DEF row
    <2>4. /\ req \in C!Writer /\ req.pc = "save stage" /\ req.op = "create stage" /\ req.of = p /\ req.stage = s
          /\ req.read = row /\ req.dels = {} /\ req.made = [k \in C!Keys |-> 0]
      BY <2>1 DEF C!Writer
    <2> HIDE DEF req
    <2>5. CatRequest(req)
      BY <2>2, <2>3, <2>4 DEF CatRequest
    <2> QED
      BY <2>2, <2>4, <2>5
  <1>5. ASSUME NEW s \in Stages, C!UpdateStage(w, s)
        PROVE  \E req \in C!Writer : C!Read(w, req) /\ CatRequest(req)
    <2> DEFINE req == [C!NotWriting EXCEPT !.pc = "save stage", !.op = "update stage", !.of = catStage[s].of,
                         !.stage = s, !.read = catStage[s]]
    <2>1. C!Read(w, req) /\ catStage[s] # None
      BY <1>5 DEF C!UpdateStage
    <2>2. catStage[s] \in C!StageRow /\ catStage[s].of \in Pipelines
      BY <2>1 DEF C!TypeOK, C!Stored, C!StageRow
    <2>3. /\ req \in C!Writer /\ req.pc = "save stage" /\ req.op = "update stage" /\ req.of = catStage[s].of
          /\ req.stage = s /\ req.read = catStage[s] /\ req.dels = {} /\ req.made = [k \in C!Keys |-> 0]
      BY <2>2 DEF C!Writer
    <2> HIDE DEF req
    <2>4. CatRequest(req)
      BY <2>1, <2>3 DEF CatRequest
    <2> QED
      BY <2>1, <2>3, <2>4
  <1>6. ASSUME NEW s \in Stages, C!RemoveStage(w, s)
        PROVE  \E req \in C!Writer : C!Read(w, req) /\ CatRequest(req)
    <2> DEFINE req == [C!NotWriting EXCEPT !.pc = "delete stage", !.op = "remove stage", !.of = catStage[s].of, !.stage = s]
    <2>1. C!Read(w, req) /\ catStage[s] # None
      BY <1>6 DEF C!RemoveStage
    <2>2. catStage[s].of \in Pipelines
      BY <2>1 DEF C!TypeOK, C!Stored, C!StageRow
    <2>3. /\ req \in C!Writer /\ req.pc = "delete stage" /\ req.op = "remove stage" /\ req.of = catStage[s].of
          /\ req.stage = s /\ req.dels = {} /\ req.made = [k \in C!Keys |-> 0]
      BY <2>2 DEF C!Writer
    <2> HIDE DEF req
    <2>4. CatRequest(req)
      BY <2>1, <2>3 DEF CatRequest
    <2> QED
      BY <2>1, <2>3, <2>4
  <1> QED
    BY <1>1, <1>2, <1>3, <1>4, <1>5, <1>6 DEF CatBegins

\* The row of a write is saved, and its keys are to be deleted.
LEMMA CatSaved ==
    ASSUME C!TypeOK, NEW w \in Requests, NEW changed \in SUBSET C!Keys, NEW dels \in SUBSET C!Keys,
           C!Saved(w, changed, dels)
    PROVE  /\ catWriter' \in [Requests -> C!Writer]
           /\ catWriter'[w].pc = "del" /\ catWriter'[w].dels = dels
           /\ catWriter'[w].op = catWriter[w].op /\ catWriter'[w].of = catWriter[w].of
           /\ catWriter'[w].stage = catWriter[w].stage
           /\ \A k \in C!Keys : catWriter'[w].made[k] = IF k \in changed THEN C!Version(k) + 1 ELSE 0
           /\ \A v \in Requests \ {w} : catWriter'[v] = catWriter[v]
           /\ catEnded' \in [C!Keys -> Seq(0..MaxTime)]
           /\ \A k \in C!Keys : catEnded'[k] = IF k \in changed THEN Append(catEnded[k], catNow) ELSE catEnded[k]
           /\ catKept' = catKept \cup (changed \ dels)
  <1> DEFINE made == [k \in C!Keys |-> IF k \in changed THEN C!Version(k) + 1 ELSE 0]
             r == [catWriter[w] EXCEPT !.pc = "del", !.dels = dels, !.made = made]
  <1>1. made \in [C!Keys -> Nat] /\ \A k \in C!Keys : made[k] = IF k \in changed THEN C!Version(k) + 1 ELSE 0
    BY CatVersion
  <1>2. catWriter' = [catWriter EXCEPT ![w] = r] /\ catKept' = catKept \cup (changed \ dels)
    BY DEF C!Saved
  <1>3. catEnded' = [k \in C!Keys |-> IF k \in changed THEN Append(catEnded[k], catNow) ELSE catEnded[k]]
    BY DEF C!Saved
  <1> HIDE DEF made
  <1>4. /\ r \in C!Writer /\ r.pc = "del" /\ r.dels = dels /\ r.op = catWriter[w].op /\ r.of = catWriter[w].of
        /\ r.stage = catWriter[w].stage /\ r.made = made
    <2>1. catWriter[w] \in C!Writer
      BY DEF C!TypeOK
    <2> QED
      BY <1>1, <2>1 DEF C!Writer
  <1> HIDE DEF r
  <1>5. catEnded' \in [C!Keys -> Seq(0..MaxTime)]
    <2>1. \A k \in C!Keys : Append(catEnded[k], catNow) \in Seq(0..MaxTime) /\ catEnded[k] \in Seq(0..MaxTime)
      BY DEF C!TypeOK
    <2> QED
      BY <1>3, <2>1
  <1> QED
    BY <1>1, <1>2, <1>3, <1>4, <1>5, CatMoved

LEMMA CatDropped ==
    ASSUME C!TypeOK, NEW w \in Requests, catWriter' = [catWriter EXCEPT ![w] = C!NotWriting]
    PROVE  /\ catWriter' \in [Requests -> C!Writer] /\ catWriter'[w] = C!NotWriting
           /\ \A v \in Requests \ {w} : catWriter'[v] = catWriter[v]
  BY CatIdle, CatMoved

\* A pipeline's save: what it was given, and what it does to the tables.
CatGiven(w) == IF catWriter[w].read = None THEN {} ELSE {s \in Stages : catWriter[w].read[s] # None}

LEMMA CatPipelineSaved ==
    ASSUME C!TypeOK, C!WritesOK, NEW w \in Requests, C!SavePipeline(w)
    PROVE  /\ catWriter[w].pc = "save pipeline" /\ catWriter[w].of \in Pipelines
           /\ UNCHANGED <<catRemoved, catCache, catAnswer, catShown, catOverlaps, catReader, catNow,
                           catReads, catWrites, catFailures>>
           /\ \/ /\ catWriter' = [catWriter EXCEPT ![w] = C!NotWriting]
                 /\ UNCHANGED <<catEnded, catKept, catPipeline, catStage>>
              \/ /\ catPipeline' = [catPipeline EXCEPT ![catWriter[w].of] =
                                       IF catWriter[w].default THEN "default" ELSE "plain"]
                 /\ catStage' = [s \in Stages |-> IF s \in CatGiven(w) THEN catWriter[w].read[s] ELSE catStage[s]]
                 /\ catStage' \in C!Stored
                 /\ \E changed \in SUBSET C!Keys : "pipelines" \in changed /\ C!Saved(w, changed, {"pipelines"})
  <1> DEFINE given == CatGiven(w)
             read == catWriter[w].read
  <1>1. /\ catWriter[w].pc = "save pipeline"
        /\ UNCHANGED <<catRemoved, catCache, catAnswer, catShown, catOverlaps, catReader, catNow,
                        catReads, catWrites, catFailures>>
    BY DEF C!SavePipeline, C!Step
  <1>2. catWriter[w].of \in Pipelines /\ (read = None \/ read \in C!Stored)
    BY <1>1 DEF C!WritesOK, C!Saving
  <1>3. CASE read # None /\ ~(C!StagesOf(catWriter[w].of) \subseteq given)
    <2>1. C!Refused(w) /\ UNCHANGED <<catPipeline, catStage>>
      BY <1>3 DEF C!SavePipeline, CatGiven
    <2> QED
      BY <1>1, <1>2, <2>1 DEF C!Refused
  <1>4. CASE ~(read # None /\ ~(C!StagesOf(catWriter[w].of) \subseteq given))
    <2> DEFINE changed == {"pipelines"} \cup {q \in Pipelines : \E s \in Stages :
                              catStage'[s] # catStage[s] /\ catStage'[s].of = q}
    <2>1. /\ catPipeline' = [catPipeline EXCEPT ![catWriter[w].of] =
                                IF catWriter[w].default THEN "default" ELSE "plain"]
          /\ catStage' = [s \in Stages |-> IF s \in given THEN read[s] ELSE catStage[s]]
          /\ C!Saved(w, changed, {"pipelines"})
      BY <1>4 DEF C!SavePipeline, CatGiven
    <2>2. changed \in SUBSET C!Keys /\ "pipelines" \in changed
      BY DEF C!Keys
    <2> HIDE DEF changed
    <2>3. catStage' \in C!Stored
      <3>1. \A s \in given : s \in Stages /\ read[s] \in C!StageRow
        BY <1>2 DEF CatGiven, C!Stored
      <3>2. \A s \in Stages : catStage[s] \in C!StageRow \cup {None}
        BY DEF C!TypeOK, C!Stored
      <3> QED
        BY <2>1, <3>1, <3>2 DEF C!Stored
    <2> QED
      BY <1>1, <1>2, <2>1, <2>2, <2>3
  <1> QED
    BY <1>3, <1>4

LEMMA CatPipelineDeleted ==
    ASSUME C!TypeOK, C!WritesOK, NEW w \in Requests, C!DeletePipeline(w)
    PROVE  /\ catWriter[w].pc = "delete pipeline" /\ catWriter[w].op = "remove pipeline"
           /\ UNCHANGED <<catCache, catAnswer, catShown, catOverlaps, catReader, catNow,
                           catReads, catWrites, catFailures>>
           /\ catPipeline' = [catPipeline EXCEPT ![catWriter[w].of] = "none"]
           /\ catStage' = [s \in Stages |-> IF s \in C!StagesOf(catWriter[w].of) THEN None ELSE catStage[s]]
           /\ catStage' \in C!Stored
           /\ catRemoved' = catRemoved \cup C!StagesOf(catWriter[w].of)
           /\ \E changed \in SUBSET C!Keys : "pipelines" \in changed /\ C!Saved(w, changed, {"pipelines"})
  <1> DEFINE p == catWriter[w].of
             changed == {"pipelines"} \cup {q \in {p} : C!StagesOf(p) # {}}
  <1>1. /\ catWriter[w].pc = "delete pipeline"
        /\ UNCHANGED <<catCache, catAnswer, catShown, catOverlaps, catReader, catNow,
                        catReads, catWrites, catFailures>>
        /\ catPipeline' = [catPipeline EXCEPT ![p] = "none"]
        /\ catStage' = [s \in Stages |-> IF s \in C!StagesOf(p) THEN None ELSE catStage[s]]
        /\ catRemoved' = catRemoved \cup C!StagesOf(p)
        /\ C!Saved(w, changed, {"pipelines"})
    BY DEF C!DeletePipeline, C!Step
  <1>2. p \in Pipelines /\ catWriter[w].op = "remove pipeline"
    BY <1>1 DEF C!WritesOK
  <1>3. changed \in SUBSET C!Keys /\ "pipelines" \in changed
    BY <1>2 DEF C!Keys
  <1> HIDE DEF changed
  <1>4. catStage' \in C!Stored
    BY <1>1 DEF C!TypeOK, C!Stored
  <1> QED
    BY <1>1, <1>2, <1>3, <1>4

LEMMA CatStageSaved ==
    ASSUME C!TypeOK, C!WritesOK, NEW w \in Requests, C!SaveStage(w)
    PROVE  /\ catWriter[w].pc = "save stage" /\ catWriter[w].stage \in Stages /\ catWriter[w].read \in C!StageRow
           /\ catWriter[w].op \in {"create stage", "update stage"}
           /\ catWriter[w].of \in Pipelines /\ catWriter[w].read.of = catWriter[w].of
           /\ UNCHANGED <<catPipeline, catRemoved, catCache, catAnswer, catShown, catOverlaps, catReader, catNow,
                           catReads, catWrites, catFailures>>
           /\ \/ /\ catWriter' = [catWriter EXCEPT ![w] = C!NotWriting]
                 /\ UNCHANGED <<catEnded, catKept, catStage>>
              \/ /\ catStage' = [catStage EXCEPT ![catWriter[w].stage] = catWriter[w].read]
                 /\ catStage' \in C!Stored
                 /\ \E changed \in SUBSET C!Keys : C!Saved(w, changed, changed)
  <1>1. /\ catWriter[w].pc = "save stage"
        /\ UNCHANGED <<catPipeline, catRemoved, catCache, catAnswer, catShown, catOverlaps, catReader, catNow,
                        catReads, catWrites, catFailures>>
        /\ \/ C!Refused(w) /\ UNCHANGED catStage
           \/ /\ catStage' = [catStage EXCEPT ![catWriter[w].stage] = catWriter[w].read]
              /\ C!Saved(w, {"pipelines", catWriter[w].of}, {"pipelines", catWriter[w].of})
    BY DEF C!SaveStage, C!Step
  <1>2. /\ catWriter[w].stage \in Stages /\ catWriter[w].read \in C!StageRow
        /\ catWriter[w].op \in {"create stage", "update stage"}
        /\ catWriter[w].of \in Pipelines /\ catWriter[w].read.of = catWriter[w].of
    BY <1>1 DEF C!WritesOK
  <1>3. CASE C!Refused(w) /\ UNCHANGED catStage
    BY <1>1, <1>2, <1>3 DEF C!Refused
  <1>4. CASE /\ catStage' = [catStage EXCEPT ![catWriter[w].stage] = catWriter[w].read]
             /\ C!Saved(w, {"pipelines", catWriter[w].of}, {"pipelines", catWriter[w].of})
    <2>1. catStage' \in C!Stored
      BY <1>2, <1>4 DEF C!TypeOK, C!Stored
    <2>2. {"pipelines", catWriter[w].of} \in SUBSET C!Keys
      BY <1>2 DEF C!Keys
    <2> QED
      BY <1>1, <1>2, <1>4, <2>1, <2>2
  <1> QED
    BY <1>1, <1>3, <1>4

LEMMA CatStageDeleted ==
    ASSUME C!TypeOK, C!WritesOK, NEW w \in Requests, C!DeleteStage(w)
    PROVE  /\ catWriter[w].pc = "delete stage" /\ catWriter[w].op = "remove stage" /\ catWriter[w].stage \in Stages
           /\ UNCHANGED <<catPipeline, catCache, catAnswer, catShown, catOverlaps, catReader, catNow,
                           catReads, catWrites, catFailures>>
           /\ catStage' = [catStage EXCEPT ![catWriter[w].stage] = None]
           /\ catStage' \in C!Stored
           /\ catRemoved' = catRemoved \cup {catWriter[w].stage}
           /\ \E changed \in SUBSET C!Keys, dels \in SUBSET C!Keys : changed \subseteq dels /\ C!Saved(w, changed, dels)
  <1> DEFINE dels == {"pipelines", catWriter[w].of}
             changed == IF catStage[catWriter[w].stage] = None THEN {} ELSE dels
  <1>1. /\ catWriter[w].pc = "delete stage"
        /\ UNCHANGED <<catPipeline, catCache, catAnswer, catShown, catOverlaps, catReader, catNow,
                        catReads, catWrites, catFailures>>
        /\ catStage' = [catStage EXCEPT ![catWriter[w].stage] = None]
        /\ catRemoved' = catRemoved \cup {catWriter[w].stage}
        /\ C!Saved(w, changed, dels)
    BY DEF C!DeleteStage, C!Step
  <1>2. catWriter[w].of \in Pipelines /\ catWriter[w].op = "remove stage" /\ catWriter[w].stage \in Stages
    BY <1>1 DEF C!WritesOK
  <1>3. dels \in SUBSET C!Keys /\ changed \in SUBSET C!Keys /\ changed \subseteq dels
    BY <1>2 DEF C!Keys
  <1> HIDE DEF dels, changed
  <1>4. catStage' \in C!Stored
    BY <1>1, <1>2 DEF C!TypeOK, C!Stored
  <1> QED
    BY <1>1, <1>2, <1>3, <1>4

LEMMA CatCleared ==
    ASSUME C!TypeOK, C!WritesOK, NEW w \in Requests, C!ClearDefault(w)
    PROVE  /\ catWriter[w].pc = "clear" /\ catWriter'[w].pc = "save pipeline"
           /\ catWriter' \in [Requests -> C!Writer]
           /\ \A v \in Requests \ {w} : catWriter'[v] = catWriter[v]
           /\ catWriter'[w].op = catWriter[w].op /\ catWriter'[w].of = catWriter[w].of
           /\ catWriter'[w].stage = catWriter[w].stage /\ catWriter'[w].read = catWriter[w].read
           /\ catWriter'[w].default = catWriter[w].default
           /\ catWriter'[w].dels = catWriter[w].dels /\ catWriter'[w].made = catWriter[w].made
           /\ catPipeline' \in [Pipelines -> {"none", "plain", "default"}]
           /\ \A p \in Pipelines : catPipeline'[p] # "default"
           /\ catEnded' \in [C!Keys -> Seq(0..MaxTime)]
           /\ \A k \in C!Keys : catEnded'[k] = IF k = "pipelines" THEN Append(catEnded[k], catNow) ELSE catEnded[k]
           /\ catKept' = catKept \cup {"pipelines"} /\ "pipelines" \in C!Keys
           /\ UNCHANGED <<catStage, catRemoved, catCache, catAnswer, catShown, catOverlaps, catReader, catNow,
                           catReads, catWrites, catFailures>>
  <1> DEFINE r == [catWriter[w] EXCEPT !.pc = "save pipeline"]
  <1>1. /\ catWriter[w].pc = "clear" /\ catWriter' = [catWriter EXCEPT ![w] = r]
        /\ catPipeline' = [p \in Pipelines |-> IF catPipeline[p] = "default" THEN "plain" ELSE catPipeline[p]]
        /\ catEnded' = [catEnded EXCEPT !["pipelines"] = Append(catEnded["pipelines"], catNow)]
        /\ catKept' = catKept \cup {"pipelines"}
        /\ UNCHANGED <<catStage, catRemoved, catCache, catAnswer, catShown, catOverlaps, catReader, catNow,
                        catReads, catWrites, catFailures>>
    BY DEF C!ClearDefault, C!Step
  <1>2. /\ r \in C!Writer /\ r.pc = "save pipeline" /\ r.op = catWriter[w].op /\ r.of = catWriter[w].of
        /\ r.stage = catWriter[w].stage /\ r.read = catWriter[w].read /\ r.default = catWriter[w].default
        /\ r.dels = catWriter[w].dels /\ r.made = catWriter[w].made
    <2>1. catWriter[w] \in C!Writer
      BY DEF C!TypeOK
    <2> QED
      BY <2>1 DEF C!Writer
  <1> HIDE DEF r
  <1>3. catPipeline' \in [Pipelines -> {"none", "plain", "default"}] /\ \A p \in Pipelines : catPipeline'[p] # "default"
    BY <1>1 DEF C!TypeOK
  <1>4. "pipelines" \in C!Keys
    BY DEF C!Keys
  <1>5. /\ catEnded' \in [C!Keys -> Seq(0..MaxTime)]
        /\ \A k \in C!Keys : catEnded'[k] = IF k = "pipelines" THEN Append(catEnded[k], catNow) ELSE catEnded[k]
    <2>1. Append(catEnded["pipelines"], catNow) \in Seq(0..MaxTime) /\ catEnded \in [C!Keys -> Seq(0..MaxTime)]
      BY <1>4 DEF C!TypeOK
    <2> QED
      BY <1>1, <1>4, <2>1
  <1> QED
    BY <1>1, <1>2, <1>3, <1>4, <1>5, CatMoved

\* A write ends, or goes on to its next key: the tables stay as they are.
CatLeaves(w) ==
    /\ UNCHANGED <<catPipeline, catStage, catRemoved, catOverlaps>>
    /\ catWriter' \in [Requests -> C!Writer] /\ \A v \in Requests \ {w} : catWriter'[v] = catWriter[v]
    /\ \/ catWriter'[w] = C!NotWriting
       \/ /\ catWriter[w].pc = "del" /\ catWriter'[w].pc = "del" /\ catWriter'[w].op = catWriter[w].op
          /\ catWriter'[w].stage = catWriter[w].stage /\ catWriter'[w].made = catWriter[w].made

LEMMA CatFailed ==
    ASSUME C!TypeOK, NEW fails \in BOOLEAN, C!MayFail(fails)
    PROVE  catFailures' \in 0..MaxFailures
  BY CatNumbers DEF C!MayFail, C!TypeOK

\* A key is deleted, or the deletion fails.
LEMMA CatDeleted ==
    ASSUME C!TypeOK, NEW w \in Requests, NEW k \in C!Keys, NEW fails \in BOOLEAN, C!Del(w, k, fails)
    PROVE  /\ catWriter[w].pc = "del" /\ k \in catWriter[w].dels /\ CatLeaves(w)
           /\ UNCHANGED <<catEnded, catAnswer, catNow, catReads, catWrites>> /\ catFailures' \in 0..MaxFailures
           /\ \/ catKept' = catKept \cup {k} /\ UNCHANGED <<catCache, catReader>>
              \/ /\ catCache' = [catCache EXCEPT ![k] = None] /\ catKept' = catKept \ {k}
                 /\ catReader' \in [Readers -> C!Reader]
                 /\ \A r \in Readers :
                       /\ catReader'[r].pc = catReader[r].pc /\ catReader'[r].key = catReader[r].key
                       /\ catReader'[r].version = catReader[r].version /\ catReader'[r].at = catReader[r].at
                       /\ catReader'[r].late = (catReader[r].late \/ C!OnItsWay(r, k))
           /\ \/ /\ catWriter[w].dels = {k} /\ catWriter'[w] = C!NotWriting /\ catShown' \in [C!Keys -> Nat]
                 /\ \A l \in C!Keys : catShown'[l] \in {catShown[l], catWriter[w].made[l]}
              \/ catWriter'[w].dels = catWriter[w].dels \ {k} /\ catWriter'[w] # C!NotWriting /\ UNCHANGED catShown
  <1>1. /\ catWriter[w].pc = "del" /\ k \in catWriter[w].dels
        /\ UNCHANGED <<catPipeline, catStage, catRemoved, catOverlaps>>
        /\ UNCHANGED <<catEnded, catAnswer, catNow, catReads, catWrites>> /\ C!MayFail(fails)
    BY DEF C!Del
  <1>2. catFailures' \in 0..MaxFailures
    BY <1>1, CatFailed
  <1>3. \/ catKept' = catKept \cup {k} /\ UNCHANGED <<catCache, catReader>>
        \/ /\ catCache' = [catCache EXCEPT ![k] = None] /\ catKept' = catKept \ {k}
           /\ catReader' \in [Readers -> C!Reader]
           /\ \A r \in Readers :
                 /\ catReader'[r].pc = catReader[r].pc /\ catReader'[r].key = catReader[r].key
                 /\ catReader'[r].version = catReader[r].version /\ catReader'[r].at = catReader[r].at
                 /\ catReader'[r].late = (catReader[r].late \/ C!OnItsWay(r, k))
    <2>1. CASE fails
      BY <2>1 DEF C!Del
    <2>2. CASE ~fails
      <3>1. /\ catCache' = [catCache EXCEPT ![k] = None] /\ catKept' = catKept \ {k}
            /\ catReader' = [r \in Readers |-> [catReader[r] EXCEPT !.late = @ \/ C!OnItsWay(r, k)]]
        BY <2>2 DEF C!Del
      <3>2. \A r \in Readers : catReader[r] \in C!Reader /\ C!OnItsWay(r, k) \in BOOLEAN
        BY DEF C!TypeOK, C!OnItsWay
      <3>3. ASSUME NEW r \in Readers
            PROVE  /\ catReader'[r] \in C!Reader
                   /\ catReader'[r].pc = catReader[r].pc /\ catReader'[r].key = catReader[r].key
                   /\ catReader'[r].version = catReader[r].version /\ catReader'[r].at = catReader[r].at
                   /\ catReader'[r].late = (catReader[r].late \/ C!OnItsWay(r, k))
        <4> DEFINE late == catReader[r].late \/ C!OnItsWay(r, k)
        <4>1. late \in BOOLEAN
          OBVIOUS
        <4>2. catReader'[r] = [catReader[r] EXCEPT !.late = late]
          BY <3>1
        <4> HIDE DEF late
        <4>3. catReader'[r] \in C!Reader /\ catReader'[r].late = late
              /\ catReader'[r].pc = catReader[r].pc /\ catReader'[r].key = catReader[r].key
              /\ catReader'[r].version = catReader[r].version /\ catReader'[r].at = catReader[r].at
          BY <3>2, <4>1, <4>2 DEF C!Reader
        <4> QED
          BY <4>3 DEF late
      <3>4. catReader' \in [Readers -> C!Reader]
        BY <3>1, <3>3
      <3> QED
        BY <3>1, <3>3, <3>4
    <2> QED
      BY <2>1, <2>2
  <1>4. CASE catWriter[w].dels = {k}
    <2>1. /\ catWriter' = [catWriter EXCEPT ![w] = C!NotWriting]
          /\ catShown' = [l \in C!Keys |-> IF catWriter[w].made[l] > catShown[l] THEN catWriter[w].made[l] ELSE catShown[l]]
      BY <1>4 DEF C!Del
    <2>2. catWriter[w].made \in [C!Keys -> Nat] /\ catShown \in [C!Keys -> Nat]
      BY DEF C!TypeOK, C!Writer
    <2>3. catShown' \in [C!Keys -> Nat] /\ \A l \in C!Keys : catShown'[l] \in {catShown[l], catWriter[w].made[l]}
      BY <2>1, <2>2
    <2> QED
      BY <1>1, <1>2, <1>3, <1>4, <2>1, <2>3, CatDropped DEF CatLeaves
  <1>5. CASE catWriter[w].dels # {k}
    <2> DEFINE r == [catWriter[w] EXCEPT !.dels = catWriter[w].dels \ {k}]
    <2>1. catWriter' = [catWriter EXCEPT ![w] = r] /\ UNCHANGED catShown
      BY <1>5 DEF C!Del
    <2>2. /\ r \in C!Writer /\ r.pc = "del" /\ r.dels = catWriter[w].dels \ {k} /\ r.op = catWriter[w].op
          /\ r.stage = catWriter[w].stage /\ r.made = catWriter[w].made
      <3>1. catWriter[w] \in C!Writer
        BY DEF C!TypeOK
      <3> QED
        BY <1>1, <3>1 DEF C!Writer
    <2>3. r # C!NotWriting
      BY <2>2, CatIdle
    <2> HIDE DEF r
    <2> QED
      BY <1>1, <1>2, <1>3, <2>1, <2>2, <2>3, CatMoved DEF CatLeaves
  <1> QED
    BY <1>4, <1>5

LEMMA CatFails ==
    ASSUME C!TypeOK, NEW w \in Requests, C!Fails(w)
    PROVE  /\ CatLeaves(w) /\ catWriter'[w] = C!NotWriting /\ catKept' = catKept \cup catWriter[w].dels
           /\ catFailures' \in 0..MaxFailures /\ catWriter[w].dels \subseteq C!Keys
           /\ UNCHANGED <<catCache, catEnded, catAnswer, catShown, catReader, catNow, catReads, catWrites>>
  <1>1. catWriter' = [catWriter EXCEPT ![w] = C!NotWriting]
    BY DEF C!Fails
  <1>2. catFailures' \in 0..MaxFailures
    BY CatNumbers DEF C!Fails, C!TypeOK
  <1>3. catWriter[w].dels \subseteq C!Keys
    <2>1. catWriter[w] \in C!Writer
      BY DEF C!TypeOK
    <2> QED
      BY <2>1 DEF C!Writer
  <1> QED
    BY <1>1, <1>2, <1>3, CatDropped DEF C!Fails, CatLeaves

\* The steps of readers, and time.
catRows == <<catPipeline, catStage, catRemoved, catEnded, catShown, catOverlaps, catWriter, catWrites>>

LEMMA CatGot ==
    ASSUME C!TypeOK, NEW q \in Readers, NEW k \in C!Keys, NEW fails \in BOOLEAN, C!Get(q, k, fails)
    PROVE  /\ UNCHANGED <<catRows, catCache, catKept, catNow>> /\ catFailures' \in 0..MaxFailures
           /\ catReads' \in 0..MaxReads /\ catAnswer' \in [C!Keys -> [value : Nat, at : Nat]]
           /\ \/ /\ UNCHANGED catReader /\ C!Hit(k) /\ catCache[k] \in C!List
                 /\ catAnswer' = [catAnswer EXCEPT ![k] = [value |-> catCache[k].version, at |-> catNow]]
              \/ /\ UNCHANGED catAnswer /\ catReader' \in [Readers -> C!Reader] /\ catReader'[q].pc = "fetch"
                 /\ \A p \in Readers \ {q} : catReader'[p] = catReader[p]
  <1>1. UNCHANGED <<catRows, catCache, catKept, catNow>> /\ C!MayFail(fails)
    BY DEF C!Get, catRows
  <1>2. catFailures' \in 0..MaxFailures
    BY <1>1, CatFailed
  <1>3. catReads' \in 0..MaxReads
    BY CatNumbers, SMTT(30) DEF C!Get, C!TypeOK
  <1>4. CASE C!Hit(k) /\ ~fails
    <2>1. C!Answer(k, catCache[k].version) /\ UNCHANGED catReader
      BY <1>4 DEF C!Get
    <2>2. catAnswer' = [catAnswer EXCEPT ![k] = [value |-> catCache[k].version, at |-> catNow]]
      BY <2>1 DEF C!Answer
    <2>3. catCache[k] \in C!List
      BY <1>4 DEF C!Hit, C!TypeOK
    <2>4. [value |-> catCache[k].version, at |-> catNow] \in [value : Nat, at : Nat]
      BY <2>3, CatNumbers DEF C!List, C!TypeOK
    <2>5. catAnswer' \in [C!Keys -> [value : Nat, at : Nat]]
      BY <2>2, <2>4 DEF C!TypeOK
    <2> QED
      BY <1>1, <1>2, <1>3, <1>4, <2>1, <2>2, <2>3, <2>5
  <1>5. CASE ~(C!Hit(k) /\ ~fails)
    <2> DEFINE r == [C!NotReading EXCEPT !.pc = "fetch", !.key = k]
    <2>1. catReader' = [catReader EXCEPT ![q] = r] /\ UNCHANGED catAnswer
      BY <1>5 DEF C!Get
    <2>2. r \in C!Reader /\ r.pc = "fetch"
      BY CatIdle DEF C!Reader
    <2> HIDE DEF r
    <2>3. catAnswer' \in [C!Keys -> [value : Nat, at : Nat]]
      BY <2>1 DEF C!TypeOK
    <2> QED
      BY <1>1, <1>2, <1>3, <2>1, <2>2, <2>3, CatRead
  <1> QED
    BY <1>4, <1>5

LEMMA CatFetched ==
    ASSUME C!TypeOK, NEW q \in Readers, C!Fetch(q)
    PROVE  /\ UNCHANGED <<catRows, catCache, catKept, catNow, catAnswer, catReads, catFailures>>
           /\ catReader' \in [Readers -> C!Reader] /\ \A p \in Readers \ {q} : catReader'[p] = catReader[p]
           /\ catReader[q].pc = "fetch" /\ catReader'[q].key = catReader[q].key
           /\ catReader'[q].version = C!Version(catReader[q].key) /\ catReader'[q].at = catNow
  <1> DEFINE k == catReader[q].key
             r == [catReader[q] EXCEPT !.pc = "set", !.version = C!Version(k), !.at = catNow]
  <1>1. /\ UNCHANGED <<catRows, catCache, catKept, catNow, catAnswer, catReads, catFailures>>
        /\ catReader' = [catReader EXCEPT ![q] = r] /\ catReader[q].pc = "fetch"
    BY DEF C!Fetch, catRows, C!redis, C!TypeOK
  <1>2. catReader[q] \in C!Reader /\ catNow \in Nat /\ k \in C!Keys
    BY CatNumbers DEF C!TypeOK, C!Reader
  <1>3. C!Version(k) \in Nat
    BY <1>2, CatVersion
  <1>4. r \in C!Reader /\ r.key = k /\ r.version = C!Version(k) /\ r.at = catNow
    BY <1>2, <1>3 DEF C!Reader
  <1> HIDE DEF r
  <1> QED
    BY <1>1, <1>4, CatRead

LEMMA CatSet ==
    ASSUME C!TypeOK, NEW q \in Readers, NEW fails \in BOOLEAN, C!Set(q, fails)
    PROVE  /\ catReader[q].pc = "set" /\ catReader[q].key \in C!Keys /\ catReader[q] \in C!Reader
           /\ UNCHANGED <<catRows, catNow, catReads>> /\ catFailures' \in 0..MaxFailures
           /\ catReader' \in [Readers -> C!Reader] /\ \A p \in Readers \ {q} : catReader'[p] = catReader[p]
           /\ catReader'[q] = C!NotReading
           /\ catAnswer' = [catAnswer EXCEPT ![catReader[q].key] = [value |-> catReader[q].version, at |-> catNow]]
           /\ catAnswer' \in [C!Keys -> [value : Nat, at : Nat]]
           /\ \/ UNCHANGED catCache /\ UNCHANGED catKept
              \/ /\ catCache' \in [C!Keys -> C!List \cup {None}]
                 /\ \A l \in C!Keys \ {catReader[q].key} : catCache'[l] = catCache[l]
                 /\ catCache'[catReader[q].key] = [version |-> catReader[q].version, until |-> catNow + TTL,
                                                   late |-> catReader[q].late]
                 /\ catKept' \subseteq catKept
                 /\ \A l \in catKept \ catKept' :
                       l = catReader[q].key /\ catReader[q].version = C!Version(l) /\ \A p \in Readers \ {q} : ~C!OnItsWay(p, l)
  <1> DEFINE k == catReader[q].key
             e == [version |-> catReader[q].version, until |-> catNow + TTL, late |-> catReader[q].late]
  <1>1. /\ catReader[q].pc = "set" /\ UNCHANGED <<catRows, catNow, catReads>> /\ C!MayFail(fails)
        /\ catReader' = [catReader EXCEPT ![q] = C!NotReading]
        /\ catAnswer' = [catAnswer EXCEPT ![k] = [value |-> catReader[q].version, at |-> catNow]]
    BY DEF C!Set, catRows, C!Answer
  <1>2. catReader[q] \in C!Reader /\ k \in C!Keys /\ catNow \in Nat /\ catReader[q].version \in Nat
    BY CatNumbers DEF C!TypeOK, C!Reader
  <1>3. e \in C!List
    BY <1>2, CatNumbers DEF C!List, C!Reader
  <1>4. catAnswer' \in [C!Keys -> [value : Nat, at : Nat]]
    BY <1>1, <1>2 DEF C!TypeOK
  <1>5. \/ UNCHANGED <<catCache, catKept>>
        \/ /\ catCache' = [catCache EXCEPT ![k] = e]
           /\ catKept' = catKept \ {l \in {k} : /\ catReader[q].version = C!Version(k)
                                               /\ \A p \in Readers \ {q} : ~C!OnItsWay(p, k)}
    BY DEF C!Set, C!Until
  <1> HIDE DEF e
  <1>6. catFailures' \in 0..MaxFailures
    BY <1>1, CatFailed
  <1>7. /\ catReader' \in [Readers -> C!Reader] /\ \A p \in Readers \ {q} : catReader'[p] = catReader[p]
        /\ catReader'[q] = C!NotReading
    BY <1>1, CatIdle, CatRead
  <1>8. CASE UNCHANGED <<catCache, catKept>>
    BY <1>1, <1>2, <1>4, <1>6, <1>7, <1>8
  <1>9. CASE /\ catCache' = [catCache EXCEPT ![k] = e]
             /\ catKept' = catKept \ {l \in {k} : /\ catReader[q].version = C!Version(k)
                                                 /\ \A p \in Readers \ {q} : ~C!OnItsWay(p, k)}
    <2>1. /\ catCache' \in [C!Keys -> C!List \cup {None}] /\ catCache'[k] = e
          /\ \A l \in C!Keys \ {k} : catCache'[l] = catCache[l]
      BY <1>2, <1>3, <1>9 DEF C!TypeOK
    <2>2. /\ catKept' \subseteq catKept
          /\ \A l \in catKept \ catKept' :
                l = k /\ catReader[q].version = C!Version(l) /\ \A p \in Readers \ {q} : ~C!OnItsWay(p, l)
      BY <1>9
    <2> QED
      BY <1>1, <1>2, <1>4, <1>6, <1>7, <2>1, <2>2 DEF e
  <1> QED
    BY <1>5, <1>8, <1>9

LEMMA CatTick ==
    ASSUME C!TypeOK, C!Tick
    PROVE  /\ UNCHANGED <<catRows, catCache, catKept, catAnswer, catReader, catReads, catFailures>>
           /\ catNow' = catNow + 1 /\ catNow' \in 0..MaxTime /\ catNow \in Nat
           /\ \A r \in Readers : catReader[r].pc = "set" => catNow < catReader[r].at + MaxFetch
  <1>1. catNow' \in 0..MaxTime /\ catNow \in Nat
    BY CatNumbers DEF C!Tick, C!TypeOK
  <1> QED
    BY <1>1 DEF C!Tick, catRows, C!redis

\* A request begins: its writer is typed, and the writes it overlaps are seen.
LEMMA CatBegun ==
    ASSUME C!TypeOK, NEW w \in Requests, NEW req \in C!Writer, C!Read(w, req)
    PROVE  /\ catWriter[w].pc = "idle" /\ catWriter' \in [Requests -> C!Writer] /\ catWriter'[w] = req
           /\ \A v \in Requests \ {w} : catWriter'[v] = catWriter[v]
           /\ catOverlaps' = catOverlaps \cup {{req.op, catWriter[v].op} : v \in {v \in Requests : catWriter[v].pc # "idle"}}
           /\ UNCHANGED <<catPipeline, catStage, catRemoved, catCache, catEnded, catAnswer, catShown, catKept,
                           catReader, catNow, catReads, catFailures>>
           /\ catWrites' \in 0..MaxCatalogueWrites
  <1>1. catWriter' = [catWriter EXCEPT ![w] = req]
    BY DEF C!Read, C!Begin
  <1>2. catWrites' \in 0..MaxCatalogueWrites
    BY CatNumbers DEF C!Read, C!Begin, C!TypeOK
  <1> QED
    BY <1>1, <1>2, CatMoved DEF C!Read, C!Begin, C!redis

\* The row a write saves, in whichever of the four ways.
CatWrites(w) == C!ClearDefault(w) \/ C!SavePipeline(w) \/ C!DeletePipeline(w) \/ C!SaveStage(w) \/ C!DeleteStage(w)

LEMMA CatSteps ==
    ASSUME C!Next
    PROVE  \/ \E w \in Requests : CatBegins(w) \/ CatWrites(w) \/ C!Fails(w)
                                  \/ \E k \in C!Keys, fails \in BOOLEAN : C!Del(w, k, fails)
           \/ \E q \in Readers : C!Fetch(q) \/ \E fails \in BOOLEAN : C!Set(q, fails) \/ \E k \in C!Keys : C!Get(q, k, fails)
           \/ C!Tick
  BY DEF C!Next, CatBegins, CatWrites

\* What a write does to the lists: some are replaced now, and those it will not delete are kept.
CatListsWritten(w) ==
    /\ UNCHANGED <<catCache, catAnswer, catShown, catOverlaps, catReader, catNow, catReads, catWrites, catFailures>>
    /\ catEnded' \in [C!Keys -> Seq(0..MaxTime)] /\ catWriter' \in [Requests -> C!Writer]
    /\ \A v \in Requests \ {w} : catWriter'[v] = catWriter[v]
    /\ \A k \in C!Keys : catEnded'[k] \in {catEnded[k], Append(catEnded[k], catNow)}
    /\ catKept \subseteq catKept' /\ catKept' \subseteq C!Keys
    /\ \/ catWriter'[w].pc \notin {"idle", "del"} /\ catWriter'[w].made = catWriter[w].made
       \/ catWriter'[w] = C!NotWriting
       \/ /\ catWriter'[w].pc = "del"
          /\ \A k \in C!Keys : \/ catWriter'[w].made[k] = 0
                                \/ /\ catWriter'[w].made[k] = C!Version(k) + 1 /\ catEnded'[k] = Append(catEnded[k], catNow)
                                   /\ k \in catKept' \cup catWriter'[w].dels

LEMMA CatSavedLists ==
    ASSUME C!TypeOK, NEW w \in Requests, NEW changed \in SUBSET C!Keys, NEW dels \in SUBSET C!Keys,
           C!Saved(w, changed, dels),
           UNCHANGED <<catCache, catAnswer, catShown, catOverlaps, catReader, catNow, catReads, catWrites, catFailures>>
    PROVE  CatListsWritten(w)
  <1>1. catKept \subseteq C!Keys
    BY DEF C!TypeOK
  <1>2. /\ catWriter' \in [Requests -> C!Writer] /\ \A v \in Requests \ {w} : catWriter'[v] = catWriter[v]
        /\ catWriter'[w].pc = "del" /\ catWriter'[w].dels = dels /\ catKept' = catKept \cup (changed \ dels)
        /\ catEnded' \in [C!Keys -> Seq(0..MaxTime)]
    <2>1. catWriter' \in [Requests -> C!Writer] /\ \A v \in Requests \ {w} : catWriter'[v] = catWriter[v]
      BY CatSaved
    <2>2. catWriter'[w].pc = "del" /\ catWriter'[w].dels = dels
      BY CatSaved, ZenonT(60)
    <2>3. catKept' = catKept \cup (changed \ dels) /\ catEnded' \in [C!Keys -> Seq(0..MaxTime)]
      BY CatSaved
    <2> QED
      BY <2>1, <2>2, <2>3
  <1>3. catKept \subseteq catKept' /\ catKept' \subseteq C!Keys
    BY <1>1, <1>2
  <1>4. ASSUME NEW k \in C!Keys
        PROVE  /\ catEnded'[k] \in {catEnded[k], Append(catEnded[k], catNow)}
               /\ \/ catWriter'[w].made[k] = 0
                  \/ /\ catWriter'[w].made[k] = C!Version(k) + 1 /\ catEnded'[k] = Append(catEnded[k], catNow)
                     /\ k \in catKept' \cup catWriter'[w].dels
    <2>1. /\ catWriter'[w].made[k] = IF k \in changed THEN C!Version(k) + 1 ELSE 0
          /\ catEnded'[k] = IF k \in changed THEN Append(catEnded[k], catNow) ELSE catEnded[k]
      BY CatSaved
    <2>2. CASE k \in changed
      BY <1>2, <2>1, <2>2
    <2>3. CASE k \notin changed
      BY <2>1, <2>3
    <2> QED
      BY <2>2, <2>3
  <1> QED
    BY <1>2, <1>3, <1>4 DEF CatListsWritten

LEMMA CatWritten ==
    ASSUME C!TypeOK, C!WritesOK, NEW w \in Requests, CatWrites(w)
    PROVE  CatListsWritten(w)
  <1>1. CASE C!ClearDefault(w)
    <2>1. catKept \subseteq C!Keys
      BY DEF C!TypeOK
    <2>2. \A k \in C!Keys : catEnded'[k] \in {catEnded[k], Append(catEnded[k], catNow)}
      BY <1>1, CatCleared
    <2>3. catKept \subseteq catKept' /\ catKept' \subseteq C!Keys
      <3>1. catKept' = catKept \cup {"pipelines"} /\ "pipelines" \in C!Keys
        BY <1>1, CatCleared
      <3> QED
        BY <2>1, <3>1
    <2> QED
      BY <1>1, <2>2, <2>3, CatCleared DEF CatListsWritten
  <1>2. ASSUME catWriter' = [catWriter EXCEPT ![w] = C!NotWriting], UNCHANGED <<catEnded, catKept>>,
               UNCHANGED <<catCache, catAnswer, catShown, catOverlaps, catReader, catNow, catReads, catWrites, catFailures>>
        PROVE  CatListsWritten(w)
    BY <1>2, CatDropped DEF CatListsWritten, C!TypeOK
  <1>3. CASE C!SavePipeline(w)
    BY <1>2, <1>3, CatPipelineSaved, CatSavedLists, "pipelines" \in C!Keys DEF C!Keys
  <1>4. CASE C!DeletePipeline(w)
    BY <1>4, CatPipelineDeleted, CatSavedLists, "pipelines" \in C!Keys DEF C!Keys
  <1>5. CASE C!SaveStage(w)
    BY <1>2, <1>5, CatStageSaved, CatSavedLists
  <1>6. CASE C!DeleteStage(w)
    BY <1>6, CatStageDeleted, CatSavedLists
  <1> QED
    BY <1>1, <1>3, <1>4, <1>5, <1>6 DEF CatWrites

LEMMA CatTypes ==
    ASSUME C!TypeOK, C!WritesOK, C!Next
    PROVE  C!TypeOK'
  <1>1. ASSUME NEW w \in Requests, CatBegins(w)
        PROVE  C!TypeOK'
    <2>1. PICK req \in C!Writer : C!Read(w, req)
      BY <1>1, CatBegin
    <2> QED
      BY <2>1, CatBegun DEF C!TypeOK
  <1>2. ASSUME NEW w \in Requests, CatWrites(w)
        PROVE  C!TypeOK'
    <2>1. CatListsWritten(w)
      BY <1>2, CatWritten
    <2>2. /\ catPipeline' \in [Pipelines -> {"none", "plain", "default"}] /\ catStage' \in C!Stored
          /\ catRemoved' \subseteq Stages
      <3>1. CASE C!ClearDefault(w)
        BY <3>1, CatCleared DEF C!TypeOK
      <3>2. CASE C!SavePipeline(w)
        BY <3>2, CatPipelineSaved DEF C!TypeOK
      <3>3. CASE C!DeletePipeline(w)
        BY <3>3, CatPipelineDeleted DEF C!TypeOK, C!StagesOf
      <3>4. CASE C!SaveStage(w)
        BY <3>4, CatStageSaved DEF C!TypeOK
      <3>5. CASE C!DeleteStage(w)
        BY <3>5, CatStageDeleted DEF C!TypeOK
      <3> QED
        BY <1>2, <3>1, <3>2, <3>3, <3>4, <3>5 DEF CatWrites
    <2> QED
      BY <2>1, <2>2 DEF CatListsWritten, C!TypeOK
  <1>3. ASSUME NEW w \in Requests, C!Fails(w)
        PROVE  C!TypeOK'
    BY <1>3, CatFails DEF CatLeaves, C!TypeOK
  <1>4. ASSUME NEW w \in Requests, NEW k \in C!Keys, NEW fails \in BOOLEAN, C!Del(w, k, fails)
        PROVE  C!TypeOK'
    <2>1. catCache' \in [C!Keys -> C!List \cup {None}] /\ catReader' \in [Readers -> C!Reader] /\ catKept' \subseteq C!Keys
      <3>1. CASE catKept' = catKept \cup {k} /\ UNCHANGED <<catCache, catReader>>
        BY <3>1 DEF C!TypeOK
      <3>2. CASE /\ catCache' = [catCache EXCEPT ![k] = None] /\ catKept' = catKept \ {k}
                 /\ catReader' \in [Readers -> C!Reader]
        BY <3>2 DEF C!TypeOK
      <3> QED
        BY <1>4, <3>1, <3>2, CatDeleted
    <2>2. catShown' \in [C!Keys -> Nat] /\ catFailures' \in 0..MaxFailures
          /\ UNCHANGED <<catEnded, catAnswer, catNow, catReads, catWrites>> /\ CatLeaves(w)
      BY <1>4, CatDeleted DEF C!TypeOK
    <2> QED
      BY <2>1, <2>2 DEF CatLeaves, C!TypeOK
  <1>5. ASSUME NEW q \in Readers, C!Fetch(q)
        PROVE  C!TypeOK'
    BY <1>5, CatFetched DEF catRows, C!TypeOK
  <1>6. ASSUME NEW q \in Readers, NEW fails \in BOOLEAN, C!Set(q, fails)
        PROVE  C!TypeOK'
    <2>1. catCache' \in [C!Keys -> C!List \cup {None}] /\ catKept' \subseteq C!Keys
      BY <1>6, CatSet DEF C!TypeOK
    <2> QED
      BY <1>6, <2>1, CatSet DEF catRows, C!TypeOK
  <1>7. ASSUME NEW q \in Readers, NEW k \in C!Keys, NEW fails \in BOOLEAN, C!Get(q, k, fails)
        PROVE  C!TypeOK'
    <2>1. catReader' \in [Readers -> C!Reader]
      <3>1. UNCHANGED catReader \/ catReader' \in [Readers -> C!Reader]
        BY <1>7, CatGot
      <3> QED
        BY <3>1 DEF C!TypeOK
    <2>2. /\ UNCHANGED <<catPipeline, catStage, catRemoved, catEnded, catShown, catWriter, catWrites, catCache, catKept, catNow>>
          /\ catFailures' \in 0..MaxFailures /\ catReads' \in 0..MaxReads
          /\ catAnswer' \in [C!Keys -> [value : Nat, at : Nat]]
      BY <1>7, CatGot DEF catRows
    <2> QED
      BY <2>1, <2>2 DEF C!TypeOK
  <1>8. CASE C!Tick
    BY <1>8, CatTick DEF catRows, C!TypeOK
  <1> QED
    BY <1>1, <1>2, <1>3, <1>4, <1>5, <1>6, <1>7, <1>8, CatSteps

-----------------------------------------------------------------------------
(* The catalogue: the writes and the rows. *)


\* The invariants of the rows, of the tables and the writes they are about.
CatUpdates(u, s) ==
    \/ u.pc = "save stage" /\ u.op = "update stage" /\ u.stage = s
    \/ u.pc \in {"clear", "save pipeline"} /\ u.read # None /\ u.read[s] # None
CatCreates(u, s) == u.pc = "save stage" /\ u.op = "create stage" /\ u.stage = s
CatStages(rows, p) == {s \in Stages : rows[s] # None /\ rows[s].of = p}
CatCrossed(overlaps) ==
    \E o \in overlaps : /\ o \cap {"remove stage", "remove pipeline"} # {}
                        /\ o \cap {"update stage", "update pipeline"} # {}

CatNamed(rows, removed, writer) ==
    /\ \A w \in Requests, s \in Stages : CatUpdates(writer[w], s) => rows[s] # None \/ s \in removed
    /\ \A w \in Requests, s \in Stages : CatCreates(writer[w], s) =>
           /\ s \notin removed /\ rows[s] = None
           /\ \A v \in Requests \ {w} : writer[v].stage # s /\ ~CatUpdates(writer[v], s)
CatGone(rows, removed, overlaps, writer) ==
    CatCrossed(overlaps) \/ \A s \in removed : rows[s] = None /\ \A w \in Requests : ~CatUpdates(writer[w], s)
CatNumbered(rows, writer) ==
    /\ \A s, t \in Stages : s # t /\ rows[s] # None => rows[s] # rows[t]
    /\ \A s \in Stages : rows[s] # None => rows[s].position < C!Cardinality(CatStages(rows, rows[s].of))
    /\ \A w \in Requests, s \in Stages :
           /\ CatCreates(writer[w], s) => writer[w].read.position = C!Cardinality(CatStages(rows, writer[w].of))
           /\ CatUpdates(writer[w], s) =>
                  rows[s] = IF writer[w].pc = "save stage" THEN writer[w].read ELSE writer[w].read[s]

LEMMA CatForms ==
    /\ \A p : C!StagesOf(p) = CatStages(catStage, p)
    /\ C!StagesNamed <=> CatNamed(catStage, catRemoved, catWriter)
    /\ C!StagesNamed' <=> CatNamed(catStage', catRemoved', catWriter')
    /\ C!RemovedAlone <=> CatGone(catStage, catRemoved, catOverlaps, catWriter)
    /\ C!RemovedAlone' <=> CatGone(catStage', catRemoved', catOverlaps', catWriter')
    /\ C!PositionsAlone <=> (catRemoved = {} /\ {"create stage"} \notin catOverlaps => CatNumbered(catStage, catWriter))
    /\ C!PositionsAlone' <=> (catRemoved' = {} /\ {"create stage"} \notin catOverlaps' => CatNumbered(catStage', catWriter'))
  <1>1. \A p : C!StagesOf(p) = CatStages(catStage, p)
    BY DEF C!StagesOf, CatStages
  <1>2. C!StagesNamed <=> CatNamed(catStage, catRemoved, catWriter)
    BY DEF C!StagesNamed, CatNamed, C!Updates, C!Creates, C!Saving, CatUpdates, CatCreates
  <1>3. C!StagesNamed' <=> CatNamed(catStage', catRemoved', catWriter')
    BY DEF C!StagesNamed, CatNamed, C!Updates, C!Creates, C!Saving, CatUpdates, CatCreates
  <1>4. C!RemovedAlone <=> CatGone(catStage, catRemoved, catOverlaps, catWriter)
    BY DEF C!RemovedAlone, C!RemovalCrossed, CatGone, CatCrossed, C!Updates, C!Saving, CatUpdates
  <1>5. C!RemovedAlone' <=> CatGone(catStage', catRemoved', catOverlaps', catWriter')
    BY DEF C!RemovedAlone, C!RemovalCrossed, CatGone, CatCrossed, C!Updates, C!Saving, CatUpdates
  <1>6. C!PositionsAlone <=> (catRemoved = {} /\ {"create stage"} \notin catOverlaps => CatNumbered(catStage, catWriter))
    BY DEF C!PositionsAlone, CatNumbered, C!StagesOf, CatStages, C!Updates, C!Creates, C!Saving, CatUpdates, CatCreates
  <1>7. C!PositionsAlone' <=> (catRemoved' = {} /\ {"create stage"} \notin catOverlaps' => CatNumbered(catStage', catWriter'))
    BY DEF C!PositionsAlone, CatNumbered, C!StagesOf, CatStages, C!Updates, C!Creates, C!Saving, CatUpdates, CatCreates
  <1> QED
    BY <1>1, <1>2, <1>3, <1>4, <1>5, <1>6, <1>7

LEMMA CatNothing ==
    ASSUME NEW u, u.pc \in {"idle", "del"}, NEW s
    PROVE  ~CatUpdates(u, s) /\ ~CatCreates(u, s)
  BY DEF CatUpdates, CatCreates

CatRowsOK == C!WritesOK /\ C!PairsSeen /\ C!DefaultsAlone /\ C!StagesNamed /\ C!RemovedAlone /\ C!PositionsAlone

\* A write that is there was there, unless it begins.
LEMMA CatPairs ==
    ASSUME C!PairsSeen, catOverlaps \subseteq catOverlaps',
           \A w \in Requests : catWriter'[w].pc # "idle" => catWriter[w].pc # "idle" /\ catWriter'[w].op = catWriter[w].op
    PROVE  C!PairsSeen'
  BY DEF C!PairsSeen

\* An update has read a stage, and is named so.
LEMMA CatUpdating ==
    ASSUME C!WritesOK, NEW w \in Requests, NEW s \in Stages, CatUpdates(catWriter[w], s)
    PROVE  catWriter[w].pc # "idle" /\ catWriter[w].op \in {"update stage", "update pipeline"}
  BY DEF C!WritesOK, C!Saving, CatUpdates

\* What C!WritesOK says of each write.
CatWriteOK(u) ==
    /\ u.pc = "idle" => u = C!NotWriting
    /\ u.pc \in {"clear", "save pipeline"} =>
           /\ u.of \in Pipelines
           /\ \/ u.op = "create pipeline" /\ u.read = None
              \/ u.op = "update pipeline" /\ u.read \in C!Stored
    /\ u.pc = "delete pipeline" => u.op = "remove pipeline" /\ u.of \in Pipelines
    /\ u.pc = "save stage" =>
           /\ u.op \in {"create stage", "update stage"}
           /\ u.of \in Pipelines /\ u.stage \in Stages
           /\ u.read \in C!StageRow /\ u.read.of = u.of
    /\ u.pc = "delete stage" => u.op = "remove stage" /\ u.of \in Pipelines /\ u.stage \in Stages

LEMMA CatWritesEach ==
    /\ C!WritesOK <=> \A w \in Requests : CatWriteOK(catWriter[w])
    /\ C!WritesOK' <=> \A w \in Requests : CatWriteOK(catWriter'[w])
  <1>1. C!WritesOK <=> \A w \in Requests : CatWriteOK(catWriter[w])
    BY DEF C!WritesOK, C!Saving, CatWriteOK
  <1>2. C!WritesOK' <=> \A w \in Requests : CatWriteOK(catWriter'[w])
    BY DEF C!WritesOK, C!Saving, CatWriteOK
  <1> QED
    BY <1>1, <1>2

LEMMA CatWriteAside ==
    ASSUME NEW u, u = C!NotWriting \/ u.pc = "del"
    PROVE  CatWriteOK(u)
  BY CatIdle DEF CatWriteOK

LEMMA CatOneWriter ==
    ASSUME C!WritesOK, NEW w \in Requests, \A v \in Requests \ {w} : catWriter'[v] = catWriter[v],
           \/ catWriter'[w] = C!NotWriting \/ catWriter'[w].pc = "del"
    PROVE  C!WritesOK'
  <1>1. CatWriteOK(catWriter'[w])
    BY CatWriteAside
  <1> QED
    BY <1>1, CatWritesEach

\* The positions stay numbered when no row is written.
LEMMA CatNumberedStill ==
    ASSUME CatNumbered(catStage, catWriter), UNCHANGED catStage,
           NEW w \in Requests, \A v \in Requests \ {w} : catWriter'[v] = catWriter[v],
           \A s \in Stages :
               /\ CatCreates(catWriter'[w], s) => catWriter'[w].read.position = C!Cardinality(CatStages(catStage, catWriter'[w].of))
               /\ CatUpdates(catWriter'[w], s) =>
                      catStage[s] = IF catWriter'[w].pc = "save stage" THEN catWriter'[w].read ELSE catWriter'[w].read[s]
    PROVE  CatNumbered(catStage', catWriter')
  <1>1. ASSUME NEW v \in Requests, NEW s \in Stages, CatCreates(catWriter'[v], s)
        PROVE  catWriter'[v].read.position = C!Cardinality(CatStages(catStage, catWriter'[v].of))
    <2>1. CASE v = w
      BY <1>1, <2>1
    <2>2. CASE v # w
      BY <1>1, <2>2 DEF CatNumbered
    <2> QED
      BY <2>1, <2>2
  <1>2. ASSUME NEW v \in Requests, NEW s \in Stages, CatUpdates(catWriter'[v], s)
        PROVE  catStage[s] = IF catWriter'[v].pc = "save stage" THEN catWriter'[v].read ELSE catWriter'[v].read[s]
    <2>1. CASE v = w
      BY <1>2, <2>1
    <2>2. CASE v # w
      <3>1. catWriter'[v] = catWriter[v] /\ CatUpdates(catWriter[v], s)
        BY <1>2, <2>2
      <3>2. catStage[s] = IF catWriter[v].pc = "save stage" THEN catWriter[v].read ELSE catWriter[v].read[s]
        BY <3>1 DEF CatNumbered
      <3> QED
        BY <3>1, <3>2
    <2> QED
      BY <2>1, <2>2
  <1>3. CatNumbered(catStage, catWriter')
    BY <1>1, <1>2 DEF CatNumbered
  <1> QED
    BY <1>3

LEMMA CatLeavesRows ==
    ASSUME C!TypeOK, NEW w \in Requests, CatLeaves(w), catWriter[w].pc # "idle", CatRowsOK
    PROVE  CatRowsOK'
  <1>1. /\ UNCHANGED <<catPipeline, catStage, catRemoved, catOverlaps>>
        /\ catWriter'[w].pc \in {"idle", "del"} /\ \A v \in Requests \ {w} : catWriter'[v] = catWriter[v]
        /\ catWriter'[w].stage \in {None, catWriter[w].stage}
        /\ catWriter'[w].pc # "idle" => catWriter'[w].op = catWriter[w].op
        /\ (catWriter'[w] = C!NotWriting \/ catWriter'[w].pc = "del")
    BY CatIdle DEF CatLeaves
  <1>2. \A v \in Requests, s \in Stages :
           /\ CatUpdates(catWriter'[v], s) => v # w /\ CatUpdates(catWriter[v], s)
           /\ CatCreates(catWriter'[v], s) => v # w /\ CatCreates(catWriter[v], s)
    BY <1>1, CatNothing
  <1>3. C!WritesOK'
    BY <1>1, CatOneWriter DEF CatRowsOK
  <1>4. C!PairsSeen'
    BY <1>1, CatPairs DEF CatRowsOK
  <1>5. C!DefaultsAlone'
    BY <1>1 DEF CatRowsOK, C!DefaultsAlone
  <1>6. CatNamed(catStage', catRemoved', catWriter')
    <2>1. CatNamed(catStage, catRemoved, catWriter)
      BY CatForms DEF CatRowsOK
    <2>2. \A v \in Requests, s \in Stages : catWriter'[v].stage = s => catWriter[v].stage = s
      BY <1>1, CatNone
    <2> QED
      BY <1>1, <1>2, <2>1, <2>2 DEF CatNamed
  <1>7. CatGone(catStage', catRemoved', catOverlaps', catWriter')
    <2>1. CatGone(catStage, catRemoved, catOverlaps, catWriter) /\ catRemoved \subseteq Stages
      BY CatForms DEF CatRowsOK, C!TypeOK
    <2> QED
      BY <1>1, <1>2, <2>1 DEF CatGone
  <1>8. C!PositionsAlone'
    <2>1. SUFFICES ASSUME CatNumbered(catStage, catWriter)
                   PROVE  CatNumbered(catStage', catWriter')
      BY <1>1, CatForms DEF CatRowsOK
    <2> QED
      BY <1>1, <1>2, <2>1, CatNumberedStill
  <1> QED
    BY <1>3, <1>4, <1>5, <1>6, <1>7, <1>8, CatForms DEF CatRowsOK

LEMMA CatBeginsRows ==
    ASSUME C!TypeOK, NEW w \in Requests, NEW req \in C!Writer, C!Read(w, req), CatRequest(req), CatRowsOK
    PROVE  CatRowsOK'
  <1>1. /\ catWriter[w].pc = "idle" /\ catWriter'[w] = req
        /\ \A v \in Requests \ {w} : catWriter'[v] = catWriter[v]
        /\ catOverlaps' = catOverlaps \cup {{req.op, catWriter[v].op} : v \in {v \in Requests : catWriter[v].pc # "idle"}}
        /\ UNCHANGED <<catPipeline, catStage, catRemoved>>
    BY CatBegun
  <1>2. \A s \in Stages : catStage[s] \in C!StageRow \cup {None}
    BY DEF C!TypeOK, C!Stored
  <1>3. ASSUME NEW s \in Stages, CatUpdates(req, s)
        PROVE  /\ catStage[s] # None /\ catStage[s] = IF req.pc = "save stage" THEN req.read ELSE req.read[s]
    <2>1. CASE req.pc = "save stage"
      BY <1>3, <2>1 DEF CatUpdates, CatRequest
    <2>2. CASE req.pc # "save stage"
      <3>1. req.read = C!WithStages(req.of) /\ req.read[s] # None
        BY <1>3, <2>2 DEF CatUpdates, CatRequest
      <3>2. req.read[s] = IF s \in C!StagesOf(req.of) THEN catStage[s] ELSE None
        BY <3>1 DEF C!WithStages
      <3> QED
        BY <2>2, <3>1, <3>2
    <2> QED
      BY <2>1, <2>2
  <1>4. ASSUME NEW s \in Stages, CatCreates(req, s)
        PROVE  /\ s \notin catRemoved /\ catStage[s] = None /\ \A v \in Requests : catWriter[v].stage # s
               /\ req.read = C!Stage(req.of, C!Cardinality(C!StagesOf(req.of)))
    BY <1>4 DEF CatCreates, CatRequest
  <1>5. C!WritesOK'
    <2>1. C!WithStages(req.of) \in C!Stored
      BY DEF C!WithStages, C!StagesOf, C!Stored, C!TypeOK
    <2>2. \A s \in Stages : catStage[s] # None => catStage[s] \in C!StageRow /\ catStage[s].of \in Pipelines
      BY <1>2 DEF C!StageRow
    <2>3. req.op = "create stage" => req.read \in C!StageRow /\ req.read.of = req.of
      <3>1. C!Cardinality(C!StagesOf(req.of)) \in Nat
        BY CatSize
      <3>2. req.op = "create stage" =>
               req.of \in Pipelines /\ req.read = C!Stage(req.of, C!Cardinality(C!StagesOf(req.of)))
        BY DEF CatRequest
      <3>3. \A n \in Nat, p \in Pipelines : C!Stage(p, n) \in C!StageRow /\ C!Stage(p, n).of = p
        BY DEF C!Stage, C!StageRow
      <3> QED
        BY <3>1, <3>2, <3>3
    <2>4. /\ req.pc \in {"clear", "save pipeline"} =>
               /\ req.of \in Pipelines
               /\ \/ req.op = "create pipeline" /\ req.read = None
                  \/ req.op = "update pipeline" /\ req.read \in C!Stored
          /\ req.pc = "delete pipeline" => req.op = "remove pipeline" /\ req.of \in Pipelines
          /\ req.pc = "save stage" =>
               /\ req.op \in {"create stage", "update stage"}
               /\ req.of \in Pipelines /\ req.stage \in Stages
               /\ req.read \in C!StageRow /\ req.read.of = req.of
          /\ req.pc = "delete stage" => req.op = "remove stage" /\ req.of \in Pipelines /\ req.stage \in Stages
          /\ req.pc # "idle"
      BY <2>1, <2>2, <2>3 DEF CatRequest
    <2>5. CatWriteOK(req)
      BY <2>4 DEF CatWriteOK
    <2>6. \A v \in Requests : CatWriteOK(catWriter[v])
      BY CatWritesEach DEF CatRowsOK
    <2> QED
      BY <1>1, <2>5, <2>6, CatWritesEach
  <1>6. C!PairsSeen'
    <2>1. \A v \in Requests : catWriter[v].pc # "idle" => {req.op, catWriter[v].op} \in catOverlaps'
      BY <1>1
    <2>2. catOverlaps \subseteq catOverlaps'
      BY <1>1
    <2>3. ASSUME NEW u \in Requests, NEW v \in Requests, u # v, catWriter'[u].pc # "idle", catWriter'[v].pc # "idle"
          PROVE  {catWriter'[u].op, catWriter'[v].op} \in catOverlaps'
      <3>1. CASE u = w
        BY <1>1, <2>1, <2>3, <3>1
      <3>2. CASE v = w
        <4>1. {catWriter'[v].op, catWriter'[u].op} \in catOverlaps'
          BY <1>1, <2>1, <2>3, <3>2
        <4>2. {catWriter'[u].op, catWriter'[v].op} = {catWriter'[v].op, catWriter'[u].op}
          OBVIOUS
        <4> QED
          BY <4>1, <4>2
      <3>3. CASE u # w /\ v # w
        BY <1>1, <2>2, <2>3, <3>3 DEF CatRowsOK, C!PairsSeen
      <3> QED
        BY <3>1, <3>2, <3>3
    <2> QED
      BY <2>3 DEF C!PairsSeen
  <1>7. C!DefaultsAlone'
    <2>1. req.pc = "save pipeline" /\ req.default => catPipeline[req.of] = "default" /\ req.of \in Pipelines
      BY DEF CatRequest
    <2>2. catOverlaps \subseteq catOverlaps'
      BY <1>1
    <2>3. CASE \E o \in catOverlaps : o \subseteq {"create pipeline", "update pipeline"}
      BY <2>2, <2>3 DEF C!DefaultsAlone
    <2>4. CASE /\ \A p, q \in Pipelines : catPipeline[p] = "default" /\ catPipeline[q] = "default" => p = q
               /\ \A v \in Requests, p \in Pipelines :
                     catWriter[v].pc = "save pipeline" /\ catWriter[v].default /\ catPipeline[p] = "default"
                     => p = catWriter[v].of
      <3>1. ASSUME NEW v \in Requests, NEW p \in Pipelines,
                   catWriter'[v].pc = "save pipeline", catWriter'[v].default, catPipeline[p] = "default"
            PROVE  p = catWriter'[v].of
        <4>1. CASE v = w
          BY <1>1, <2>1, <2>4, <3>1, <4>1
        <4>2. CASE v # w
          BY <1>1, <2>4, <3>1, <4>2
        <4> QED
          BY <4>1, <4>2
      <3> QED
        BY <1>1, <2>4, <3>1 DEF C!DefaultsAlone
    <2> QED
      BY <2>3, <2>4 DEF CatRowsOK, C!DefaultsAlone
  <1>8. CatNamed(catStage', catRemoved', catWriter')
    <2>1. CatNamed(catStage, catRemoved, catWriter)
      BY CatForms DEF CatRowsOK
    <2>2. ASSUME NEW v \in Requests, NEW s \in Stages, CatUpdates(catWriter'[v], s)
          PROVE  catStage[s] # None \/ s \in catRemoved
      BY <1>1, <1>3, <2>1, <2>2 DEF CatNamed
    <2>3. ASSUME NEW v \in Requests, NEW s \in Stages, CatCreates(catWriter'[v], s)
          PROVE  /\ s \notin catRemoved /\ catStage[s] = None
                 /\ \A u \in Requests \ {v} : catWriter'[u].stage # s /\ ~CatUpdates(catWriter'[u], s)
      <3>1. CASE v = w
        <4>1. s \notin catRemoved /\ catStage[s] = None /\ \A u \in Requests : catWriter[u].stage # s
          BY <1>1, <1>4, <2>3, <3>1
        <4>2. \A u \in Requests \ {w} : ~CatUpdates(catWriter[u], s)
          BY <2>1, <4>1 DEF CatNamed
        <4> QED
          BY <1>1, <3>1, <4>1, <4>2
      <3>2. CASE v # w
        <4>1. /\ s \notin catRemoved /\ catStage[s] = None /\ CatCreates(catWriter[v], s)
              /\ \A u \in Requests \ {v} : catWriter[u].stage # s /\ ~CatUpdates(catWriter[u], s)
          BY <1>1, <2>1, <2>3, <3>2 DEF CatNamed
        <4>2. ~CatUpdates(req, s)
          BY <1>3, <4>1
        <4>3. req.stage # s
          BY <4>1, CatNone DEF CatRequest, CatCreates
        <4> QED
          BY <1>1, <4>1, <4>2, <4>3
      <3> QED
        BY <3>1, <3>2
    <2> QED
      BY <1>1, <2>2, <2>3 DEF CatNamed
  <1>9. CatGone(catStage', catRemoved', catOverlaps', catWriter')
    <2>1. CatGone(catStage, catRemoved, catOverlaps, catWriter) /\ catRemoved \subseteq Stages
      BY CatForms DEF CatRowsOK, C!TypeOK
    <2>2. CatCrossed(catOverlaps) => CatCrossed(catOverlaps')
      BY <1>1 DEF CatCrossed
    <2> QED
      BY <1>1, <1>3, <2>1, <2>2 DEF CatGone
  <1>10. C!PositionsAlone'
    <2>1. {"create stage"} \in catOverlaps => {"create stage"} \in catOverlaps'
      BY <1>1
    <2>2. SUFFICES ASSUME CatNumbered(catStage, catWriter)
                   PROVE  CatNumbered(catStage', catWriter')
      BY <1>1, <2>1, CatForms DEF CatRowsOK
    <2>3. ASSUME NEW s \in Stages, CatCreates(req, s)
          PROVE  req.read.position = C!Cardinality(CatStages(catStage, req.of))
      <3>1. req.read = C!Stage(req.of, C!Cardinality(C!StagesOf(req.of)))
        BY <1>4, <2>3
      <3>2. C!StagesOf(req.of) = CatStages(catStage, req.of)
        BY CatForms
      <3>3. req.read.position = C!Cardinality(C!StagesOf(req.of))
        BY <3>1 DEF C!Stage
      <3> QED
        BY <3>2, <3>3
    <2> QED
      BY <1>1, <1>3, <2>2, <2>3, CatNumberedStill
  <1> QED
    BY <1>5, <1>6, <1>7, <1>8, <1>9, <1>10, CatForms DEF CatRowsOK

\* What a write to the tables keeps: the writer is not there any more, or has only keys to
\* delete, and nothing else changes but the rows.
CatEnds(w) ==
    /\ catOverlaps' = catOverlaps /\ catWriter[w].pc # "idle"
    /\ catWriter'[w].pc = "del" /\ catWriter'[w].op = catWriter[w].op /\ catWriter'[w].stage = catWriter[w].stage
    /\ \A v \in Requests \ {w} : catWriter'[v] = catWriter[v]

LEMMA CatEnded ==
    ASSUME NEW w \in Requests, CatEnds(w), CatRowsOK
    PROVE  /\ C!WritesOK' /\ C!PairsSeen'
           /\ \A v \in Requests, s \in Stages :
                 /\ CatUpdates(catWriter'[v], s) => v # w /\ CatUpdates(catWriter[v], s)
                 /\ CatCreates(catWriter'[v], s) => v # w /\ CatCreates(catWriter[v], s)
           /\ \A v \in Requests : catWriter'[v].stage = catWriter[v].stage
  <1>1. C!WritesOK'
    BY CatOneWriter DEF CatRowsOK, CatEnds
  <1>2. C!PairsSeen'
    BY CatPairs DEF CatRowsOK, CatEnds
  <1>3. ASSUME NEW v \in Requests, NEW s \in Stages
        PROVE  /\ CatUpdates(catWriter'[v], s) => v # w /\ CatUpdates(catWriter[v], s)
               /\ CatCreates(catWriter'[v], s) => v # w /\ CatCreates(catWriter[v], s)
    <2>1. CASE v = w
      BY <2>1, CatNothing DEF CatEnds
    <2>2. CASE v # w
      BY <2>2 DEF CatEnds
    <2> QED
      BY <2>1, <2>2
  <1>4. \A v \in Requests : catWriter'[v].stage = catWriter[v].stage
    BY DEF CatEnds
  <1> QED
    BY <1>1, <1>2, <1>3, <1>4

LEMMA CatDefaultsStill ==
    ASSUME NEW w \in Requests, CatEnds(w), CatRowsOK,
           \A p \in Pipelines : catPipeline'[p] = "default" => catPipeline[p] = "default"
    PROVE  C!DefaultsAlone'
  <1>1. CASE \E o \in catOverlaps : o \subseteq {"create pipeline", "update pipeline"}
    BY <1>1 DEF CatEnds, C!DefaultsAlone
  <1>2. CASE /\ \A p, q \in Pipelines : catPipeline[p] = "default" /\ catPipeline[q] = "default" => p = q
             /\ \A v \in Requests, p \in Pipelines :
                   catWriter[v].pc = "save pipeline" /\ catWriter[v].default /\ catPipeline[p] = "default"
                   => p = catWriter[v].of
    <2>1. ASSUME NEW v \in Requests, NEW p \in Pipelines,
                 catWriter'[v].pc = "save pipeline", catWriter'[v].default, catPipeline'[p] = "default"
          PROVE  p = catWriter'[v].of
      <3>1. v # w /\ catWriter'[v] = catWriter[v]
        BY <2>1 DEF CatEnds
      <3> QED
        BY <1>2, <2>1, <3>1
    <2> QED
      BY <1>2, <2>1 DEF C!DefaultsAlone
  <1> QED
    BY <1>1, <1>2 DEF CatRowsOK, C!DefaultsAlone

\* A stage is not created and updated at once.
LEMMA CatNew ==
    ASSUME CatRowsOK, NEW w \in Requests, NEW s \in Stages, CatCreates(catWriter[w], s)
    PROVE  /\ s \notin catRemoved /\ catStage[s] = None
           /\ \A v \in Requests \ {w} : catWriter[v].stage # s /\ ~CatUpdates(catWriter[v], s)
  BY CatForms DEF CatRowsOK, CatNamed

\* Who updates a stage while it is removed has crossed with the removal.
LEMMA CatCrosses ==
    ASSUME CatRowsOK, NEW w \in Requests, NEW v \in Requests \ {w}, NEW s \in Stages,
           catWriter[w].pc # "idle", catWriter[w].op \in {"remove stage", "remove pipeline"},
           CatUpdates(catWriter[v], s)
    PROVE  CatCrossed(catOverlaps)
  <1>1. catWriter[v].pc # "idle" /\ catWriter[v].op \in {"update stage", "update pipeline"}
    BY CatUpdating DEF CatRowsOK
  <1>2. {catWriter[v].op, catWriter[w].op} \in catOverlaps
    BY <1>1 DEF CatRowsOK, C!PairsSeen
  <1>3. catWriter[w].op \in {catWriter[v].op, catWriter[w].op} \cap {"remove stage", "remove pipeline"}
    OBVIOUS
  <1>4. catWriter[v].op \in {catWriter[v].op, catWriter[w].op} \cap {"update stage", "update pipeline"}
    BY <1>1
  <1> QED
    BY <1>2, <1>3, <1>4 DEF CatCrossed

LEMMA CatClearRows ==
    ASSUME C!TypeOK, NEW w \in Requests, C!ClearDefault(w), CatRowsOK
    PROVE  CatRowsOK'
  <1>1. /\ catWriter[w].pc = "clear" /\ catWriter'[w].pc = "save pipeline"
        /\ \A v \in Requests \ {w} : catWriter'[v] = catWriter[v]
        /\ catWriter'[w].op = catWriter[w].op /\ catWriter'[w].of = catWriter[w].of
        /\ catWriter'[w].stage = catWriter[w].stage /\ catWriter'[w].read = catWriter[w].read
        /\ \A p \in Pipelines : catPipeline'[p] # "default"
        /\ UNCHANGED <<catStage, catRemoved, catOverlaps>>
    BY CatCleared DEF CatRowsOK
  <1>2. ASSUME NEW v \in Requests, NEW s \in Stages
        PROVE  /\ CatUpdates(catWriter'[v], s) <=> CatUpdates(catWriter[v], s)
               /\ CatCreates(catWriter'[v], s) <=> CatCreates(catWriter[v], s)
               /\ catWriter'[v].stage = catWriter[v].stage
    <2>1. CASE v = w
      BY <1>1, <2>1 DEF CatUpdates, CatCreates
    <2>2. CASE v # w
      BY <1>1, <2>2
    <2> QED
      BY <2>1, <2>2
  <1>3. C!WritesOK'
    <2>1. \A v \in Requests : CatWriteOK(catWriter[v])
      BY CatWritesEach DEF CatRowsOK
    <2>2. CatWriteOK(catWriter'[w])
      <3>1. CatWriteOK(catWriter[w])
        BY <2>1
      <3> QED
        BY <1>1, <3>1 DEF CatWriteOK
    <2> QED
      BY <1>1, <2>1, <2>2, CatWritesEach
  <1>4. C!PairsSeen'
    BY <1>1, CatPairs DEF CatRowsOK
  <1>5. C!DefaultsAlone'
    BY <1>1 DEF C!DefaultsAlone
  <1>6. CatNamed(catStage', catRemoved', catWriter')
    <2>1. CatNamed(catStage, catRemoved, catWriter)
      BY CatForms DEF CatRowsOK
    <2>2. ASSUME NEW v \in Requests, NEW s \in Stages, CatCreates(catWriter'[v], s)
          PROVE  /\ s \notin catRemoved /\ catStage[s] = None
                 /\ \A u \in Requests \ {v} : catWriter'[u].stage # s /\ ~CatUpdates(catWriter'[u], s)
      <3>1. /\ s \notin catRemoved /\ catStage[s] = None
            /\ \A u \in Requests \ {v} : catWriter[u].stage # s /\ ~CatUpdates(catWriter[u], s)
        BY <1>2, <2>1, <2>2 DEF CatNamed
      <3> QED
        BY <1>2, <3>1
    <2> QED
      BY <1>1, <1>2, <2>1, <2>2 DEF CatNamed
  <1>7. CatGone(catStage', catRemoved', catOverlaps', catWriter')
    <2>1. CatGone(catStage, catRemoved, catOverlaps, catWriter) /\ catRemoved \subseteq Stages
      BY CatForms DEF CatRowsOK, C!TypeOK
    <2> QED
      BY <1>1, <1>2, <2>1 DEF CatGone
  <1>8. C!PositionsAlone'
    <2>1. SUFFICES ASSUME CatNumbered(catStage, catWriter)
                   PROVE  CatNumbered(catStage', catWriter')
      BY <1>1, CatForms DEF CatRowsOK
    <2>2. ASSUME NEW s \in Stages
          PROVE  /\ ~CatCreates(catWriter'[w], s)
                 /\ CatUpdates(catWriter'[w], s) => catStage[s] = catWriter'[w].read[s]
      <3>1. ~CatCreates(catWriter'[w], s)
        BY <1>1 DEF CatCreates
      <3>2. ASSUME CatUpdates(catWriter'[w], s)
            PROVE  catStage[s] = catWriter'[w].read[s]
        <4>1. CatUpdates(catWriter[w], s)
          BY <1>2, <3>2
        <4>2. catStage[s] = IF catWriter[w].pc = "save stage" THEN catWriter[w].read ELSE catWriter[w].read[s]
          BY <2>1, <4>1 DEF CatNumbered
        <4> QED
          BY <1>1, <4>2
      <3> QED
        BY <3>1, <3>2
    <2> QED
      BY <1>1, <2>1, <2>2, CatNumberedStill
  <1> QED
    BY <1>3, <1>4, <1>5, <1>6, <1>7, <1>8, CatForms DEF CatRowsOK

LEMMA CatSavePipelineRows ==
    ASSUME C!TypeOK, NEW w \in Requests, C!SavePipeline(w), CatRowsOK
    PROVE  CatRowsOK'
  <1>1. /\ catWriter[w].pc = "save pipeline" /\ catWriter[w].of \in Pipelines
        /\ UNCHANGED <<catRemoved, catOverlaps>>
        /\ \/ /\ catWriter' = [catWriter EXCEPT ![w] = C!NotWriting]
              /\ UNCHANGED <<catPipeline, catStage>>
           \/ /\ catPipeline' = [catPipeline EXCEPT ![catWriter[w].of] =
                                    IF catWriter[w].default THEN "default" ELSE "plain"]
              /\ catStage' = [s \in Stages |-> IF s \in CatGiven(w) THEN catWriter[w].read[s] ELSE catStage[s]]
              /\ CatEnds(w)
    <2>1. ASSUME NEW changed \in SUBSET C!Keys, C!Saved(w, changed, {"pipelines"}), catWriter[w].pc # "idle",
                 catOverlaps' = catOverlaps
          PROVE  CatEnds(w)
      <3>1. \E dels \in SUBSET C!Keys : C!Saved(w, changed, dels)
        BY <2>1, "pipelines" \in C!Keys DEF C!Keys
      <3>2. PICK dels \in SUBSET C!Keys : C!Saved(w, changed, dels)
        BY <3>1
      <3> QED
        BY <2>1, <3>2, CatSaved DEF CatEnds
    <2> QED
      BY <2>1, CatPipelineSaved DEF CatRowsOK
  <1>2. CASE catWriter' = [catWriter EXCEPT ![w] = C!NotWriting] /\ UNCHANGED <<catPipeline, catStage>>
    BY <1>1, <1>2, CatDropped, CatLeavesRows DEF CatLeaves
  <1>3. CASE /\ catPipeline' = [catPipeline EXCEPT ![catWriter[w].of] =
                                   IF catWriter[w].default THEN "default" ELSE "plain"]
             /\ catStage' = [s \in Stages |-> IF s \in CatGiven(w) THEN catWriter[w].read[s] ELSE catStage[s]]
             /\ CatEnds(w)
    <2>1. \A s \in Stages : s \in CatGiven(w) <=> CatUpdates(catWriter[w], s)
      BY <1>1 DEF CatGiven, CatUpdates
    <2>2. \A s \in Stages : /\ CatUpdates(catWriter[w], s) => catStage'[s] # None /\ catStage'[s] = catWriter[w].read[s]
                            /\ ~CatUpdates(catWriter[w], s) => catStage'[s] = catStage[s]
      BY <1>1, <1>3, <2>1 DEF CatUpdates
    <2>3. C!DefaultsAlone'
      <3>1. CASE ~catWriter[w].default
        BY <1>3, <3>1, CatDefaultsStill DEF C!TypeOK
      <3>2. CASE catWriter[w].default
        <4>1. SUFFICES ASSUME ~\E o \in catOverlaps : o \subseteq {"create pipeline", "update pipeline"}
                       PROVE  C!DefaultsAlone'
          BY <1>1 DEF C!DefaultsAlone
        <4>2. \A q \in Pipelines : catPipeline'[q] = "default" => q = catWriter[w].of
          BY <1>1, <1>3, <3>2, <4>1 DEF CatRowsOK, C!DefaultsAlone, C!TypeOK
        <4>3. ASSUME NEW v \in Requests, catWriter'[v].pc = "save pipeline"
              PROVE  FALSE
          <5>1. v # w /\ catWriter[v].pc = "save pipeline"
            BY <1>3, <4>3 DEF CatEnds
          <5>2. {catWriter[v].op, catWriter[w].op} \in catOverlaps
            BY <1>1, <5>1 DEF CatRowsOK, C!PairsSeen
          <5>3. {catWriter[v].op, catWriter[w].op} \subseteq {"create pipeline", "update pipeline"}
            BY <1>1, <5>1 DEF CatRowsOK, C!WritesOK, C!Saving
          <5> QED
            BY <4>1, <5>2, <5>3
        <4> QED
          BY <4>2, <4>3 DEF C!DefaultsAlone
      <3> QED
        BY <3>1, <3>2
    <2>4. CatNamed(catStage', catRemoved', catWriter')
      <3>1. CatNamed(catStage, catRemoved, catWriter)
        BY CatForms DEF CatRowsOK
      <3>2. ASSUME NEW v \in Requests, NEW s \in Stages, CatUpdates(catWriter'[v], s)
            PROVE  catStage'[s] # None \/ s \in catRemoved'
        BY <1>1, <1>3, <2>2, <3>1, <3>2, CatEnded DEF CatNamed
      <3>3. ASSUME NEW v \in Requests, NEW s \in Stages, CatCreates(catWriter'[v], s)
            PROVE  /\ s \notin catRemoved' /\ catStage'[s] = None
                   /\ \A u \in Requests \ {v} : catWriter'[u].stage # s /\ ~CatUpdates(catWriter'[u], s)
        <4>1. v # w /\ CatCreates(catWriter[v], s)
          BY <1>3, <3>3, CatEnded
        <4>2. /\ s \notin catRemoved /\ catStage[s] = None
              /\ \A u \in Requests \ {v} : catWriter[u].stage # s /\ ~CatUpdates(catWriter[u], s)
          BY <4>1, CatNew
        <4> QED
          BY <1>1, <1>3, <2>2, <4>1, <4>2, CatEnded
      <3> QED
        BY <3>2, <3>3 DEF CatNamed
    <2>5. CatGone(catStage', catRemoved', catOverlaps', catWriter')
      <3>1. CatGone(catStage, catRemoved, catOverlaps, catWriter) /\ catRemoved \subseteq Stages
        BY CatForms DEF CatRowsOK, C!TypeOK
      <3> QED
        BY <1>1, <1>3, <2>2, <3>1, CatEnded DEF CatGone
    <2>6. C!PositionsAlone'
      <3>1. SUFFICES ASSUME CatNumbered(catStage, catWriter)
                     PROVE  CatNumbered(catStage', catWriter')
        BY <1>1, CatForms DEF CatRowsOK
      <3>2. \A s \in Stages : catStage'[s] = catStage[s]
        BY <1>1, <2>2, <3>1 DEF CatNumbered
      <3>3. catStage' = catStage
        BY <1>3, <3>2 DEF C!TypeOK, C!Stored
      <3> QED
        BY <1>3, <3>1, <3>3, CatEnded, CatNumberedStill DEF CatEnds
    <2> QED
      BY <1>3, <2>3, <2>4, <2>5, <2>6, CatEnded, CatForms DEF CatRowsOK
  <1> QED
    BY <1>1, <1>2, <1>3

LEMMA CatDeletePipelineRows ==
    ASSUME C!TypeOK, NEW w \in Requests, C!DeletePipeline(w), CatRowsOK
    PROVE  CatRowsOK'
  <1> DEFINE gone == C!StagesOf(catWriter[w].of)
  <1>1. /\ catWriter[w].pc = "delete pipeline" /\ catWriter[w].op = "remove pipeline" /\ catOverlaps' = catOverlaps
        /\ catPipeline' = [catPipeline EXCEPT ![catWriter[w].of] = "none"]
        /\ catStage' = [s \in Stages |-> IF s \in gone THEN None ELSE catStage[s]]
        /\ catRemoved' = catRemoved \cup gone /\ CatEnds(w)
    <2>1. ASSUME NEW changed \in SUBSET C!Keys, C!Saved(w, changed, {"pipelines"}), catWriter[w].pc # "idle",
                 catOverlaps' = catOverlaps
          PROVE  CatEnds(w)
      <3>1. \E dels \in SUBSET C!Keys : C!Saved(w, changed, dels)
        BY <2>1, "pipelines" \in C!Keys DEF C!Keys
      <3>2. PICK dels \in SUBSET C!Keys : C!Saved(w, changed, dels)
        BY <3>1
      <3> QED
        BY <2>1, <3>2, CatSaved DEF CatEnds
    <2> QED
      BY <2>1, CatPipelineDeleted DEF CatRowsOK
  <1>2. \A s \in gone : s \in Stages /\ catStage[s] # None
    BY DEF C!StagesOf
  <1>3. C!DefaultsAlone'
    BY <1>1, CatDefaultsStill DEF C!TypeOK
  <1> HIDE DEF gone
  <1>4. CatNamed(catStage', catRemoved', catWriter')
    <2>1. CatNamed(catStage, catRemoved, catWriter)
      BY CatForms DEF CatRowsOK
    <2>2. ASSUME NEW v \in Requests, NEW s \in Stages, CatUpdates(catWriter'[v], s)
          PROVE  catStage'[s] # None \/ s \in catRemoved'
      BY <1>1, <2>1, <2>2, CatEnded DEF CatNamed
    <2>3. ASSUME NEW v \in Requests, NEW s \in Stages, CatCreates(catWriter'[v], s)
          PROVE  /\ s \notin catRemoved' /\ catStage'[s] = None
                 /\ \A u \in Requests \ {v} : catWriter'[u].stage # s /\ ~CatUpdates(catWriter'[u], s)
      <3>1. CatCreates(catWriter[v], s)
        BY <1>1, <2>3, CatEnded
      <3>2. /\ s \notin catRemoved /\ catStage[s] = None
            /\ \A u \in Requests \ {v} : catWriter[u].stage # s /\ ~CatUpdates(catWriter[u], s)
        BY <3>1, CatNew
      <3>3. \A u \in Requests \ {v} : catWriter'[u].stage # s /\ ~CatUpdates(catWriter'[u], s)
        BY <1>1, <3>2, CatEnded
      <3> QED
        BY <1>1, <1>2, <3>2, <3>3
    <2> QED
      BY <2>2, <2>3 DEF CatNamed
  <1>5. CatGone(catStage', catRemoved', catOverlaps', catWriter')
    <2>1. CatGone(catStage, catRemoved, catOverlaps, catWriter) /\ catRemoved \subseteq Stages
      BY CatForms DEF CatRowsOK, C!TypeOK
    <2>2. CASE CatCrossed(catOverlaps)
      BY <1>1, <2>2 DEF CatGone
    <2>3. CASE ~CatCrossed(catOverlaps)
      <3>1. ASSUME NEW s \in catRemoved', NEW v \in Requests
            PROVE  catStage'[s] = None /\ ~CatUpdates(catWriter'[v], s)
        <4>1. CASE s \in catRemoved
          BY <1>1, <2>1, <2>3, <4>1, CatEnded DEF CatGone
        <4>2. CASE s \in gone
          <5>1. catStage'[s] = None
            BY <1>1, <1>2, <4>2
          <5>2. ASSUME CatUpdates(catWriter'[v], s)
                PROVE  FALSE
            <6>1. v # w /\ CatUpdates(catWriter[v], s)
              BY <1>1, <1>2, <4>2, <5>2, CatEnded
            <6> QED
              BY <1>1, <1>2, <2>3, <4>2, <6>1, CatCrosses
          <5> QED
            BY <5>1, <5>2
        <4> QED
          BY <1>1, <3>1, <4>1, <4>2
      <3> QED
        BY <3>1 DEF CatGone
    <2> QED
      BY <2>2, <2>3
  <1>6. C!PositionsAlone'
    <2>1. SUFFICES ASSUME catRemoved' = {}, CatNumbered(catStage, catWriter)
                   PROVE  CatNumbered(catStage', catWriter')
      BY <1>1, CatForms DEF CatRowsOK
    <2>2. catStage' = catStage
      BY <1>1, <2>1 DEF C!TypeOK, C!Stored
    <2> QED
      BY <1>1, <2>1, <2>2, CatEnded, CatNumberedStill DEF CatEnds
  <1> QED
    BY <1>1, <1>3, <1>4, <1>5, <1>6, CatEnded, CatForms DEF CatRowsOK

LEMMA CatDeleteStageRows ==
    ASSUME C!TypeOK, NEW w \in Requests, C!DeleteStage(w), CatRowsOK
    PROVE  CatRowsOK'
  <1> DEFINE t == catWriter[w].stage
  <1>1. /\ catWriter[w].pc = "delete stage" /\ catWriter[w].op = "remove stage" /\ catOverlaps' = catOverlaps
        /\ t \in Stages /\ catPipeline' = catPipeline
        /\ catStage' = [catStage EXCEPT ![t] = None]
        /\ catRemoved' = catRemoved \cup {t} /\ CatEnds(w)
    <2>1. ASSUME NEW changed \in SUBSET C!Keys, NEW dels \in SUBSET C!Keys, C!Saved(w, changed, dels),
                 catWriter[w].pc # "idle", catOverlaps' = catOverlaps
          PROVE  CatEnds(w)
      BY <2>1, CatSaved DEF CatEnds
    <2> QED
      BY <2>1, CatStageDeleted DEF CatRowsOK
  <1>2. catStage'[t] = None /\ \A s \in Stages \ {t} : catStage'[s] = catStage[s]
    BY <1>1 DEF C!TypeOK, C!Stored
  <1>3. C!DefaultsAlone'
    BY <1>1, CatDefaultsStill
  <1> HIDE DEF t
  <1>4. CatNamed(catStage', catRemoved', catWriter')
    <2>1. CatNamed(catStage, catRemoved, catWriter)
      BY CatForms DEF CatRowsOK
    <2>2. ASSUME NEW v \in Requests, NEW s \in Stages, CatUpdates(catWriter'[v], s)
          PROVE  catStage'[s] # None \/ s \in catRemoved'
      BY <1>1, <1>2, <2>1, <2>2, CatEnded DEF CatNamed
    <2>3. ASSUME NEW v \in Requests, NEW s \in Stages, CatCreates(catWriter'[v], s)
          PROVE  /\ s \notin catRemoved' /\ catStage'[s] = None
                 /\ \A u \in Requests \ {v} : catWriter'[u].stage # s /\ ~CatUpdates(catWriter'[u], s)
      <3>1. v # w /\ CatCreates(catWriter[v], s)
        BY <1>1, <2>3, CatEnded
      <3>2. /\ s \notin catRemoved /\ catStage[s] = None
            /\ \A u \in Requests \ {v} : catWriter[u].stage # s /\ ~CatUpdates(catWriter[u], s)
        BY <3>1, CatNew
      <3>3. \A u \in Requests \ {v} : catWriter'[u].stage # s /\ ~CatUpdates(catWriter'[u], s)
        BY <1>1, <3>2, CatEnded
      <3>4. s # t
        BY <3>1, <3>2 DEF t
      <3> QED
        BY <1>1, <1>2, <3>2, <3>3, <3>4
    <2> QED
      BY <2>2, <2>3 DEF CatNamed
  <1>5. CatGone(catStage', catRemoved', catOverlaps', catWriter')
    <2>1. CatGone(catStage, catRemoved, catOverlaps, catWriter) /\ catRemoved \subseteq Stages
      BY CatForms DEF CatRowsOK, C!TypeOK
    <2>2. CASE CatCrossed(catOverlaps)
      BY <1>1, <2>2 DEF CatGone
    <2>3. CASE ~CatCrossed(catOverlaps)
      <3>1. ASSUME NEW s \in catRemoved', NEW v \in Requests
            PROVE  catStage'[s] = None /\ ~CatUpdates(catWriter'[v], s)
        <4>0. s \in Stages
          BY <1>1, <2>1, <3>1
        <4>1. CASE s \in catRemoved
          BY <1>1, <1>2, <2>1, <2>3, <4>0, <4>1, CatEnded DEF CatGone
        <4>2. CASE s = t
          <5>1. ASSUME CatUpdates(catWriter'[v], s)
                PROVE  FALSE
            <6>1. v # w /\ CatUpdates(catWriter[v], s)
              BY <1>1, <4>0, <5>1, CatEnded
            <6> QED
              BY <1>1, <2>3, <4>0, <6>1, CatCrosses
          <5> QED
            BY <1>2, <4>2, <5>1
        <4> QED
          BY <1>1, <3>1, <4>1, <4>2
      <3> QED
        BY <3>1 DEF CatGone
    <2> QED
      BY <2>2, <2>3
  <1>6. C!PositionsAlone'
    BY <1>1, CatForms
  <1> QED
    BY <1>1, <1>3, <1>4, <1>5, <1>6, CatEnded, CatForms DEF CatRowsOK

\* A stage that is created comes after the others.
LEMMA CatAdded ==
    ASSUME C!TypeOK, CatNumbered(catStage, catWriter), NEW t \in Stages, catStage[t] = None,
           NEW row \in C!StageRow, row.position = C!Cardinality(CatStages(catStage, row.of)),
           catStage' = [catStage EXCEPT ![t] = row]
    PROVE  /\ \A s, u \in Stages : s # u /\ catStage'[s] # None => catStage'[s] # catStage'[u]
           /\ \A s \in Stages : catStage'[s] # None => catStage'[s].position < C!Cardinality(CatStages(catStage', catStage'[s].of))
  <1>1. catStage'[t] = row /\ row # None /\ \A s \in Stages \ {t} : catStage'[s] = catStage[s]
    BY CatNone DEF C!TypeOK, C!Stored
  <1>2. \A s \in Stages : catStage[s] # None => catStage[s] \in C!StageRow /\ catStage[s].position \in Nat
    BY DEF C!TypeOK, C!Stored, C!StageRow
  <1>3. \A p : CatStages(catStage', p) = IF p = row.of THEN CatStages(catStage, p) \cup {t} ELSE CatStages(catStage, p)
    BY <1>1 DEF CatStages
  <1>4. \A p : /\ C!Cardinality(CatStages(catStage, p)) \in Nat
               /\ p # row.of => C!Cardinality(CatStages(catStage', p)) = C!Cardinality(CatStages(catStage, p))
               /\ p = row.of => C!Cardinality(CatStages(catStage', p)) = C!Cardinality(CatStages(catStage, p)) + 1
    <2>1. ASSUME NEW p
          PROVE  /\ IsFiniteSet(CatStages(catStage, p)) /\ Cardinality(CatStages(catStage, p)) \in Nat
                 /\ C!Cardinality(CatStages(catStage, p)) = Cardinality(CatStages(catStage, p))
      BY CatSize, CatForms
    <2>2. \A T : C!Cardinality(T) = Cardinality(T)
      BY DEF C!Cardinality, Cardinality
    <2>3. \A p : t \notin CatStages(catStage, p)
      BY DEF CatStages
    <2>4. \A p : Cardinality(CatStages(catStage, p) \cup {t}) = Cardinality(CatStages(catStage, p)) + 1
      BY <2>1, <2>3, FS_AddElement
    <2> QED
      BY <1>3, <2>1, <2>2, <2>4
  <1>5. ASSUME NEW s \in Stages, catStage'[s] # None
        PROVE  catStage'[s].position < C!Cardinality(CatStages(catStage', catStage'[s].of))
    <2>1. CASE s = t
      <3>1. catStage'[s].of = row.of /\ catStage'[s].position = C!Cardinality(CatStages(catStage, row.of))
        BY <1>1, <2>1
      <3>2. C!Cardinality(CatStages(catStage', row.of)) = C!Cardinality(CatStages(catStage, row.of)) + 1
            /\ C!Cardinality(CatStages(catStage, row.of)) \in Nat
        BY <1>4
      <3> QED
        BY <3>1, <3>2
    <2>2. CASE s # t
      <3>1. catStage'[s] = catStage[s] /\ catStage[s].position \in Nat
            /\ catStage[s].position < C!Cardinality(CatStages(catStage, catStage[s].of))
        BY <1>1, <1>2, <1>5, <2>2 DEF CatNumbered
      <3> DEFINE p == catStage[s].of
      <3>2. C!Cardinality(CatStages(catStage', p)) \in {C!Cardinality(CatStages(catStage, p)), C!Cardinality(CatStages(catStage, p)) + 1}
            /\ C!Cardinality(CatStages(catStage, p)) \in Nat
        BY <1>4
      <3> QED
        BY <3>1, <3>2
    <2> QED
      BY <2>1, <2>2
  <1>6. ASSUME NEW s \in Stages \ {t}, catStage[s] # None
        PROVE  catStage[s] # row
    <2>1. catStage[s].position < C!Cardinality(CatStages(catStage, catStage[s].of)) /\ catStage[s].position \in Nat
      BY <1>2, <1>6 DEF CatNumbered
    <2> QED
      BY <2>1
  <1>7. ASSUME NEW s \in Stages, NEW u \in Stages, s # u, catStage'[s] # None
        PROVE  catStage'[s] # catStage'[u]
    <2>1. CASE s = t
      BY <1>1, <1>6, <1>7, <2>1
    <2>2. CASE u = t
      BY <1>1, <1>6, <1>7, <2>2
    <2>3. CASE s # t /\ u # t
      <3>1. catStage[s] # None /\ catStage'[s] = catStage[s] /\ catStage'[u] = catStage[u]
        BY <1>1, <1>7, <2>3
      <3>2. \A x, y \in Stages : x # y /\ catStage[x] # None => catStage[x] # catStage[y]
        BY DEF CatNumbered
      <3> QED
        BY <1>7, <3>1, <3>2
    <2> QED
      BY <2>1, <2>2, <2>3
  <1> QED
    BY <1>5, <1>7

LEMMA CatSaveStageRows ==
    ASSUME C!TypeOK, NEW w \in Requests, C!SaveStage(w), CatRowsOK
    PROVE  CatRowsOK'
  <1> DEFINE t == catWriter[w].stage
             row == catWriter[w].read
  <1>1. /\ catWriter[w].pc = "save stage" /\ t \in Stages /\ row \in C!StageRow
        /\ catWriter[w].op \in {"create stage", "update stage"} /\ row.of = catWriter[w].of
        /\ UNCHANGED <<catPipeline, catRemoved, catOverlaps>>
        /\ \/ catWriter' = [catWriter EXCEPT ![w] = C!NotWriting] /\ UNCHANGED catStage
           \/ catStage' = [catStage EXCEPT ![t] = row] /\ CatEnds(w)
    <2>1. ASSUME NEW changed \in SUBSET C!Keys, C!Saved(w, changed, changed),
                 catWriter[w].pc # "idle", catOverlaps' = catOverlaps
          PROVE  CatEnds(w)
      BY <2>1, CatSaved DEF CatEnds
    <2> QED
      BY <2>1, CatStageSaved DEF CatRowsOK
  <1>2. CASE catWriter' = [catWriter EXCEPT ![w] = C!NotWriting] /\ UNCHANGED catStage
    BY <1>1, <1>2, CatDropped, CatLeavesRows DEF CatLeaves
  <1>3. CASE catStage' = [catStage EXCEPT ![t] = row] /\ CatEnds(w)
    <2>1. /\ catStage'[t] = row /\ row # None /\ \A s \in Stages \ {t} : catStage'[s] = catStage[s]
          /\ (catStage[t] = row => catStage' = catStage)
      BY <1>1, <1>3, CatNone DEF C!TypeOK, C!Stored
    <2>2. CatUpdates(catWriter[w], t) \/ CatCreates(catWriter[w], t)
      BY <1>1 DEF CatUpdates, CatCreates
    <2>3. C!DefaultsAlone'
      BY <1>1, <1>3, CatDefaultsStill
    <2> HIDE DEF t, row
    <2>4. CatNamed(catStage', catRemoved', catWriter')
      <3>1. CatNamed(catStage, catRemoved, catWriter)
        BY CatForms DEF CatRowsOK
      <3>2. ASSUME NEW v \in Requests, NEW s \in Stages, CatUpdates(catWriter'[v], s)
            PROVE  catStage'[s] # None \/ s \in catRemoved'
        BY <1>1, <1>3, <2>1, <3>1, <3>2, CatEnded DEF CatNamed
      <3>3. ASSUME NEW v \in Requests, NEW s \in Stages, CatCreates(catWriter'[v], s)
            PROVE  /\ s \notin catRemoved' /\ catStage'[s] = None
                   /\ \A u \in Requests \ {v} : catWriter'[u].stage # s /\ ~CatUpdates(catWriter'[u], s)
        <4>1. v # w /\ CatCreates(catWriter[v], s)
          BY <1>3, <3>3, CatEnded
        <4>2. /\ s \notin catRemoved /\ catStage[s] = None
              /\ \A u \in Requests \ {v} : catWriter[u].stage # s /\ ~CatUpdates(catWriter[u], s)
          BY <4>1, CatNew
        <4>3. \A u \in Requests \ {v} : catWriter'[u].stage # s /\ ~CatUpdates(catWriter'[u], s)
          BY <1>3, <4>2, CatEnded
        <4>4. s # t
          BY <4>1, <4>2 DEF t
        <4> QED
          BY <1>1, <2>1, <4>2, <4>3, <4>4
      <3> QED
        BY <3>2, <3>3 DEF CatNamed
    <2>5. CatGone(catStage', catRemoved', catOverlaps', catWriter')
      <3>1. CatGone(catStage, catRemoved, catOverlaps, catWriter) /\ catRemoved \subseteq Stages
        BY CatForms DEF CatRowsOK, C!TypeOK
      <3>2. CASE CatCrossed(catOverlaps)
        BY <1>1, <3>2 DEF CatGone
      <3>3. CASE ~CatCrossed(catOverlaps)
        <4>1. t \notin catRemoved
          BY <2>2, <3>1, <3>3, CatNew DEF CatGone
        <4> QED
          BY <1>1, <1>3, <2>1, <3>1, <3>3, <4>1, CatEnded DEF CatGone
      <3> QED
        BY <3>2, <3>3
    <2>6. C!PositionsAlone'
      <3>1. SUFFICES ASSUME CatNumbered(catStage, catWriter), {"create stage"} \notin catOverlaps
                     PROVE  CatNumbered(catStage', catWriter')
        BY <1>1, CatForms DEF CatRowsOK
      <3>2. CASE CatUpdates(catWriter[w], t)
        <4>1. catStage' = catStage
          BY <1>1, <2>1, <3>1, <3>2 DEF CatNumbered, row
        <4> QED
          BY <1>3, <3>1, <4>1, CatEnded, CatNumberedStill DEF CatEnds
      <3>3. CASE CatCreates(catWriter[w], t)
        <4>1. /\ \A s, u \in Stages : s # u /\ catStage'[s] # None => catStage'[s] # catStage'[u]
              /\ \A s \in Stages : catStage'[s] # None => catStage'[s].position < C!Cardinality(CatStages(catStage', catStage'[s].of))
          <5>1. catStage[t] = None
            BY <1>1, <3>3, CatNew
          <5>2. row.position = C!Cardinality(CatStages(catStage, row.of))
            BY <1>1, <3>1, <3>3 DEF CatNumbered, row
          <5> QED
            BY <1>1, <1>3, <3>1, <5>1, <5>2, CatAdded
        <4>2. ASSUME NEW v \in Requests, NEW s \in Stages, CatCreates(catWriter'[v], s)
              PROVE  FALSE
          <5>1. v # w /\ CatCreates(catWriter[v], s)
            BY <1>3, <4>2, CatEnded
          <5>2. {catWriter[v].op, catWriter[w].op} \in catOverlaps
            BY <1>1, <5>1 DEF CatRowsOK, C!PairsSeen, CatCreates
          <5>3. {catWriter[v].op, catWriter[w].op} = {"create stage"}
            BY <3>3, <5>1 DEF CatCreates
          <5> QED
            BY <3>1, <5>2, <5>3
        <4>3. ASSUME NEW v \in Requests, NEW s \in Stages, CatUpdates(catWriter'[v], s)
              PROVE  catStage'[s] = IF catWriter'[v].pc = "save stage" THEN catWriter'[v].read ELSE catWriter'[v].read[s]
          <5>1. v # w /\ CatUpdates(catWriter[v], s) /\ catWriter'[v] = catWriter[v]
            BY <1>3, <4>3, CatEnded DEF CatEnds
          <5>2. s # t
            BY <1>1, <3>3, <5>1, CatNew
          <5>3. catStage[s] = IF catWriter[v].pc = "save stage" THEN catWriter[v].read ELSE catWriter[v].read[s]
            BY <3>1, <5>1 DEF CatNumbered
          <5> QED
            BY <2>1, <5>1, <5>2, <5>3
        <4> QED
          BY <4>1, <4>2, <4>3 DEF CatNumbered
      <3> QED
        BY <2>2, <3>2, <3>3
    <2> QED
      BY <1>3, <2>3, <2>4, <2>5, <2>6, CatEnded, CatForms DEF CatRowsOK
  <1> QED
    BY <1>1, <1>2, <1>3

LEMMA CatSameRows ==
    ASSUME CatRowsOK, UNCHANGED <<catPipeline, catStage, catRemoved, catOverlaps, catWriter>>
    PROVE  CatRowsOK'
  <1>1. C!WritesOK' /\ C!PairsSeen' /\ C!DefaultsAlone'
    BY DEF CatRowsOK, C!WritesOK, C!PairsSeen, C!DefaultsAlone, C!Saving
  <1> QED
    BY <1>1, CatForms DEF CatRowsOK

LEMMA CatRowsStep ==
    ASSUME C!TypeOK, C!Next, CatRowsOK
    PROVE  CatRowsOK'
  <1>1. ASSUME NEW w \in Requests, CatBegins(w)
        PROVE  CatRowsOK'
    BY <1>1, CatBegin, CatBeginsRows
  <1>2. ASSUME NEW w \in Requests, CatWrites(w)
        PROVE  CatRowsOK'
    BY <1>2, CatClearRows, CatSavePipelineRows, CatDeletePipelineRows, CatSaveStageRows, CatDeleteStageRows DEF CatWrites
  <1>3. ASSUME NEW w \in Requests, C!Fails(w)
        PROVE  CatRowsOK'
    <2>1. catWriter[w].pc # "idle"
      BY <1>3 DEF C!Fails
    <2> QED
      BY <1>3, <2>1, CatFails, CatLeavesRows
  <1>4. ASSUME NEW w \in Requests, NEW k \in C!Keys, NEW fails \in BOOLEAN, C!Del(w, k, fails)
        PROVE  CatRowsOK'
    <2>1. catWriter[w].pc # "idle" /\ CatLeaves(w)
      BY <1>4, CatDeleted
    <2> QED
      BY <2>1, CatLeavesRows
  <1>5. ASSUME UNCHANGED catRows
        PROVE  CatRowsOK'
    BY <1>5, CatSameRows DEF catRows
  <1>6. ASSUME NEW q \in Readers, C!Fetch(q)
        PROVE  CatRowsOK'
    BY <1>5, <1>6, CatFetched
  <1>7. ASSUME NEW q \in Readers, NEW fails \in BOOLEAN, C!Set(q, fails)
        PROVE  CatRowsOK'
    BY <1>5, <1>7, CatSet
  <1>8. ASSUME NEW q \in Readers, NEW k \in C!Keys, NEW fails \in BOOLEAN, C!Get(q, k, fails)
        PROVE  CatRowsOK'
    BY <1>5, <1>8, CatGot
  <1>9. CASE C!Tick
    BY <1>5, <1>9, CatTick
  <1> QED
    BY <1>1, <1>2, <1>3, <1>4, <1>6, <1>7, <1>8, <1>9, CatSteps

-----------------------------------------------------------------------------
(* The catalogue: the age of its lists, and the writes they lack. *)

CatEntryAged(e, ended, now) ==
    e # None =>
        /\ e.version \in 1..(Len(ended) + 1)
        /\ \/ e.version = Len(ended) + 1 /\ e.until <= now + TTL
           \/ e.version < Len(ended) + 1 /\ e.until <= ended[e.version] + TTL + MaxFetch
CatReadAged(e, ended, now) ==
    e.pc = "set" =>
        /\ e.at <= now /\ now <= e.at + MaxFetch
        /\ e.version \in 1..(Len(ended) + 1)
        /\ \/ e.version = Len(ended) + 1
           \/ e.version < Len(ended) + 1 /\ e.at <= ended[e.version]
CatMadeAged(shown, ended, writer) ==
    \A k \in C!Keys : shown[k] <= Len(ended[k]) + 1 /\ \A w \in Requests : writer[w].made[k] <= Len(ended[k]) + 1

CatAged(shown, ended, cache, reader, writer, now) ==
    /\ CatMadeAged(shown, ended, writer)
    /\ \A k \in C!Keys : CatEntryAged(cache[k], ended[k], now)
    /\ \A r \in Readers : CatReadAged(reader[r], ended[reader[r].key], now)

CatCovered(kept, cache, reader, k, v) ==
    \/ k \in kept
    \/ /\ cache[k] # None => cache[k].version >= v \/ cache[k].late
       /\ \A r \in Readers : reader[r].pc = "set" /\ reader[r].key = k => reader[r].version >= v \/ reader[r].late
CatAllCovered(kept, cache, reader, shown, writer) ==
    \A k \in C!Keys :
        /\ CatCovered(kept, cache, reader, k, shown[k])
        /\ \A w \in Requests : writer[w].pc = "del" /\ k \notin writer[w].dels
                                => CatCovered(kept, cache, reader, k, writer[w].made[k])

LEMMA CatListForms ==
    /\ C!ListsAged <=> CatAged(catShown, catEnded, catCache, catReader, catWriter, catNow)
    /\ C!ListsAged' <=> CatAged(catShown', catEnded', catCache', catReader', catWriter', catNow')
    /\ C!ListsCovered <=> CatAllCovered(catKept, catCache, catReader, catShown, catWriter)
    /\ C!ListsCovered' <=> CatAllCovered(catKept', catCache', catReader', catShown', catWriter')
  <1>1. C!ListsAged <=> CatAged(catShown, catEnded, catCache, catReader, catWriter, catNow)
    BY DEF C!ListsAged, CatAged, CatMadeAged, CatEntryAged, CatReadAged, C!Version
  <1>2. C!ListsAged' <=> CatAged(catShown', catEnded', catCache', catReader', catWriter', catNow')
    BY DEF C!ListsAged, CatAged, CatMadeAged, CatEntryAged, CatReadAged, C!Version
  <1>3. C!ListsCovered <=> CatAllCovered(catKept, catCache, catReader, catShown, catWriter)
    BY DEF C!ListsCovered, C!Covered, C!OnItsWay, CatAllCovered, CatCovered
  <1>4. C!ListsCovered' <=> CatAllCovered(catKept', catCache', catReader', catShown', catWriter')
    BY DEF C!ListsCovered, C!Covered, C!OnItsWay, CatAllCovered, CatCovered
  <1> QED
    BY <1>1, <1>2, <1>3, <1>4

\* A version of a list is replaced, or not: what was read before is no older.
LEMMA CatAgesOn ==
    ASSUME C!TypeOK, NEW k \in C!Keys, catEnded'[k] \in {catEnded[k], Append(catEnded[k], catNow)}
    PROVE  /\ \A e \in C!List \cup {None} : CatEntryAged(e, catEnded[k], catNow) => CatEntryAged(e, catEnded'[k], catNow)
           /\ \A e \in C!Reader : CatReadAged(e, catEnded[k], catNow) => CatReadAged(e, catEnded'[k], catNow)
           /\ Len(catEnded[k]) <= Len(catEnded'[k]) /\ Len(catEnded[k]) \in Nat /\ Len(catEnded'[k]) \in Nat
  <1>1. CASE catEnded'[k] = catEnded[k]
    BY <1>1, CatVersion
  <1>2. CASE catEnded'[k] = Append(catEnded[k], catNow)
    <2>1. /\ Len(catEnded'[k]) = Len(catEnded[k]) + 1 /\ Len(catEnded[k]) \in Nat
          /\ \A v \in 1..Len(catEnded[k]) : catEnded'[k][v] = catEnded[k][v] /\ catEnded[k][v] \in Nat
          /\ catEnded'[k][Len(catEnded[k]) + 1] = catNow /\ catNow \in Nat
      <3>1. /\ Len(catEnded'[k]) = Len(catEnded[k]) + 1 /\ catEnded'[k][Len(catEnded[k]) + 1] = catNow
            /\ \A v \in 1..Len(catEnded[k]) : catEnded'[k][v] = catEnded[k][v]
        BY <1>2, CatAppended
      <3>2. Len(catEnded[k]) \in Nat /\ \A v \in 1..Len(catEnded[k]) : catEnded[k][v] \in Nat
        BY CatVersion
      <3>3. catNow \in Nat
        BY CatNumbers DEF C!TypeOK
      <3> QED
        BY <3>1, <3>2, <3>3
    <2> DEFINE n == Len(catEnded[k])
    <2>2. ASSUME NEW e \in C!List \cup {None}, CatEntryAged(e, catEnded[k], catNow), e # None
          PROVE  CatEntryAged(e, catEnded'[k], catNow)
      <3>1. e.version \in 1..(n + 1) /\ e.until \in Nat /\ e.version \in Nat
        BY <2>2 DEF CatEntryAged, C!List
      <3>2. CASE e.version = n + 1
        <4>1. e.until <= catNow + TTL /\ catEnded'[k][e.version] = catNow
          BY <2>1, <2>2, <3>2 DEF CatEntryAged
        <4>2. e.until <= catNow + TTL + MaxFetch
          BY <2>1, <3>1, <4>1, CatNumbers
        <4>3. e.version \in 1..(n + 1 + 1) /\ e.version < n + 1 + 1
          BY <2>1, <3>1, <3>2
        <4> QED
          BY <2>1, <4>1, <4>2, <4>3 DEF CatEntryAged
      <3>3. CASE e.version # n + 1
        <4>1. e.version \in 1..n
          BY <2>1, <3>1, <3>3
        <4>2. e.until <= catEnded'[k][e.version] + TTL + MaxFetch
          BY <2>1, <2>2, <3>3, <4>1 DEF CatEntryAged
        <4>3. e.version \in 1..(n + 1 + 1) /\ e.version < n + 1 + 1
          BY <2>1, <3>1
        <4> QED
          BY <2>1, <4>2, <4>3 DEF CatEntryAged
      <3> QED
        BY <3>2, <3>3
    <2>3. ASSUME NEW e \in C!Reader, CatReadAged(e, catEnded[k], catNow), e.pc = "set"
          PROVE  CatReadAged(e, catEnded'[k], catNow)
      <3>1. e.version \in 1..(n + 1) /\ e.at <= catNow /\ catNow <= e.at + MaxFetch
        BY <2>3 DEF CatReadAged
      <3>2. e.version \in 1..(n + 1 + 1) /\ e.version < n + 1 + 1
        BY <2>1, <3>1
      <3>3. e.at <= catEnded'[k][e.version]
        <4>1. CASE e.version = n + 1
          BY <2>1, <3>1, <4>1
        <4>2. CASE e.version # n + 1
          <5>1. e.version \in 1..n
            BY <2>1, <3>1, <4>2
          <5> QED
            BY <2>1, <2>3, <4>2, <5>1 DEF CatReadAged
        <4> QED
          BY <4>1, <4>2
      <3> QED
        BY <2>1, <3>1, <3>2, <3>3 DEF CatReadAged
    <2>4. \A e \in C!List \cup {None} : CatEntryAged(e, catEnded[k], catNow) => CatEntryAged(e, catEnded'[k], catNow)
      BY <2>2 DEF CatEntryAged
    <2>5. \A e \in C!Reader : CatReadAged(e, catEnded[k], catNow) => CatReadAged(e, catEnded'[k], catNow)
      BY <2>3 DEF CatReadAged
    <2> QED
      BY <2>1, <2>4, <2>5
  <1> QED
    BY <1>1, <1>2

LEMMA CatTyped ==
    ASSUME C!TypeOK
    PROVE  /\ \A k \in C!Keys : catCache[k] \in C!List \cup {None} /\ catShown[k] \in Nat
           /\ \A r \in Readers : catReader[r] \in C!Reader /\ catReader[r].key \in C!Keys /\ catReader[r].version \in Nat
           /\ \A w \in Requests : /\ catWriter[w] \in C!Writer /\ catWriter[w].dels \subseteq C!Keys
                                  /\ \A k \in C!Keys : catWriter[w].made[k] \in Nat
           /\ catNow \in Nat
  <1>1. \A r \in Readers : catReader[r] \in C!Reader
    BY DEF C!TypeOK
  <1>2. \A w \in Requests : catWriter[w] \in C!Writer
    BY DEF C!TypeOK
  <1>3. \A r \in Readers : catReader[r].key \in C!Keys /\ catReader[r].version \in Nat
    BY <1>1 DEF C!Reader
  <1>4. \A w \in Requests : catWriter[w].dels \subseteq C!Keys /\ \A k \in C!Keys : catWriter[w].made[k] \in Nat
    BY <1>2 DEF C!Writer
  <1>5. \A k \in C!Keys : catCache[k] \in C!List \cup {None} /\ catShown[k] \in Nat
    BY DEF C!TypeOK
  <1> QED
    BY <1>1, <1>2, <1>3, <1>4, <1>5, CatNumbers DEF C!TypeOK

LEMMA CatWrittenAged ==
    ASSUME C!TypeOK, NEW w \in Requests, CatListsWritten(w), C!ListsAged
    PROVE  C!ListsAged'
  <1>1. CatAged(catShown, catEnded, catCache, catReader, catWriter, catNow)
    BY CatListForms
  <1>2. UNCHANGED <<catCache, catShown, catReader, catNow>>
        /\ \A k \in C!Keys : catEnded'[k] \in {catEnded[k], Append(catEnded[k], catNow)}
    BY DEF CatListsWritten
  <1>3. ASSUME NEW k \in C!Keys
        PROVE  /\ CatEntryAged(catCache'[k], catEnded'[k], catNow')
               /\ catShown'[k] <= Len(catEnded'[k]) + 1
    <2>1. CatEntryAged(catCache[k], catEnded[k], catNow) /\ catShown[k] <= Len(catEnded[k]) + 1
      BY <1>1 DEF CatAged, CatMadeAged
    <2>2. catCache[k] \in C!List \cup {None} /\ catShown[k] \in Nat
      BY CatTyped
    <2> QED
      BY <1>2, <2>1, <2>2, CatAgesOn
  <1>4. ASSUME NEW r \in Readers
        PROVE  CatReadAged(catReader'[r], catEnded'[catReader'[r].key], catNow')
    <2>1. CatReadAged(catReader[r], catEnded[catReader[r].key], catNow) /\ catReader[r] \in C!Reader /\ catReader[r].key \in C!Keys
      BY <1>1, CatTyped DEF CatAged
    <2> QED
      BY <1>2, <2>1, CatAgesOn
  <1>5. ASSUME NEW v \in Requests, NEW k \in C!Keys
        PROVE  catWriter'[v].made[k] <= Len(catEnded'[k]) + 1
    <2>1. /\ catWriter[v].made[k] <= Len(catEnded[k]) + 1 /\ catWriter[v].made[k] \in Nat
          /\ catWriter[w].made[k] <= Len(catEnded[k]) + 1 /\ catWriter[w].made[k] \in Nat
      BY <1>1, CatTyped DEF CatAged, CatMadeAged
    <2>2. Len(catEnded[k]) <= Len(catEnded'[k]) /\ Len(catEnded[k]) \in Nat /\ Len(catEnded'[k]) \in Nat
      BY <1>2, CatAgesOn
    <2>3. CASE v # w \/ catWriter'[w].made = catWriter[w].made
      BY <2>1, <2>2, <2>3 DEF CatListsWritten
    <2>4. CASE v = w /\ catWriter'[w].made[k] = 0
      BY <2>2, <2>4
    <2>5. CASE v = w /\ catWriter'[w].made[k] = C!Version(k) + 1 /\ catEnded'[k] = Append(catEnded[k], catNow)
      BY <2>5, CatAppended, CatVersion
    <2> QED
      BY <2>3, <2>4, <2>5, CatIdle DEF CatListsWritten
  <1> QED
    BY <1>3, <1>4, <1>5, CatListForms DEF CatAged, CatMadeAged

\* What was covered is covered when more is kept.
LEMMA CatWrittenCovered ==
    ASSUME C!TypeOK, NEW w \in Requests, CatListsWritten(w), C!ListsCovered
    PROVE  C!ListsCovered'
  <1>1. CatAllCovered(catKept, catCache, catReader, catShown, catWriter)
    BY CatListForms
  <1>2. UNCHANGED <<catCache, catShown, catReader>> /\ catKept \subseteq catKept'
        /\ \A v \in Requests \ {w} : catWriter'[v] = catWriter[v]
    BY DEF CatListsWritten
  <1>3. \A k \in C!Keys, v \in Nat : CatCovered(catKept, catCache, catReader, k, v)
                                     => CatCovered(catKept', catCache', catReader', k, v)
    BY <1>2 DEF CatCovered
  <1>4. \A k \in C!Keys : CatCovered(catKept', catCache', catReader', k, catShown'[k])
    BY <1>1, <1>2, <1>3, CatTyped DEF CatAllCovered
  <1>5. ASSUME NEW k \in C!Keys, NEW v \in Requests, catWriter'[v].pc = "del", k \notin catWriter'[v].dels
        PROVE  CatCovered(catKept', catCache', catReader', k, catWriter'[v].made[k])
    <2>1. CASE v # w
      BY <1>1, <1>2, <1>3, <1>5, <2>1, CatTyped DEF CatAllCovered
    <2>2. CASE v = w /\ catWriter'[w].made[k] = 0
      <3>1. /\ catCache[k] # None => catCache[k].version >= 0
            /\ \A r \in Readers : catReader[r].version >= 0
        BY CatTyped DEF C!List
      <3> QED
        BY <1>2, <2>2, <3>1 DEF CatCovered
    <2>3. CASE v = w /\ k \in catKept' \cup catWriter'[w].dels
      BY <1>5, <2>3 DEF CatCovered
    <2> QED
      BY <1>5, <2>1, <2>2, <2>3, CatIdle DEF CatListsWritten
  <1> QED
    BY <1>4, <1>5, CatListForms DEF CatAllCovered

LEMMA CatAgedOn ==
    ASSUME C!TypeOK, C!ListsAged, catEnded' = catEnded,
           \A k \in C!Keys : CatEntryAged(catCache'[k], catEnded[k], catNow'),
           \A r \in Readers : CatReadAged(catReader'[r], catEnded[catReader'[r].key], catNow'),
           \A k \in C!Keys : catShown'[k] = catShown[k] \/ \E w \in Requests : catShown'[k] = catWriter[w].made[k],
           \A w \in Requests : catWriter'[w].made = catWriter[w].made \/ catWriter'[w].made = [k \in C!Keys |-> 0]
    PROVE  C!ListsAged'
  <1>1. CatMadeAged(catShown, catEnded, catWriter)
    BY CatListForms DEF CatAged
  <1>2. \A k \in C!Keys : Len(catEnded[k]) \in Nat
    BY CatVersion
  <1>3. \A k \in C!Keys : catShown'[k] <= Len(catEnded[k]) + 1
    BY <1>1 DEF CatMadeAged
  <1>4. \A k \in C!Keys, w \in Requests : catWriter'[w].made[k] <= Len(catEnded[k]) + 1
    BY <1>1, <1>2 DEF CatMadeAged
  <1> QED
    BY <1>3, <1>4, CatListForms DEF CatAged, CatMadeAged

LEMMA CatListsNow ==
    ASSUME C!TypeOK, C!ListsAged
    PROVE  /\ \A k \in C!Keys : CatEntryAged(catCache[k], catEnded[k], catNow)
           /\ \A r \in Readers : CatReadAged(catReader[r], catEnded[catReader[r].key], catNow)
           /\ \A k \in C!Keys : catShown[k] <= C!Version(k) /\ \A w \in Requests : catWriter[w].made[k] <= C!Version(k)
  BY CatListForms DEF CatAged, CatMadeAged, C!Version

LEMMA CatVersions ==
    ASSUME C!TypeOK
    PROVE  \A k \in C!Keys : /\ C!Version(k) = Len(catEnded[k]) + 1 /\ Len(catEnded[k]) \in Nat
                              /\ \A i \in 1..Len(catEnded[k]) : catEnded[k][i] \in Nat
  BY CatVersion

\* A reader, an entry or the time moves: the others are as they were.
LEMMA CatTickAged ==
    ASSUME C!TypeOK, C!ListsAged, C!Tick
    PROVE  C!ListsAged'
  <1>1. UNCHANGED <<catRows, catCache, catReader>> /\ catNow' = catNow + 1 /\ catNow \in Nat
        /\ \A r \in Readers : catReader[r].pc = "set" => catNow < catReader[r].at + MaxFetch
    BY CatTick
  <1>2. ASSUME NEW k \in C!Keys
        PROVE  CatEntryAged(catCache'[k], catEnded[k], catNow')
    <2>1. CatEntryAged(catCache[k], catEnded[k], catNow) /\ catCache[k] \in C!List \cup {None}
      BY CatListsNow, CatTyped
    <2>2. catCache[k] # None /\ catCache[k].until <= catNow + TTL => catCache[k].until <= catNow + 1 + TTL
      BY <1>1, <2>1, CatNumbers DEF C!List
    <2> QED
      BY <1>1, <2>1, <2>2 DEF CatEntryAged
  <1>3. ASSUME NEW r \in Readers
        PROVE  CatReadAged(catReader'[r], catEnded[catReader'[r].key], catNow')
    <2>1. CatReadAged(catReader[r], catEnded[catReader[r].key], catNow) /\ catReader[r] \in C!Reader
      BY CatListsNow, CatTyped
    <2>2. catReader[r].pc = "set" => catReader[r].at <= catNow + 1 /\ catNow + 1 <= catReader[r].at + MaxFetch
      BY <1>1, <2>1, CatNumbers DEF CatReadAged, C!Reader
    <2> QED
      BY <1>1, <2>1, <2>2 DEF CatReadAged
  <1> QED
    BY <1>1, <1>2, <1>3, CatAgedOn DEF catRows

LEMMA CatGetAged ==
    ASSUME C!TypeOK, C!ListsAged, NEW q \in Readers, NEW k \in C!Keys, NEW fails \in BOOLEAN, C!Get(q, k, fails)
    PROVE  C!ListsAged'
  <1>1. UNCHANGED <<catRows, catCache, catNow>>
        /\ (catReader' = catReader \/ catReader'[q].pc = "fetch")
        /\ \A p \in Readers \ {q} : catReader'[p] = catReader[p]
    BY CatGot
  <1>2. \A l \in C!Keys : CatEntryAged(catCache'[l], catEnded[l], catNow')
    BY <1>1, CatListsNow
  <1>3. ASSUME NEW r \in Readers
        PROVE  CatReadAged(catReader'[r], catEnded[catReader'[r].key], catNow')
    <2>1. CASE catReader'[r] = catReader[r]
      BY <1>1, <2>1, CatListsNow
    <2>2. CASE catReader'[r].pc = "fetch"
      BY <2>2 DEF CatReadAged
    <2> QED
      BY <1>1, <2>1, <2>2
  <1> QED
    BY <1>1, <1>2, <1>3, CatAgedOn DEF catRows

LEMMA CatFetchAged ==
    ASSUME C!TypeOK, C!ListsAged, NEW q \in Readers, C!Fetch(q)
    PROVE  C!ListsAged'
  <1>1. /\ UNCHANGED <<catRows, catCache, catNow>> /\ \A p \in Readers \ {q} : catReader'[p] = catReader[p]
        /\ catReader'[q].key = catReader[q].key /\ catReader[q].key \in C!Keys
        /\ catReader'[q].version = C!Version(catReader[q].key) /\ catReader'[q].at = catNow
    BY CatFetched, CatTyped
  <1>2. \A l \in C!Keys : CatEntryAged(catCache'[l], catEnded[l], catNow')
    BY <1>1, CatListsNow
  <1>3. ASSUME NEW r \in Readers
        PROVE  CatReadAged(catReader'[r], catEnded[catReader'[r].key], catNow')
    <2>1. CASE r # q
      BY <1>1, <2>1, CatListsNow
    <2>2. CASE r = q
      <3>1. C!Version(catReader[q].key) = Len(catEnded[catReader[q].key]) + 1 /\ Len(catEnded[catReader[q].key]) \in Nat
        BY <1>1, CatVersions
      <3>2. catNow \in Nat /\ catNow <= catNow /\ catNow <= catNow + MaxFetch
        BY CatTyped, CatNumbers
      <3> DEFINE n == Len(catEnded[catReader[q].key])
      <3>3. n + 1 \in 1..(n + 1)
        BY <3>1
      <3>4. catReader'[r].version = n + 1 /\ catReader'[r].at = catNow /\ catNow' = catNow
            /\ catEnded[catReader'[r].key] = catEnded[catReader[q].key]
        BY <1>1, <2>2, <3>1
      <3> QED
        BY <3>2, <3>3, <3>4 DEF CatReadAged
    <2> QED
      BY <2>1, <2>2
  <1> QED
    BY <1>1, <1>2, <1>3, CatAgedOn DEF catRows

LEMMA CatSetAged ==
    ASSUME C!TypeOK, C!ListsAged, NEW q \in Readers, NEW fails \in BOOLEAN, C!Set(q, fails)
    PROVE  C!ListsAged'
  <1> DEFINE k == catReader[q].key
  <1>1. /\ UNCHANGED <<catRows, catNow>> /\ \A p \in Readers \ {q} : catReader'[p] = catReader[p]
        /\ catReader'[q] = C!NotReading /\ catReader[q].pc = "set" /\ k \in C!Keys
        /\ \A l \in C!Keys \ {k} : catCache'[l] = catCache[l]
        /\ \/ catCache' = catCache
           \/ catCache'[k] = [version |-> catReader[q].version, until |-> catNow + TTL, late |-> catReader[q].late]
    <2>1. CASE catCache' = catCache
      BY <2>1, CatSet
    <2>2. CASE catCache' # catCache
      <3>1. /\ UNCHANGED <<catRows, catNow>> /\ \A p \in Readers \ {q} : catReader'[p] = catReader[p]
            /\ catReader'[q] = C!NotReading /\ catReader[q].pc = "set" /\ k \in C!Keys
        BY CatSet
      <3>2. /\ \A l \in C!Keys \ {k} : catCache'[l] = catCache[l]
            /\ catCache'[k] = [version |-> catReader[q].version, until |-> catNow + TTL, late |-> catReader[q].late]
        BY <2>2, CatSet
      <3> QED
        BY <3>1, <3>2
    <2> QED
      BY <2>1, <2>2
  <1> HIDE DEF k
  <1>2. ASSUME NEW r \in Readers
        PROVE  CatReadAged(catReader'[r], catEnded[catReader'[r].key], catNow')
    <2>1. CASE r # q
      BY <1>1, <2>1, CatListsNow
    <2>2. CASE r = q
      <3>1. catReader'[r].pc # "set"
        BY <1>1, <2>2, CatIdle
      <3> QED
        BY <3>1 DEF CatReadAged
    <2> QED
      BY <2>1, <2>2
  <1>3. CatEntryAged([version |-> catReader[q].version, until |-> catNow + TTL, late |-> catReader[q].late], catEnded[k], catNow)
    <2> DEFINE v == catReader[q].version
               n == Len(catEnded[k])
               e == [version |-> v, until |-> catNow + TTL, late |-> catReader[q].late]
    <2>1. CatReadAged(catReader[q], catEnded[k], catNow) /\ catReader[q] \in C!Reader
      BY <1>1, CatListsNow, CatTyped DEF k
    <2>2. /\ catReader[q].at <= catNow /\ catNow <= catReader[q].at + MaxFetch /\ v \in 1..(n + 1)
          /\ (v = n + 1 \/ (v < n + 1 /\ catReader[q].at <= catEnded[k][v]))
      BY <1>1, <2>1 DEF CatReadAged
    <2>3. n \in Nat /\ \A i \in 1..n : catEnded[k][i] \in Nat
      BY <1>1, CatVersions
    <2>4. catNow + TTL <= catNow + TTL
      BY CatTyped, CatNumbers
    <2>5. ASSUME v < n + 1, catReader[q].at <= catEnded[k][v]
          PROVE  catNow + TTL <= catEnded[k][v] + TTL + MaxFetch
      <3>1. v \in 1..n
        BY <2>2, <2>3, <2>5
      <3>2. catEnded[k][v] \in Nat /\ catReader[q].at \in Nat /\ catNow \in Nat
        BY <2>1, <2>3, <3>1, CatTyped DEF C!Reader
      <3>3. catNow <= catReader[q].at + MaxFetch /\ catReader[q].at <= catEnded[k][v]
        BY <2>2, <2>5
      <3> HIDE DEF v
      <3> QED
        BY <3>2, <3>3, CatNumbers
    <2>6. e.version = v /\ e.until = catNow + TTL
      OBVIOUS
    <2> HIDE DEF e, n
    <2>7. CatEntryAged(e, catEnded[k], catNow)
      BY <2>2, <2>4, <2>5, <2>6 DEF CatEntryAged, n
    <2> QED
      BY <2>7 DEF e
  <1>4. ASSUME NEW l \in C!Keys
        PROVE  CatEntryAged(catCache'[l], catEnded[l], catNow')
    <2>1. CASE catCache'[l] = catCache[l]
      BY <1>1, <2>1, CatListsNow
    <2>2. CASE catCache'[l] # catCache[l]
      <3>1. l = k /\ catCache'[l] = [version |-> catReader[q].version, until |-> catNow + TTL, late |-> catReader[q].late]
        BY <1>1, <2>2
      <3> QED
        BY <1>1, <1>3, <3>1
    <2> QED
      BY <2>1, <2>2
  <1> QED
    BY <1>1, <1>2, <1>4, CatAgedOn DEF catRows

LEMMA CatDelAged ==
    ASSUME C!TypeOK, C!ListsAged, NEW w \in Requests, NEW k \in C!Keys, NEW fails \in BOOLEAN, C!Del(w, k, fails)
    PROVE  C!ListsAged'
  <1>1. UNCHANGED <<catEnded, catNow>> /\ \A l \in C!Keys : catCache'[l] = catCache[l] \/ catCache'[l] = None
    BY CatDeleted, ZenonT(60) DEF C!TypeOK
  <1>2. \A r \in Readers : /\ catReader'[r].pc = catReader[r].pc /\ catReader'[r].key = catReader[r].key
                            /\ catReader'[r].version = catReader[r].version /\ catReader'[r].at = catReader[r].at
    BY CatDeleted
  <1>3. \A l \in C!Keys : catShown'[l] = catShown[l] \/ \E v \in Requests : catShown'[l] = catWriter[v].made[l]
    BY CatDeleted
  <1>4. \A v \in Requests : catWriter'[v].made = catWriter[v].made \/ catWriter'[v].made = [l \in C!Keys |-> 0]
    <2>1. \A v \in Requests \ {w} : catWriter'[v] = catWriter[v]
      BY CatDeleted DEF CatLeaves
    <2>2. catWriter'[w].made = catWriter[w].made \/ catWriter'[w].made = [l \in C!Keys |-> 0]
      <3>1. CatLeaves(w)
        BY CatDeleted
      <3>2. catWriter'[w] = C!NotWriting => catWriter'[w].made = [l \in C!Keys |-> 0]
        BY CatIdle
      <3> QED
        BY <3>1, <3>2 DEF CatLeaves
    <2> QED
      BY <2>1, <2>2
  <1>5. \A l \in C!Keys : CatEntryAged(catCache'[l], catEnded[l], catNow')
    BY <1>1, CatListsNow DEF CatEntryAged
  <1>6. \A r \in Readers : CatReadAged(catReader'[r], catEnded[catReader'[r].key], catNow')
    BY <1>1, <1>2, CatListsNow DEF CatReadAged
  <1> QED
    BY <1>1, <1>3, <1>4, <1>5, <1>6, CatAgedOn

LEMMA CatAgedStep ==
    ASSUME C!TypeOK, C!WritesOK, C!ListsAged, C!Next
    PROVE  C!ListsAged'
  <1>1. ASSUME NEW w \in Requests, CatBegins(w)
        PROVE  C!ListsAged'
    <2>1. PICK req \in C!Writer : C!Read(w, req) /\ CatRequest(req)
      BY <1>1, CatBegin
    <2>2. /\ UNCHANGED <<catCache, catEnded, catShown, catReader, catNow>>
          /\ \A v \in Requests \ {w} : catWriter'[v] = catWriter[v]
          /\ catWriter'[w].made = [k \in C!Keys |-> 0]
      BY <2>1, CatBegun DEF CatRequest
    <2>3. \A v \in Requests : catWriter'[v].made = catWriter[v].made \/ catWriter'[v].made = [l \in C!Keys |-> 0]
      BY <2>2
    <2> QED
      BY <2>2, <2>3, CatAgedOn, CatListsNow
  <1>2. ASSUME NEW w \in Requests, CatWrites(w)
        PROVE  C!ListsAged'
    BY <1>2, CatWritten, CatWrittenAged
  <1>3. ASSUME NEW w \in Requests, C!Fails(w)
        PROVE  C!ListsAged'
    <2>1. /\ UNCHANGED <<catCache, catEnded, catShown, catReader, catNow>>
          /\ \A v \in Requests \ {w} : catWriter'[v] = catWriter[v]
          /\ catWriter'[w].made = [k \in C!Keys |-> 0]
      BY <1>3, CatFails, CatIdle DEF CatLeaves
    <2>2. \A v \in Requests : catWriter'[v].made = catWriter[v].made \/ catWriter'[v].made = [l \in C!Keys |-> 0]
      BY <2>1
    <2> QED
      BY <2>1, <2>2, CatAgedOn, CatListsNow
  <1> QED
    BY <1>1, <1>2, <1>3, CatDelAged, CatFetchAged, CatSetAged, CatGetAged, CatTickAged, CatSteps

LEMMA CatCoveredNow ==
    ASSUME C!TypeOK, C!ListsCovered
    PROVE  /\ \A k \in C!Keys : CatCovered(catKept, catCache, catReader, k, catShown[k])
           /\ \A k \in C!Keys, w \in Requests : catWriter[w].pc = "del" /\ k \notin catWriter[w].dels
                  => CatCovered(catKept, catCache, catReader, k, catWriter[w].made[k])
  BY CatListForms DEF CatAllCovered

\* What is covered stays so, and no key was deleted yet of a write that is new.
LEMMA CatCoveredOn ==
    ASSUME C!TypeOK, C!ListsCovered,
           \A k \in C!Keys, v \in Nat : v <= C!Version(k) /\ CatCovered(catKept, catCache, catReader, k, v)
                                       => CatCovered(catKept', catCache', catReader', k, v),
           \A k \in C!Keys : catShown[k] <= C!Version(k) /\ \A w \in Requests : catWriter[w].made[k] <= C!Version(k),
           catShown' = catShown, \A w \in Requests : catWriter'[w] = catWriter[w] \/ catWriter'[w].pc # "del"
    PROVE  C!ListsCovered'
  <1>1. \A k \in C!Keys : CatCovered(catKept', catCache', catReader', k, catShown'[k])
    BY CatCoveredNow, CatTyped
  <1>2. ASSUME NEW k \in C!Keys, NEW w \in Requests, catWriter'[w].pc = "del", k \notin catWriter'[w].dels
        PROVE  CatCovered(catKept', catCache', catReader', k, catWriter'[w].made[k])
    <2>1. catWriter'[w] = catWriter[w]
      BY <1>2
    <2> QED
      BY <1>2, <2>1, CatCoveredNow, CatTyped
  <1> QED
    BY <1>1, <1>2, CatListForms DEF CatAllCovered

LEMMA CatReadersCovered ==
    ASSUME C!TypeOK, C!ListsAged, C!ListsCovered, C!Next, UNCHANGED catRows,
           \A k \in C!Keys, v \in Nat : v <= C!Version(k) /\ CatCovered(catKept, catCache, catReader, k, v)
                                       => CatCovered(catKept', catCache', catReader', k, v)
    PROVE  C!ListsCovered'
  BY CatListsNow, CatCoveredOn DEF catRows

LEMMA CatSetCovered ==
    ASSUME C!TypeOK, NEW q \in Readers, NEW fails \in BOOLEAN, C!Set(q, fails),
           NEW k \in C!Keys, NEW v \in Nat, v <= C!Version(k), CatCovered(catKept, catCache, catReader, k, v)
    PROVE  CatCovered(catKept', catCache', catReader', k, v)
  <1> DEFINE l == catReader[q].key
  <1>1. /\ catReader[q].pc = "set" /\ catReader'[q].pc # "set"
        /\ \A p \in Readers \ {q} : catReader'[p] = catReader[p]
    BY CatSet, CatIdle
  <1>2. \A p \in Readers : catReader'[p].pc = "set" => p # q /\ catReader'[p] = catReader[p]
    BY <1>1
  <1>3. CASE UNCHANGED catCache /\ UNCHANGED catKept
    BY <1>2, <1>3 DEF CatCovered
  <1>4. CASE /\ \A x \in C!Keys \ {l} : catCache'[x] = catCache[x]
             /\ catCache'[l] = [version |-> catReader[q].version, until |-> catNow + TTL, late |-> catReader[q].late]
             /\ catKept' \subseteq catKept
             /\ \A x \in catKept \ catKept' :
                   x = l /\ catReader[q].version = C!Version(x) /\ \A p \in Readers \ {q} : ~C!OnItsWay(p, x)
    <2>1. CASE k # l
      <3>1. catCache'[k] = catCache[k] /\ (k \in catKept => k \in catKept')
        BY <1>4, <2>1
      <3> QED
        BY <1>2, <3>1 DEF CatCovered
    <2>2. CASE k = l /\ k \in catKept /\ k \in catKept'
      BY <2>2 DEF CatCovered
    <2>3. CASE k = l /\ k \in catKept /\ k \notin catKept'
      <3>1. catReader[q].version = C!Version(k) /\ \A p \in Readers \ {q} : ~C!OnItsWay(p, k)
        BY <1>4, <2>3
      <3>2. \A p \in Readers : ~(catReader'[p].pc = "set" /\ catReader'[p].key = k)
        BY <1>2, <3>1 DEF C!OnItsWay
      <3>3. catCache'[k].version = catReader[q].version
        BY <1>4, <2>3
      <3>4. catCache'[k].version >= v
        BY <3>1, <3>3, CatVersions
      <3> QED
        BY <3>2, <3>4 DEF CatCovered
    <2>4. CASE k = l /\ k \notin catKept
      <3>1. \A r \in Readers : catReader[r].pc = "set" /\ catReader[r].key = k => catReader[r].version >= v \/ catReader[r].late
        BY <2>4 DEF CatCovered
      <3>2. catReader[q].version >= v \/ catReader[q].late
        BY <1>1, <2>4, <3>1
      <3>3. catCache'[k].version = catReader[q].version /\ catCache'[k].late = catReader[q].late
        BY <1>4, <2>4
      <3> QED
        BY <1>2, <3>1, <3>2, <3>3 DEF CatCovered
    <2> QED
      BY <2>1, <2>2, <2>3, <2>4
  <1>5. CASE ~(UNCHANGED catCache /\ UNCHANGED catKept)
    <2>1. /\ \A x \in C!Keys \ {l} : catCache'[x] = catCache[x]
          /\ catCache'[l] = [version |-> catReader[q].version, until |-> catNow + TTL, late |-> catReader[q].late]
          /\ catKept' \subseteq catKept
          /\ \A x \in catKept \ catKept' :
                x = l /\ catReader[q].version = C!Version(x) /\ \A p \in Readers \ {q} : ~C!OnItsWay(p, x)
      <3>1. \/ UNCHANGED catCache /\ UNCHANGED catKept
            \/ /\ \A x \in C!Keys \ {l} : catCache'[x] = catCache[x]
               /\ catCache'[l] = [version |-> catReader[q].version, until |-> catNow + TTL, late |-> catReader[q].late]
               /\ catKept' \subseteq catKept
               /\ \A x \in catKept \ catKept' :
                     x = l /\ catReader[q].version = C!Version(x) /\ \A p \in Readers \ {q} : ~C!OnItsWay(p, x)
        BY CatSet, ZenonT(60)
      <3> QED
        BY <1>5, <3>1
    <2> HIDE DEF l
    <2> QED
      BY <1>4, <2>1
  <1> QED
    BY <1>3, <1>5

LEMMA CatDelCovered ==
    ASSUME C!TypeOK, C!ListsCovered, NEW w \in Requests, NEW k \in C!Keys, NEW fails \in BOOLEAN, C!Del(w, k, fails)
    PROVE  C!ListsCovered'
  <1>1. /\ catWriter[w].pc = "del" /\ k \in catWriter[w].dels
        /\ \A v \in Requests \ {w} : catWriter'[v] = catWriter[v]
        /\ \/ catWriter'[w] = C!NotWriting
           \/ catWriter'[w].pc = "del" /\ catWriter'[w].made = catWriter[w].made
    BY CatDeleted DEF CatLeaves
  <1>2. \A n : CatCovered(catKept', catCache', catReader', k, n)
    <2>1. CASE k \in catKept'
      BY <2>1 DEF CatCovered
    <2>2. CASE k \notin catKept'
      <3>1. catCache'[k] = None /\ \A r \in Readers : catReader'[r].pc = catReader[r].pc /\ catReader'[r].key = catReader[r].key
                               /\ catReader'[r].late = (catReader[r].late \/ C!OnItsWay(r, k))
        BY <2>2, CatDeleted DEF C!TypeOK
      <3> QED
        BY <3>1 DEF CatCovered, C!OnItsWay
    <2> QED
      BY <2>1, <2>2
  <1>3. ASSUME NEW l \in C!Keys, NEW n \in Nat, CatCovered(catKept, catCache, catReader, l, n)
        PROVE  CatCovered(catKept', catCache', catReader', l, n)
    <2>1. CASE l = k
      BY <1>2, <2>1
    <2>2. CASE l # k
      <3>1. catCache'[l] = catCache[l] /\ (l \in catKept => l \in catKept')
        <4>1. CASE catKept' = catKept \cup {k} /\ UNCHANGED <<catCache, catReader>>
          BY <4>1
        <4>2. CASE catCache' = [catCache EXCEPT ![k] = None] /\ catKept' = catKept \ {k}
          BY <2>2, <4>2 DEF C!TypeOK
        <4> QED
          BY <4>1, <4>2, CatDeleted
      <3>2. \A r \in Readers : /\ catReader'[r].pc = catReader[r].pc /\ catReader'[r].key = catReader[r].key
                                /\ catReader'[r].version = catReader[r].version
                                /\ (catReader[r].late => catReader'[r].late)
        BY CatDeleted
      <3> QED
        BY <1>3, <3>1, <3>2 DEF CatCovered
    <2> QED
      BY <2>1, <2>2
  <1>4. ASSUME NEW l \in C!Keys, catWriter[w].dels = {k} \/ l = k \/ l \notin catWriter[w].dels
        PROVE  CatCovered(catKept', catCache', catReader', l, catWriter[w].made[l])
    <2>1. CASE l = k
      BY <1>2, <2>1
    <2>2. CASE l # k
      <3>1. l \notin catWriter[w].dels
        BY <1>4, <2>2
      <3> QED
        BY <1>1, <1>3, <3>1, CatCoveredNow, CatTyped
    <2> QED
      BY <2>1, <2>2
  <1>5. ASSUME NEW l \in C!Keys
        PROVE  CatCovered(catKept', catCache', catReader', l, catShown'[l])
    <2>1. CASE catShown'[l] = catShown[l]
      BY <1>3, <2>1, CatCoveredNow, CatTyped
    <2>2. CASE catShown'[l] # catShown[l]
      <3>1. catWriter[w].dels = {k} /\ catShown'[l] = catWriter[w].made[l]
        BY <2>2, CatDeleted
      <3> QED
        BY <1>4, <3>1
    <2> QED
      BY <2>1, <2>2
  <1>6. ASSUME NEW l \in C!Keys, NEW v \in Requests, catWriter'[v].pc = "del", l \notin catWriter'[v].dels
        PROVE  CatCovered(catKept', catCache', catReader', l, catWriter'[v].made[l])
    <2>1. CASE v # w
      BY <1>1, <1>3, <1>6, <2>1, CatCoveredNow, CatTyped
    <2>2. CASE v = w
      <3>1. catWriter'[w] # C!NotWriting
        BY <1>6, <2>2, CatIdle
      <3>2. catWriter'[w].dels = catWriter[w].dels \ {k} /\ catWriter'[w].made = catWriter[w].made
        BY <1>1, <3>1, CatDeleted
      <3>3. l = k \/ l \notin catWriter[w].dels
        BY <1>6, <2>2, <3>2
      <3> QED
        BY <1>4, <2>2, <3>2, <3>3
    <2> QED
      BY <2>1, <2>2
  <1> QED
    BY <1>5, <1>6, CatListForms DEF CatAllCovered

LEMMA CatCoveredStep ==
    ASSUME C!TypeOK, C!WritesOK, C!ListsAged, C!ListsCovered, C!Next
    PROVE  C!ListsCovered'
  <1>1. ASSUME NEW w \in Requests, CatBegins(w)
        PROVE  C!ListsCovered'
    <2>1. PICK req \in C!Writer : C!Read(w, req) /\ CatRequest(req)
      BY <1>1, CatBegin
    <2>2. /\ UNCHANGED <<catCache, catShown, catReader, catKept>>
          /\ \A v \in Requests \ {w} : catWriter'[v] = catWriter[v]
          /\ catWriter'[w].pc # "del"
      BY <2>1, CatBegun DEF CatRequest
    <2> QED
      BY <2>2, CatCoveredOn, CatListsNow
  <1>2. ASSUME NEW w \in Requests, CatWrites(w)
        PROVE  C!ListsCovered'
    BY <1>2, CatWritten, CatWrittenCovered
  <1>3. ASSUME NEW w \in Requests, C!Fails(w)
        PROVE  C!ListsCovered'
    <2>1. /\ UNCHANGED <<catCache, catShown, catReader>> /\ catKept \subseteq catKept'
          /\ \A v \in Requests \ {w} : catWriter'[v] = catWriter[v]
          /\ catWriter'[w].pc # "del"
      BY <1>3, CatFails, CatIdle DEF CatLeaves
    <2>2. \A k \in C!Keys, v \in Nat : CatCovered(catKept, catCache, catReader, k, v)
                                       => CatCovered(catKept', catCache', catReader', k, v)
      BY <2>1 DEF CatCovered
    <2> QED
      BY <2>1, <2>2, CatCoveredOn, CatListsNow
  <1>4. ASSUME NEW q \in Readers, C!Fetch(q)
        PROVE  C!ListsCovered'
    <2>1. /\ UNCHANGED <<catRows, catCache, catKept>>
          /\ \A p \in Readers \ {q} : catReader'[p] = catReader[p]
          /\ catReader'[q].version = C!Version(catReader[q].key) /\ catReader'[q].key = catReader[q].key
      BY <1>4, CatFetched
    <2>2. ASSUME NEW k \in C!Keys, NEW v \in Nat, v <= C!Version(k), CatCovered(catKept, catCache, catReader, k, v)
          PROVE  CatCovered(catKept', catCache', catReader', k, v)
      <3>1. catReader'[q].key = k => catReader'[q].version >= v
        BY <2>1, <2>2, CatVersions
      <3> QED
        BY <2>1, <2>2, <3>1 DEF CatCovered
    <2> QED
      BY <2>1, <2>2, CatReadersCovered
  <1>5. ASSUME NEW q \in Readers, NEW fails \in BOOLEAN, C!Set(q, fails)
        PROVE  C!ListsCovered'
    <2>1. UNCHANGED catRows
      BY <1>5, CatSet
    <2> QED
      BY <1>5, <2>1, CatSetCovered, CatReadersCovered
  <1>6. ASSUME NEW q \in Readers, NEW k \in C!Keys, NEW fails \in BOOLEAN, C!Get(q, k, fails)
        PROVE  C!ListsCovered'
    <2>1. /\ UNCHANGED <<catRows, catCache, catKept>>
          /\ \A p \in Readers : catReader'[p] = catReader[p] \/ catReader'[p].pc # "set"
      BY <1>6, CatGot
    <2>2. \A l \in C!Keys, v \in Nat : CatCovered(catKept, catCache, catReader, l, v)
                                       => CatCovered(catKept', catCache', catReader', l, v)
      BY <2>1 DEF CatCovered
    <2> QED
      BY <2>1, <2>2, CatReadersCovered
  <1>7. CASE C!Tick
    <2>1. UNCHANGED <<catRows, catCache, catKept, catReader>>
      BY <1>7, CatTick
    <2> QED
      BY <2>1, CatReadersCovered
  <1> QED
    BY <1>1, <1>2, <1>3, <1>4, <1>5, <1>6, <1>7, CatDelCovered, CatSteps

-----------------------------------------------------------------------------
(* The catalogue: its invariant, and what it explains. *)

LEMMA CatInit == C!Init => C!IInv
  <1> SUFFICES ASSUME C!Init PROVE C!IInv
    OBVIOUS
  <1>1. C!TypeOK
    <2> USE DEF C!Init
    <2>1. catPipeline \in [Pipelines -> {"none", "plain", "default"}] /\ catStage \in C!Stored
      BY DEF C!Stored
    <2>2. catEnded \in [C!Keys -> Seq(0..MaxTime)] /\ catCache \in [C!Keys -> C!List \cup {None}]
      OBVIOUS
    <2>3. catAnswer \in [C!Keys -> [value : Nat, at : Nat]] /\ catShown \in [C!Keys -> Nat]
      OBVIOUS
    <2>4. catReader \in [Readers -> C!Reader] /\ catWriter \in [Requests -> C!Writer]
      BY CatIdle
    <2>5. catNow \in 0..MaxTime /\ catReads \in 0..MaxReads /\ catWrites \in 0..MaxCatalogueWrites
          /\ catFailures \in 0..MaxFailures
      BY CatNumbers
    <2> QED
      BY <2>1, <2>2, <2>3, <2>4, <2>5 DEF C!TypeOK
  <1>2. /\ \A w \in Requests : catWriter[w] = C!NotWriting
        /\ \A r \in Readers : catReader[r] = C!NotReading
        /\ \A s \in Stages : catStage[s] = None
        /\ \A p \in Pipelines : catPipeline[p] = "none"
        /\ \A k \in C!Keys : catCache[k] = None /\ catShown[k] = 0 /\ catEnded[k] = <<>>
        /\ catRemoved = {} /\ catNow = 0
    BY DEF C!Init
  <1>3. \A w \in Requests, s \in Stages : ~CatUpdates(catWriter[w], s) /\ ~CatCreates(catWriter[w], s)
    BY <1>2, CatIdle DEF CatUpdates, CatCreates
  <1>4. C!WritesOK /\ C!PairsSeen /\ C!DefaultsAlone
    <2>1. C!WritesOK
      BY <1>2, CatWriteAside, CatWritesEach
    <2>2. C!PairsSeen
      BY <1>2, CatIdle DEF C!PairsSeen
    <2>3. C!DefaultsAlone
      BY <1>2, CatIdle DEF C!DefaultsAlone
    <2> QED
      BY <2>1, <2>2, <2>3
  <1>5. CatNamed(catStage, catRemoved, catWriter)
    BY <1>3 DEF CatNamed
  <1>6. CatGone(catStage, catRemoved, catOverlaps, catWriter)
    BY <1>2 DEF CatGone
  <1>7. CatNumbered(catStage, catWriter)
    BY <1>2, <1>3 DEF CatNumbered
  <1>8. C!ListsAged
    <2>1. \A k \in C!Keys : Len(catEnded[k]) = 0
      BY <1>2
    <2>2. \A k \in C!Keys, w \in Requests : catWriter[w].made[k] = 0
      <3>1. \A w \in Requests : catWriter[w] = C!NotWriting
        BY <1>2
      <3>2. \A k \in C!Keys : C!NotWriting.made[k] = 0
        BY CatIdle
      <3> QED
        BY <3>1, <3>2
    <2>3. CatMadeAged(catShown, catEnded, catWriter)
      BY <1>2, <2>1, <2>2 DEF CatMadeAged
    <2>4. \A k \in C!Keys : CatEntryAged(catCache[k], catEnded[k], catNow)
      BY <1>2 DEF CatEntryAged
    <2>5. \A r \in Readers : CatReadAged(catReader[r], catEnded[catReader[r].key], catNow)
      BY <1>2, CatIdle DEF CatReadAged
    <2> QED
      BY <2>3, <2>4, <2>5, CatListForms DEF CatAged
  <1>9. C!ListsCovered
    <2>1. \A k \in C!Keys, w \in Requests : catWriter[w].pc # "del"
      BY <1>2, CatIdle
    <2>2. \A k \in C!Keys : CatCovered(catKept, catCache, catReader, k, catShown[k])
      BY <1>2, CatIdle DEF CatCovered
    <2> QED
      BY <2>1, <2>2, CatListForms DEF CatAllCovered
  <1> QED
    BY <1>1, <1>4, <1>5, <1>6, <1>7, <1>8, <1>9, CatForms DEF C!IInv

LEMMA CatNext == C!IInv /\ [C!Next]_(C!vars) => C!IInv'
  <1>1. ASSUME C!IInv, C!Next PROVE C!IInv'
    <2>1. CatRowsOK'
      BY <1>1, CatRowsStep DEF C!IInv, CatRowsOK
    <2>2. C!TypeOK' /\ C!ListsAged' /\ C!ListsCovered'
      BY <1>1, CatTypes, CatAgedStep, CatCoveredStep DEF C!IInv
    <2> QED
      BY <2>1, <2>2 DEF C!IInv, CatRowsOK
  <1>2. ASSUME C!IInv, UNCHANGED C!vars PROVE C!IInv'
    <2>0. UNCHANGED <<catPipeline, catStage, catRemoved, catOverlaps, catWriter>>
          /\ UNCHANGED <<catCache, catEnded, catAnswer, catShown, catKept, catReader, catNow, catReads, catWrites, catFailures>>
      BY <1>2 DEF C!vars, C!redis
    <2>1. CatRowsOK'
      BY <1>2, <2>0, CatSameRows DEF C!IInv, CatRowsOK
    <2>2. C!TypeOK'
      BY <1>2, <2>0 DEF C!IInv, C!TypeOK
    <2>3. C!ListsAged' /\ C!ListsCovered'
      BY <1>2, <2>0, CatListForms DEF C!IInv
    <2> QED
      BY <2>1, <2>2, <2>3 DEF C!IInv, CatRowsOK
  <1> QED
    BY <1>1, <1>2

\* The step of the office that is a step of the catalogue, or none of its own.
LEMMA CatStep == [OfficeNext]_officeVars => [C!Next]_(C!vars)
  BY DEF OfficeNext, officeVars, C!vars, C!redis, catVars, AccountsStep, SignupStep, CodesStep, AgendasStep,
     CatalogueStep, PlansStep, LeadsStep

LEMMA CatInvariant == OfficeSpec => []C!IInv
  <1>1. OfficeInit => C!IInv
    BY CatInit DEF OfficeInit
  <1> QED
    BY <1>1, CatNext, CatStep, PTL DEF OfficeSpec

LEMMA CatExplained ==
    C!IInv => C!OneDefault /\ C!StaysRemoved /\ C!PositionsExplained /\ C!ListsExplained
  <1> SUFFICES ASSUME C!IInv
               PROVE  C!OneDefault /\ C!StaysRemoved /\ C!PositionsExplained /\ C!ListsExplained
    OBVIOUS
  <1>1. C!OneDefault
    <2> DEFINE defaults == {p \in Pipelines : catPipeline[p] = "default"}
    <2>1. CASE \E o \in catOverlaps : o \subseteq {"create pipeline", "update pipeline"}
      BY <2>1 DEF C!OneDefault
    <2>2. CASE \A p, q \in Pipelines : catPipeline[p] = "default" /\ catPipeline[q] = "default" => p = q
      <3>1. \A p, q \in defaults : p = q
        BY <2>2
      <3> HIDE DEF defaults
      <3>2. Cardinality(defaults) \in Nat /\ Cardinality(defaults) <= 1
        BY <3>1, AtMostOne
      <3>3. C!Cardinality(defaults) = Cardinality(defaults)
        BY DEF C!Cardinality, Cardinality
      <3>4. ~(C!Cardinality(defaults) > 1)
        BY <3>2, <3>3
      <3> QED
        BY <3>4 DEF C!OneDefault, defaults
    <2> QED
      BY <2>1, <2>2 DEF C!IInv, C!DefaultsAlone
  <1>2. C!StaysRemoved
    BY DEF C!IInv, C!StaysRemoved, C!RemovedAlone, C!RemovalCrossed
  <1>3. C!PositionsExplained
    BY DEF C!IInv, C!PositionsExplained, C!PositionsAlone, C!Overlapped
  <1>4. C!ListsExplained
    <2> SUFFICES ASSUME NEW k \in C!Keys, C!Hit(k), catCache[k].version < catShown[k], k \notin catKept
                 PROVE  catCache[k].late
      BY DEF C!ListsExplained
    <2>1. CatCovered(catKept, catCache, catReader, k, catShown[k])
      BY CatCoveredNow DEF C!IInv
    <2>2. catCache[k] # None /\ catCache[k] \in C!List /\ catShown[k] \in Nat
      BY CatTyped DEF C!IInv, C!Hit
    <2>3. ~(catCache[k].version >= catShown[k])
      BY <2>2 DEF C!List
    <2> QED
      BY <2>1, <2>2, <2>3 DEF CatCovered
  <1> QED
    BY <1>1, <1>2, <1>3, <1>4

\* The step of one list in a cache of bounded staleness.
CatTick1(k) == catNow' = catNow + 1 /\ UNCHANGED <<catEnded[k], catAnswer[k]>>
CatWrite1(k) == catEnded'[k] = Append(catEnded[k], catNow) /\ UNCHANGED <<catNow, catAnswer[k]>>
CatRead1(k) ==
    /\ \E v \in 1..(Len(catEnded[k]) + 1) :
          /\ v = Len(catEnded[k]) + 1 \/ catNow <= catEnded[k][v] + (TTL + MaxFetch)
          /\ catAnswer'[k] = [value |-> v, at |-> catNow]
    /\ UNCHANGED <<catNow, catEnded[k]>>
CatSame1(k) == UNCHANGED <<catNow, catEnded[k], catAnswer[k]>>

LEMMA CatListedForm ==
    ASSUME NEW k \in C!Keys, CatTick1(k) \/ CatWrite1(k) \/ CatRead1(k) \/ CatSame1(k)
    PROVE  [C!Listed(k)!Next]_(C!Listed(k)!vars)
  BY DEF C!Listed!Next, C!Listed!Tick, C!Listed!Write, C!Listed!Read, C!Listed!Recent, C!Listed!vars,
         CatTick1, CatWrite1, CatRead1, CatSame1

\* An answer is of a version that is as old as a list may be.
LEMMA CatReads1 ==
    ASSUME C!TypeOK, C!ListsAged, NEW k \in C!Keys, NEW v \in Nat,
           catAnswer' = [catAnswer EXCEPT ![k] = [value |-> v, at |-> catNow]],
           UNCHANGED <<catNow, catEnded>>,
           v \in 1..(Len(catEnded[k]) + 1),
           v = Len(catEnded[k]) + 1 \/ catNow <= catEnded[k][v] + (TTL + MaxFetch),
           NEW l \in C!Keys
    PROVE  CatRead1(l) \/ CatSame1(l)
  <1>1. CASE l = k
    <2>1. catAnswer'[l] = [value |-> v, at |-> catNow]
      BY <1>1 DEF C!TypeOK
    <2> QED
      BY <1>1, <2>1 DEF CatRead1
  <1>2. CASE l # k
    BY <1>2 DEF CatSame1, C!TypeOK
  <1> QED
    BY <1>1, <1>2

LEMMA CatListsStep ==
    ASSUME C!IInv, C!Next, NEW l \in C!Keys
    PROVE  CatTick1(l) \/ CatWrite1(l) \/ CatRead1(l) \/ CatSame1(l)
  <1> USE DEF C!IInv
  <1>1. ASSUME NEW w \in Requests, CatBegins(w)
        PROVE  CatSame1(l)
    <2>1. PICK req \in C!Writer : C!Read(w, req) /\ CatRequest(req)
      BY <1>1, CatBegin
    <2> QED
      BY <2>1 DEF C!Read, C!Begin, C!redis, CatSame1
  <1>2. ASSUME NEW w \in Requests, CatWrites(w)
        PROVE  CatWrite1(l) \/ CatSame1(l)
    BY <1>2, CatWritten DEF CatListsWritten, CatWrite1, CatSame1
  <1>3. ASSUME NEW w \in Requests, C!Fails(w)
        PROVE  CatSame1(l)
    BY <1>3 DEF C!Fails, CatSame1
  <1>4. ASSUME NEW w \in Requests, NEW k \in C!Keys, NEW fails \in BOOLEAN, C!Del(w, k, fails)
        PROVE  CatSame1(l)
    BY <1>4 DEF C!Del, CatSame1
  <1>5. ASSUME NEW r \in Readers, C!Fetch(r)
        PROVE  CatSame1(l)
    BY <1>5 DEF C!Fetch, C!redis, CatSame1
  <1>6. ASSUME NEW r \in Readers, NEW fails \in BOOLEAN, C!Set(r, fails)
        PROVE  CatRead1(l) \/ CatSame1(l)
    <2> DEFINE k == catReader[r].key
               v == catReader[r].version
    <2>1. /\ catAnswer' = [catAnswer EXCEPT ![k] = [value |-> v, at |-> catNow]]
          /\ UNCHANGED <<catNow, catEnded>> /\ catReader[r].pc = "set" /\ k \in C!Keys
          /\ catReader[r] \in C!Reader
      BY <1>6, CatSet DEF catRows
    <2>2. CatReadAged(catReader[r], catEnded[k], catNow)
      BY CatListsNow
    <2>3. v \in Nat /\ catNow \in Nat /\ catReader[r].at \in Nat
      BY <2>1, CatTyped DEF C!Reader
    <2>4. v \in 1..(Len(catEnded[k]) + 1)
      BY <2>1, <2>2 DEF CatReadAged
    <2>5. v = Len(catEnded[k]) + 1 \/ catNow <= catEnded[k][v] + (TTL + MaxFetch)
      <3>1. CASE v = Len(catEnded[k]) + 1
        BY <3>1
      <3>2. CASE v < Len(catEnded[k]) + 1 /\ catReader[r].at <= catEnded[k][v]
        <4>1. Len(catEnded[k]) \in Nat
          BY <2>1, CatVersion
        <4>2. v \in 1..Len(catEnded[k])
          BY <2>3, <2>4, <3>2, <4>1
        <4>3. catEnded[k][v] \in Nat
          BY <2>1, <4>2, CatVersion
        <4>4. catNow <= catReader[r].at + MaxFetch
          BY <2>1, <2>2 DEF CatReadAged
        <4> QED
          BY <2>3, <3>2, <4>3, <4>4, CatNumbers, SMTT(30)
      <3> QED
        BY <2>1, <2>2, <3>1, <3>2 DEF CatReadAged
    <2> HIDE DEF k, v
    <2> QED
      BY <2>1, <2>3, <2>4, <2>5, CatReads1
  <1>7. ASSUME NEW r \in Readers, NEW k \in C!Keys, NEW fails \in BOOLEAN, C!Get(r, k, fails)
        PROVE  CatRead1(l) \/ CatSame1(l)
    <2>1. UNCHANGED <<catNow, catEnded>>
      BY <1>7, CatGot DEF catRows
    <2>2. CASE UNCHANGED catAnswer
      BY <2>1, <2>2 DEF CatSame1
    <2>3. CASE /\ C!Hit(k) /\ catCache[k] \in C!List
               /\ catAnswer' = [catAnswer EXCEPT ![k] = [value |-> catCache[k].version, at |-> catNow]]
      <3> DEFINE v == catCache[k].version
                 u == catCache[k].until
      <3>1. catCache[k] # None /\ catNow < u /\ v \in Nat /\ u \in Nat /\ catNow \in Nat
        BY <2>3, CatTyped DEF C!Hit, C!List
      <3>2. CatEntryAged(catCache[k], catEnded[k], catNow)
        BY CatListsNow
      <3>3. v \in 1..(Len(catEnded[k]) + 1)
        BY <3>1, <3>2 DEF CatEntryAged
      <3>4. v = Len(catEnded[k]) + 1 \/ catNow <= catEnded[k][v] + (TTL + MaxFetch)
        <4>1. CASE v = Len(catEnded[k]) + 1
          BY <4>1
        <4>2. CASE v < Len(catEnded[k]) + 1 /\ u <= catEnded[k][v] + TTL + MaxFetch
          <5>1. Len(catEnded[k]) \in Nat
            BY CatVersion
          <5>2. v \in 1..Len(catEnded[k])
            BY <3>1, <3>3, <4>2, <5>1
          <5>3. catEnded[k][v] \in Nat
            BY <5>2, CatVersion
          <5>4. catNow < u /\ u \in Nat /\ catNow \in Nat
            BY <3>1
          <5> HIDE DEF u
          <5> QED
            BY <4>2, <5>3, <5>4, CatNumbers
        <4> QED
          BY <3>1, <3>2, <4>1, <4>2 DEF CatEntryAged
      <3>5. catAnswer' = [catAnswer EXCEPT ![k] = [value |-> v, at |-> catNow]]
        BY <2>3
      <3> HIDE DEF v, u
      <3> QED
        BY <2>1, <3>1, <3>3, <3>4, <3>5, CatReads1
    <2> QED
      BY <1>7, <2>2, <2>3, CatGot
  <1>8. ASSUME C!Tick
        PROVE  CatTick1(l)
    BY <1>8, CatTick DEF catRows, CatTick1
  <1> QED
    BY <1>1, <1>2, <1>3, <1>4, <1>5, <1>6, <1>7, <1>8, CatSteps

LEMMA CatListsBounded ==
    /\ C!Init => \A k \in C!Keys : C!Listed(k)!Init
    /\ C!IInv /\ [C!Next]_(C!vars) => [\A k \in C!Keys : [C!Listed(k)!Next]_(C!Listed(k)!vars)]_(C!vars)
  <1>1. C!Init => \A k \in C!Keys : C!Listed(k)!Init
    BY DEF C!Init, C!Listed!Init
  <1>2. ASSUME C!IInv, C!Next PROVE \A k \in C!Keys : [C!Listed(k)!Next]_(C!Listed(k)!vars)
    BY <1>2, CatListsStep, CatListedForm
  <1> QED
    BY <1>1, <1>2

\* TenantCacheService.getOrSet: a list of pipelines or of stages is never answered that
\* was replaced more than its time to live and its way to Redis ago, whatever the writes,
\* the readers and the failures of Redis: every key implements BoundedStaleness.
THEOREM ListsAlwaysBounded == OfficeSpec => C!ListsBounded
  <1>1. OfficeInit => C!Init
    BY DEF OfficeInit
  <1> QED
    BY <1>1, CatListsBounded, CatStep, CatInvariant, PTL DEF OfficeSpec, C!ListsBounded

-----------------------------------------------------------------------------
(* The plans: types, and what each step does. *)

LEMMA SubNumbers ==
    /\ TTL \in Nat /\ MaxFetch \in Nat /\ MaxTime \in Nat /\ MaxReads \in Nat /\ MaxPlanWrites \in Nat
    /\ "trial" \in Slugs /\ None \notin Slugs /\ None \notin F!Plans /\ None \notin F!Entry
  BY PlansAssumption DEF F!ConstantsOK

LEMMA SubIdle ==
    /\ F!NoRequest.pc = "idle" /\ F!NoRequest.op = ""
    /\ F!NoCheck.pc = "idle" /\ F!NoCheck.status = "" /\ F!NoCheck.plan = None
    /\ F!NoCheck.row = 0 /\ F!NoCheck.plans = 0 /\ F!NoCheck.at = 0
  BY DEF F!NoRequest, F!NoCheck

LEMMA SubVersions ==
    ASSUME F!TypeOK
    PROVE  /\ Len(subRowEnded) \in Nat /\ \A v \in 1..Len(subRowEnded) : subRowEnded[v] \in Nat
           /\ Len(subPlansEnded) \in Nat /\ \A v \in 1..Len(subPlansEnded) : subPlansEnded[v] \in Nat
           /\ F!RowVersion = Len(subRowEnded) + 1 /\ F!PlansVersion = Len(subPlansEnded) + 1
           /\ subNow \in Nat
  <1>1. subRowEnded \in Seq(Nat) /\ subPlansEnded \in Seq(Nat) /\ subNow \in 0..MaxTime
    BY DEF F!TypeOK
  <1>2. subNow \in Nat
    BY <1>1, SubNumbers
  <1> QED
    BY <1>1, <1>2, ElementOfSeq, LenProperties DEF F!RowVersion, F!PlansVersion

LEMMA SubAppended ==
    ASSUME NEW s \in Seq(Nat), NEW n \in Nat
    PROVE  /\ Append(s, n) \in Seq(Nat) /\ Len(Append(s, n)) = Len(s) + 1 /\ Len(s) \in Nat
           /\ \A v \in 1..Len(s) : Append(s, n)[v] = s[v] /\ s[v] \in Nat
           /\ Append(s, n)[Len(s) + 1] = n
  BY ElementOfSeq, LenProperties

\* What a request that changes the plans or the row has read when it begins.
SubRequest(req) ==
    \/ /\ req.pc = "subscribe" /\ req.op = "subscribe" /\ req.slug \in Slugs /\ subPlans[req.slug] # None
    \/ /\ req.pc = "event" /\ req.op = "event" /\ req.read = subRow
       /\ \E status \in F!Statuses : req.patch = <<"status", status>>
    \/ /\ req.pc = "edit" /\ req.op = "edit" /\ req.read = subRow /\ req.patch \in F!Patches
    \/ /\ req.pc = "insert plan" /\ req.op = "create plan" /\ req.slug \in Slugs /\ req.patch \in F!Plans
    \/ /\ req.pc = "save plan" /\ req.op = "update plan" /\ req.patch \in F!Plans
       /\ req.slug \in Slugs /\ req.to \in Slugs
    \/ /\ req.pc = "delete plan" /\ req.op = "delete plan" /\ req.slug \in Slugs /\ subRow.plan # req.slug

SubReads(r) ==
    \/ \E s \in Slugs : \/ F!Subscribe(r, s) \/ F!ReadForDelete(r, s)
                        \/ \E p \in F!Plans : F!ReadForCreate(r, s, p) \/ \E t \in Slugs : F!ReadForUpdate(r, s, t, p)
    \/ \E patch \in F!Patches : F!ReadForEdit(r, patch)
    \/ \E status \in {"active", "expired"} : F!ReadForEvent(r, status)
SubSaves(r) ==
    F!WriteEvent(r) \/ F!WriteSubscription(r) \/ F!SaveEdit(r) \/ F!InsertPlan(r) \/ F!SavePlan(r) \/ F!DeletePlan(r)

LEMMA SubSteps ==
    ASSUME F!Next
    PROVE  \/ F!Check \/ F!SetUnread \/ F!ReadPlan \/ F!Tick \/ F!Cancel
           \/ \E r \in Requests : SubReads(r) \/ SubSaves(r)
  BY DEF F!Next, SubReads, SubSaves

SubQuiet == <<subRow, subPlans, subRowEnded, subPlansEnded, subLast, subRenamed, subEntry, subGuard, subAnswer,
              subNow, subChecks>>

LEMMA SubBegin ==
    ASSUME NEW r \in Requests, SubReads(r)
    PROVE  \E req : SubRequest(req) /\ F!Begin(r, req.op) /\ F!Busy(r, req) /\ UNCHANGED SubQuiet
  <1> USE DEF F!db, SubQuiet
  <1>1. ASSUME NEW s \in Slugs, F!Subscribe(r, s)
        PROVE  \E req : SubRequest(req) /\ F!Begin(r, req.op) /\ F!Busy(r, req) /\ UNCHANGED SubQuiet
    <2> DEFINE req == [F!NoRequest EXCEPT !.pc = "subscribe", !.op = "subscribe", !.slug = s]
    <2>1. req.pc = "subscribe" /\ req.op = "subscribe" /\ req.slug = s
      BY DEF F!NoRequest
    <2>2. F!Busy(r, req) /\ F!Begin(r, "subscribe") /\ UNCHANGED SubQuiet /\ subPlans[s] # None
      BY <1>1 DEF F!Subscribe
    <2> HIDE DEF req
    <2> QED
      BY <2>1, <2>2 DEF SubRequest
  <1>2. ASSUME NEW s \in Slugs, F!ReadForDelete(r, s)
        PROVE  \E req : SubRequest(req) /\ F!Begin(r, req.op) /\ F!Busy(r, req) /\ UNCHANGED SubQuiet
    <2> DEFINE req == [F!NoRequest EXCEPT !.pc = "delete plan", !.op = "delete plan", !.slug = s]
    <2>1. req.pc = "delete plan" /\ req.op = "delete plan" /\ req.slug = s
      BY DEF F!NoRequest
    <2>2. F!Busy(r, req) /\ F!Begin(r, "delete plan") /\ UNCHANGED SubQuiet /\ subRow.plan # s
      BY <1>2 DEF F!ReadForDelete
    <2> HIDE DEF req
    <2> QED
      BY <2>1, <2>2 DEF SubRequest
  <1>3. ASSUME NEW s \in Slugs, NEW p \in F!Plans, F!ReadForCreate(r, s, p)
        PROVE  \E req : SubRequest(req) /\ F!Begin(r, req.op) /\ F!Busy(r, req) /\ UNCHANGED SubQuiet
    <2> DEFINE req == [F!NoRequest EXCEPT !.pc = "insert plan", !.op = "create plan", !.slug = s, !.patch = p]
    <2>1. req.pc = "insert plan" /\ req.op = "create plan" /\ req.slug = s /\ req.patch = p
      BY DEF F!NoRequest
    <2>2. F!Busy(r, req) /\ F!Begin(r, "create plan") /\ UNCHANGED SubQuiet
      BY <1>3 DEF F!ReadForCreate
    <2> HIDE DEF req
    <2> QED
      BY <2>1, <2>2 DEF SubRequest
  <1>4. ASSUME NEW s \in Slugs, NEW p \in F!Plans, NEW t \in Slugs, F!ReadForUpdate(r, s, t, p)
        PROVE  \E req : SubRequest(req) /\ F!Begin(r, req.op) /\ F!Busy(r, req) /\ UNCHANGED SubQuiet
    <2> DEFINE req == [F!NoRequest EXCEPT !.pc = "save plan", !.op = "update plan", !.slug = s, !.to = t, !.patch = p]
    <2>1. req.pc = "save plan" /\ req.op = "update plan" /\ req.slug = s /\ req.to = t /\ req.patch = p
      BY DEF F!NoRequest
    <2>2. F!Busy(r, req) /\ F!Begin(r, "update plan") /\ UNCHANGED SubQuiet
      BY <1>4 DEF F!ReadForUpdate
    <2> HIDE DEF req
    <2> QED
      BY <2>1, <2>2 DEF SubRequest
  <1>5. ASSUME NEW patch \in F!Patches, F!ReadForEdit(r, patch)
        PROVE  \E req : SubRequest(req) /\ F!Begin(r, req.op) /\ F!Busy(r, req) /\ UNCHANGED SubQuiet
    <2> DEFINE req == [F!NoRequest EXCEPT !.pc = "edit", !.op = "edit", !.read = subRow, !.patch = patch]
    <2>1. req.pc = "edit" /\ req.op = "edit" /\ req.read = subRow /\ req.patch = patch
      BY DEF F!NoRequest
    <2>2. F!Busy(r, req) /\ F!Begin(r, "edit") /\ UNCHANGED SubQuiet
      BY <1>5 DEF F!ReadForEdit
    <2> HIDE DEF req
    <2> QED
      BY <2>1, <2>2 DEF SubRequest
  <1>6. ASSUME NEW status \in {"active", "expired"}, F!ReadForEvent(r, status)
        PROVE  \E req : SubRequest(req) /\ F!Begin(r, req.op) /\ F!Busy(r, req) /\ UNCHANGED SubQuiet
    <2> DEFINE req == [F!NoRequest EXCEPT !.pc = "event", !.op = "event", !.read = subRow, !.patch = <<"status", status>>]
    <2>1. req.pc = "event" /\ req.op = "event" /\ req.read = subRow /\ req.patch = <<"status", status>>
      BY DEF F!NoRequest
    <2>2. F!Busy(r, req) /\ F!Begin(r, "event") /\ UNCHANGED SubQuiet
      BY <1>6 DEF F!ReadForEvent
    <2>3. status \in F!Statuses
      BY DEF F!Statuses
    <2> HIDE DEF req
    <2> QED
      BY <2>1, <2>2, <2>3 DEF SubRequest
  <1> QED
    BY <1>1, <1>2, <1>3, <1>4, <1>5, <1>6 DEF SubReads

-----------------------------------------------------------------------------
(* The plans: the writes on their way. *)

LEMMA SubBegun ==
    ASSUME F!WritesOK, F!PairsSeen, F!TypeOK, NEW r \in Requests, NEW req, SubRequest(req),
           F!Begin(r, req.op), F!Busy(r, req)
    PROVE  /\ F!WritesOK' /\ F!PairsSeen' /\ subWrites' \in 0..MaxPlanWrites
           /\ subOverlaps \subseteq subOverlaps' /\ subRequest[r].pc = "idle" /\ subRequest'[r] = req
           /\ \A q \in Requests \ {r} : subRequest'[q] = subRequest[q]
  <1>1. /\ subRequest' = [subRequest EXCEPT ![r] = req] /\ subRequest[r].pc = "idle"
        /\ subOverlaps' = subOverlaps \cup {{req.op, subRequest[q].op} : q \in {q \in Requests : subRequest[q].pc # "idle"}}
    BY DEF F!Begin, F!Busy
  <1>2. subRequest = [q \in Requests |-> subRequest[q]]
    BY DEF F!WritesOK
  <1>3. subRequest'[r] = req /\ \A q \in Requests \ {r} : subRequest'[q] = subRequest[q]
    BY <1>1, <1>2
  <1>4. subRequest' = [q \in Requests |-> subRequest'[q]]
    BY <1>1, <1>2
  <1>5. subWrites' \in 0..MaxPlanWrites
    <2>1. subWrites \in 0..MaxPlanWrites
      BY DEF F!TypeOK
    <2>2. subWrites < MaxPlanWrites /\ subWrites' = subWrites + 1
      BY DEF F!Begin
    <2> QED
      BY <2>1, <2>2, SubNumbers
  <1>6. F!WritesOK'
    <2> USE DEF F!WritesOK
    <2>1. ASSUME NEW q \in Requests
          PROVE  /\ subRequest'[q].pc \in {"idle", "subscribe", "event", "edit", "insert plan", "save plan", "delete plan"}
                 /\ subRequest'[q].pc = "subscribe" => subRequest'[q].op = "subscribe" /\ subRequest'[q].slug \in Slugs
                 /\ subRequest'[q].pc = "event" =>
                        /\ subRequest'[q].op = "event" /\ subRequest'[q].read \in F!Row
                        /\ \E status \in F!Statuses : subRequest'[q].patch = <<"status", status>>
                 /\ subRequest'[q].pc = "edit" =>
                        subRequest'[q].op = "edit" /\ subRequest'[q].read \in F!Row /\ subRequest'[q].patch \in F!Patches
                 /\ subRequest'[q].pc = "insert plan" =>
                        subRequest'[q].op = "create plan" /\ subRequest'[q].slug \in Slugs /\ subRequest'[q].patch \in F!Plans
                 /\ subRequest'[q].pc = "save plan" =>
                        /\ subRequest'[q].op = "update plan" /\ subRequest'[q].patch \in F!Plans
                        /\ subRequest'[q].slug \in Slugs /\ subRequest'[q].to \in Slugs
                 /\ subRequest'[q].pc = "delete plan" => subRequest'[q].op = "delete plan" /\ subRequest'[q].slug \in Slugs
      <3>1. CASE q # r
        BY <1>3, <3>1
      <3>2. CASE q = r
        <4>1. subRow \in F!Row
          BY DEF F!TypeOK
        <4> QED
          BY <1>3, <3>2, <4>1 DEF SubRequest
      <3> QED
        BY <3>1, <3>2
    <2> QED
      BY <1>4, <2>1
  <1>7. ASSUME NEW p \in Requests, NEW q \in Requests, p # q,
               subRequest'[p].pc # "idle", subRequest'[q].pc # "idle"
        PROVE  {subRequest'[p].op, subRequest'[q].op} \in subOverlaps'
    <2>1. CASE p = r
      BY <1>1, <1>3, <1>7, <2>1
    <2>2. CASE q = r
      <3>1. {req.op, subRequest[p].op} \in subOverlaps'
        BY <1>1, <1>3, <1>7, <2>2
      <3> QED
        BY <1>3, <1>7, <2>2, <3>1
    <2>3. CASE p # r /\ q # r
      BY <1>1, <1>3, <1>7, <2>3 DEF F!PairsSeen
    <2> QED
      BY <2>1, <2>2, <2>3
  <1>8. F!PairsSeen'
    BY <1>7 DEF F!PairsSeen
  <1> QED
    BY <1>1, <1>3, <1>5, <1>6, <1>8

\* What F!WritesOK says of each write.
SubWriteOK(u) ==
    /\ u.pc \in {"idle", "subscribe", "event", "edit", "insert plan", "save plan", "delete plan"}
    /\ u.pc = "subscribe" => u.op = "subscribe" /\ u.slug \in Slugs
    /\ u.pc = "event" =>
           /\ u.op = "event" /\ u.read \in F!Row
           /\ \E status \in F!Statuses : u.patch = <<"status", status>>
    /\ u.pc = "edit" => u.op = "edit" /\ u.read \in F!Row /\ u.patch \in F!Patches
    /\ u.pc = "insert plan" => u.op = "create plan" /\ u.slug \in Slugs /\ u.patch \in F!Plans
    /\ u.pc = "save plan" =>
           /\ u.op = "update plan" /\ u.patch \in F!Plans
           /\ u.slug \in Slugs /\ u.to \in Slugs
    /\ u.pc = "delete plan" => u.op = "delete plan" /\ u.slug \in Slugs

LEMMA SubWritesEach ==
    /\ F!WritesOK <=> /\ subRequest = [q \in Requests |-> subRequest[q]]
                      /\ \A q \in Requests : SubWriteOK(subRequest[q])
    /\ F!WritesOK' <=> /\ subRequest' = [q \in Requests |-> subRequest'[q]]
                       /\ \A q \in Requests : SubWriteOK(subRequest'[q])
  <1>1. F!WritesOK <=> /\ subRequest = [q \in Requests |-> subRequest[q]]
                      /\ \A q \in Requests : SubWriteOK(subRequest[q])
    BY DEF F!WritesOK, SubWriteOK
  <1>2. F!WritesOK' <=> /\ subRequest' = [q \in Requests |-> subRequest'[q]]
                       /\ \A q \in Requests : SubWriteOK(subRequest'[q])
    BY DEF F!WritesOK, SubWriteOK
  <1> QED
    BY <1>1, <1>2

LEMMA SubWriteAside == ASSUME NEW u, u.pc = "idle" PROVE SubWriteOK(u)
  BY DEF SubWriteOK

\* A write that is done leaves the others as they are.
LEMMA SubDone ==
    ASSUME F!WritesOK, F!PairsSeen, NEW r \in Requests, F!Done(r), subOverlaps' = subOverlaps
    PROVE  /\ F!WritesOK' /\ F!PairsSeen' /\ subRequest'[r].pc = "idle"
           /\ \A q \in Requests \ {r} : subRequest'[q] = subRequest[q]
  <1>1. subRequest' = [subRequest EXCEPT ![r] = F!NoRequest] /\ subRequest = [q \in Requests |-> subRequest[q]]
    BY DEF F!Done, F!WritesOK
  <1>2. /\ subRequest'[r].pc = "idle" /\ \A q \in Requests \ {r} : subRequest'[q] = subRequest[q]
        /\ subRequest' = [q \in Requests |-> subRequest'[q]]
    BY <1>1, SubIdle
  <1>3. F!WritesOK'
    <2>1. subRequest' = [q \in Requests |-> subRequest'[q]]
      BY <1>2
    <2>2. \A q \in Requests : subRequest'[q].pc = "idle" \/ subRequest'[q] = subRequest[q]
      BY <1>2
    <2>3. \A q \in Requests : SubWriteOK(subRequest[q])
      BY SubWritesEach
    <2>4. \A q \in Requests : SubWriteOK(subRequest'[q])
      BY <2>2, <2>3, SubWriteAside
    <2> QED
      BY <2>1, <2>4, SubWritesEach
  <1>4. F!PairsSeen'
    BY <1>2 DEF F!PairsSeen
  <1> QED
    BY <1>2, <1>3, <1>4

-----------------------------------------------------------------------------
(* The plans: the age of what the guard reads and of what the process keeps. *)

LEMMA SubTyped ==
    ASSUME F!TypeOK
    PROVE  /\ subGuard.pc \in {"idle", "set", "plan"} /\ subGuard.at \in Nat /\ subGuard.row \in Nat
           /\ subGuard.plan \in Slugs \cup {None}
           /\ subEntry # None => /\ subEntry \in F!Entry /\ subEntry.row \in Nat /\ subEntry.plans \in Nat /\ subEntry.until \in Nat
                                 /\ subEntry.status \in F!Statuses /\ subEntry.features \subseteq {F!Feature}
           /\ subRow \in F!Row /\ subRow.status \in F!Statuses /\ subRow.plan \in Slugs \cup {None}
           /\ \A s \in Slugs : subPlans[s] \in F!Plans \cup {None}
  <1>1. subGuard \in [pc : {"idle", "set", "plan"}, status : F!Statuses \cup {""}, plan : Slugs \cup {None},
                      row : Nat, plans : Nat, at : Nat]
    BY DEF F!TypeOK
  <1>2. subRow \in F!Row /\ subEntry \in F!Entry \cup {None} /\ \A s \in Slugs : subPlans[s] \in F!Plans \cup {None}
    BY DEF F!TypeOK
  <1>3. subEntry # None => /\ subEntry \in F!Entry /\ subEntry.row \in Nat /\ subEntry.plans \in Nat /\ subEntry.until \in Nat
                           /\ subEntry.status \in F!Statuses /\ subEntry.features \subseteq {F!Feature}
    BY <1>2 DEF F!Entry
  <1>4. subRow.status \in F!Statuses /\ subRow.plan \in Slugs \cup {None}
    BY <1>2 DEF F!Row
  <1> QED
    BY <1>1, <1>2, <1>3, <1>4

\* The row and the plans as a step may leave them: as they are, or a version later.
SubRowMoves ==
    \/ subRow' = subRow /\ subRowEnded' = subRowEnded
    \/ subRow' # subRow /\ subRowEnded' = Append(subRowEnded, subNow)
SubPlansMove ==
    \/ subPlans' = subPlans /\ subPlansEnded' = subPlansEnded
    \/ subPlans' # subPlans /\ subPlansEnded' = Append(subPlansEnded, subNow)

LEMMA SubMoved ==
    ASSUME F!TypeOK, SubRowMoves, SubPlansMove
    PROVE  /\ subRowEnded' \in Seq(Nat) /\ subPlansEnded' \in Seq(Nat)
           /\ Len(subRowEnded) \in Nat /\ Len(subPlansEnded) \in Nat
           /\ \A v \in 1..Len(subRowEnded) : v \in 1..Len(subRowEnded') /\ subRowEnded'[v] = subRowEnded[v]
           /\ \A v \in 1..Len(subPlansEnded) : v \in 1..Len(subPlansEnded') /\ subPlansEnded'[v] = subPlansEnded[v]
           /\ \/ subRow' = subRow /\ Len(subRowEnded') = Len(subRowEnded)
              \/ Len(subRowEnded') = Len(subRowEnded) + 1 /\ subRowEnded'[Len(subRowEnded) + 1] = subNow
           /\ \/ subPlans' = subPlans /\ Len(subPlansEnded') = Len(subPlansEnded)
              \/ Len(subPlansEnded') = Len(subPlansEnded) + 1 /\ subPlansEnded'[Len(subPlansEnded) + 1] = subNow
  <1>1. subRowEnded \in Seq(Nat) /\ subPlansEnded \in Seq(Nat) /\ subNow \in Nat
    BY SubVersions DEF F!TypeOK
  <1>2. /\ subRowEnded' \in Seq(Nat) /\ Len(subRowEnded) \in Nat
        /\ \A v \in 1..Len(subRowEnded) : v \in 1..Len(subRowEnded') /\ subRowEnded'[v] = subRowEnded[v]
        /\ \/ subRow' = subRow /\ Len(subRowEnded') = Len(subRowEnded)
           \/ Len(subRowEnded') = Len(subRowEnded) + 1 /\ subRowEnded'[Len(subRowEnded) + 1] = subNow
    <2>1. CASE subRow' = subRow /\ subRowEnded' = subRowEnded
      BY <1>1, <2>1, LenProperties
    <2>2. CASE subRowEnded' = Append(subRowEnded, subNow)
      BY <1>1, <2>2, SubAppended
    <2> QED
      BY <2>1, <2>2 DEF SubRowMoves
  <1>3. /\ subPlansEnded' \in Seq(Nat) /\ Len(subPlansEnded) \in Nat
        /\ \A v \in 1..Len(subPlansEnded) : v \in 1..Len(subPlansEnded') /\ subPlansEnded'[v] = subPlansEnded[v]
        /\ \/ subPlans' = subPlans /\ Len(subPlansEnded') = Len(subPlansEnded)
           \/ Len(subPlansEnded') = Len(subPlansEnded) + 1 /\ subPlansEnded'[Len(subPlansEnded) + 1] = subNow
    <2>1. CASE subPlans' = subPlans /\ subPlansEnded' = subPlansEnded
      BY <1>1, <2>1, LenProperties
    <2>2. CASE subPlansEnded' = Append(subPlansEnded, subNow)
      BY <1>1, <2>2, SubAppended
    <2> QED
      BY <2>1, <2>2 DEF SubPlansMove
  <1> QED
    BY <1>2, <1>3

LEMMA SubGuardAges ==
    ASSUME F!TypeOK, F!GuardOK, SubRowMoves, SubPlansMove, UNCHANGED <<subGuard, subNow>>
    PROVE  F!GuardOK'
  <1> SUFFICES ASSUME subGuard.pc # "idle" PROVE F!GuardOK'
    BY DEF F!GuardOK
  <1> DEFINE n == Len(subRowEnded)
             m == Len(subRowEnded')
  <1>1. /\ subGuard.at <= subNow /\ subNow <= subGuard.at + MaxFetch
        /\ subGuard.status \in F!Statuses
        /\ IF subGuard.pc = "plan" THEN subGuard.status # "trial" /\ subGuard.plan \in Slugs
           ELSE subGuard.status = "trial" \/ subGuard.plan = None
    BY DEF F!GuardOK
  <1>2. \/ subGuard.row = n + 1 /\ subGuard.status = subRow.status /\ subGuard.plan = subRow.plan
        \/ subGuard.row \in 1..n /\ subGuard.at <= subRowEnded[subGuard.row]
    BY DEF F!GuardOK, F!RowVersion
  <1>3. \/ subGuard.row = m + 1 /\ subGuard.status = subRow'.status /\ subGuard.plan = subRow'.plan
        \/ subGuard.row \in 1..m /\ subGuard.at <= subRowEnded'[subGuard.row]
    <2>1. CASE subGuard.row \in 1..n /\ subGuard.at <= subRowEnded[subGuard.row]
      BY <2>1, SubMoved
    <2>2. CASE subGuard.row = n + 1 /\ subGuard.status = subRow.status /\ subGuard.plan = subRow.plan
      <3>1. CASE subRow' = subRow /\ m = n
        BY <2>2, <3>1
      <3>2. CASE m = n + 1 /\ subRowEnded'[n + 1] = subNow
        <4>1. n + 1 \in 1..m
          BY <3>2, SubMoved
        <4> QED
          BY <1>1, <2>2, <3>2, <4>1
      <3> QED
        BY <3>1, <3>2, SubMoved
    <2> QED
      BY <1>2, <2>1, <2>2
  <1> QED
    BY <1>1, <1>3 DEF F!GuardOK, F!RowVersion

\* What an entry says of the row and of the plans, of the versions given.
SubEntryOfRow(e, row, plans, ended, plansEnded, now) ==
    \/ /\ e.row = Len(ended) + 1 /\ e.until <= now + TTL /\ e.status = row.status
       /\ e.plans = 0 => e.features = {} /\ (row.status = "trial" \/ row.plan = None)
       /\ e.plans > 0 => row.status # "trial" /\ row.plan \in Slugs
       /\ e.plans = Len(plansEnded) + 1 =>
              e.features = IF plans[row.plan] = None THEN {} ELSE plans[row.plan].features
    \/ e.row \in 1..Len(ended) /\ e.until <= ended[e.row] + TTL + MaxFetch
SubEntryOfPlans(e, plansEnded, now) ==
    \/ e.plans = 0
    \/ e.plans = Len(plansEnded) + 1 /\ e.until <= now + TTL
    \/ e.plans \in 1..Len(plansEnded) /\ e.until <= plansEnded[e.plans] + TTL

LEMMA SubEntryForms ==
    /\ F!EntryOK <=> (subEntry # None => /\ SubEntryOfRow(subEntry, subRow, subPlans, subRowEnded, subPlansEnded, subNow)
                                         /\ SubEntryOfPlans(subEntry, subPlansEnded, subNow))
    /\ F!EntryOK' <=> (subEntry' # None =>
                          /\ SubEntryOfRow(subEntry', subRow', subPlans', subRowEnded', subPlansEnded', subNow')
                          /\ SubEntryOfPlans(subEntry', subPlansEnded', subNow'))
  <1>1. F!EntryOK <=> (subEntry # None => /\ SubEntryOfRow(subEntry, subRow, subPlans, subRowEnded, subPlansEnded, subNow)
                                          /\ SubEntryOfPlans(subEntry, subPlansEnded, subNow))
    BY DEF F!EntryOK, F!RowVersion, F!PlansVersion, F!FeaturesOf, SubEntryOfRow, SubEntryOfPlans
  <1>2. F!EntryOK' <=> (subEntry' # None =>
                          /\ SubEntryOfRow(subEntry', subRow', subPlans', subRowEnded', subPlansEnded', subNow')
                          /\ SubEntryOfPlans(subEntry', subPlansEnded', subNow'))
    BY DEF F!EntryOK, F!RowVersion, F!PlansVersion, F!FeaturesOf, SubEntryOfRow, SubEntryOfPlans
  <1> QED
    BY <1>1, <1>2

LEMMA SubEntryAges ==
    ASSUME F!TypeOK, F!EntryOK, SubRowMoves, SubPlansMove, UNCHANGED <<subEntry, subNow>>
    PROVE  F!EntryOK'
  <1> SUFFICES ASSUME subEntry # None
               PROVE  /\ SubEntryOfRow(subEntry, subRow', subPlans', subRowEnded', subPlansEnded', subNow)
                      /\ SubEntryOfPlans(subEntry, subPlansEnded', subNow)
    BY SubEntryForms
  <1> DEFINE e == subEntry
             n == Len(subRowEnded)
             m == Len(subRowEnded')
             i == Len(subPlansEnded)
             j == Len(subPlansEnded')
  <1>1. e.row \in Nat /\ e.plans \in Nat /\ e.until \in Nat /\ subNow \in Nat /\ n \in Nat /\ i \in Nat
    BY SubTyped, SubVersions
  <1>2. SubEntryOfRow(e, subRow, subPlans, subRowEnded, subPlansEnded, subNow) /\ SubEntryOfPlans(e, subPlansEnded, subNow)
    BY SubEntryForms
  <1>3. e.plans <= i + 1
    BY <1>1, <1>2 DEF SubEntryOfPlans
  <1>4. SubEntryOfPlans(e, subPlansEnded', subNow)
    <2>1. CASE e.plans = 0
      BY <2>1 DEF SubEntryOfPlans
    <2>2. CASE e.plans \in 1..i /\ e.until <= subPlansEnded[e.plans] + TTL
      BY <2>2, SubMoved DEF SubEntryOfPlans
    <2>3. CASE e.plans = i + 1 /\ e.until <= subNow + TTL
      <3>1. CASE j = i
        BY <2>3, <3>1 DEF SubEntryOfPlans
      <3>2. CASE j = i + 1 /\ subPlansEnded'[i + 1] = subNow
        <4>1. i + 1 \in 1..j
          BY <1>1, <3>2
        <4> QED
          BY <2>3, <3>2, <4>1 DEF SubEntryOfPlans
      <3> QED
        BY <3>1, <3>2, SubMoved
    <2> QED
      BY <1>2, <2>1, <2>2, <2>3 DEF SubEntryOfPlans
  <1>5. SubEntryOfRow(e, subRow', subPlans', subRowEnded', subPlansEnded', subNow)
    <2>1. CASE e.row \in 1..n /\ e.until <= subRowEnded[e.row] + TTL + MaxFetch
      BY <2>1, SubMoved DEF SubEntryOfRow
    <2>2. CASE /\ e.row = n + 1 /\ e.until <= subNow + TTL /\ e.status = subRow.status
               /\ e.plans = 0 => e.features = {} /\ (subRow.status = "trial" \/ subRow.plan = None)
               /\ e.plans > 0 => subRow.status # "trial" /\ subRow.plan \in Slugs
               /\ e.plans = i + 1 =>
                     e.features = IF subPlans[subRow.plan] = None THEN {} ELSE subPlans[subRow.plan].features
      <3>1. CASE subRow' = subRow /\ m = n
        <4>1. CASE subPlans' = subPlans /\ j = i
          BY <2>2, <3>1, <4>1 DEF SubEntryOfRow
        <4>2. CASE j = i + 1
          <5>1. e.plans # j + 1
            BY <1>1, <1>3, <4>2
          <5> QED
            BY <2>2, <3>1, <5>1 DEF SubEntryOfRow
        <4> QED
          BY <4>1, <4>2, SubMoved
      <3>2. CASE m = n + 1 /\ subRowEnded'[n + 1] = subNow
        <4>1. n + 1 \in 1..m
          BY <1>1, <3>2
        <4>2. e.until <= subNow + TTL + MaxFetch
          BY <1>1, <2>2, SubNumbers
        <4> QED
          BY <2>2, <3>2, <4>1, <4>2 DEF SubEntryOfRow
      <3> QED
        BY <3>1, <3>2, SubMoved
    <2> QED
      BY <1>2, <2>1, <2>2 DEF SubEntryOfRow
  <1> QED
    BY <1>4, <1>5

\* What the guard's steps leave as it is.
SubDb == <<subRow, subPlans, subRowEnded, subPlansEnded, subLast, subRenamed>>

LEMMA SubAnswered ==
    ASSUME F!TypeOK, NEW e, e.row \in Nat, e.plans \in Nat, F!Answer(e)
    PROVE  /\ subAnswer' \in [allowed : BOOLEAN, row : Nat, plans : Nat, at : Nat, fresh : BOOLEAN]
           /\ subAnswer'.row = e.row /\ subAnswer'.plans = e.plans /\ subAnswer'.at = subNow
           /\ subAnswer'.allowed <=> (e.status = "trial" \/ F!Feature \in e.features)
           /\ subAnswer'.fresh <=> (e.row = F!RowVersion /\ e.plans \in {0, F!PlansVersion})
  <1>1. subNow \in Nat
    BY SubVersions
  <1> DEFINE a == F!Allowed(e.status, e.features)
             f == (e.row = F!RowVersion /\ e.plans \in {0, F!PlansVersion})
  <1>2. subAnswer' = [allowed |-> a, row |-> e.row, plans |-> e.plans, at |-> subNow, fresh |-> f]
    BY DEF F!Answer
  <1>3. a \in BOOLEAN /\ f \in BOOLEAN
    BY DEF F!Allowed
  <1>4. a <=> (e.status = "trial" \/ F!Feature \in e.features)
    BY DEF F!Allowed
  <1> HIDE DEF a, f
  <1>5. subAnswer' \in [allowed : BOOLEAN, row : Nat, plans : Nat, at : Nat, fresh : BOOLEAN]
    BY <1>1, <1>2, <1>3
  <1>6. subAnswer'.allowed = a /\ subAnswer'.fresh = f
    BY <1>2
  <1>7. subAnswer'.row = e.row /\ subAnswer'.plans = e.plans /\ subAnswer'.at = subNow
    BY <1>2
  <1> QED
    BY <1>3, <1>4, <1>5, <1>6, <1>7 DEF f

LEMMA SubSameEntry ==
    ASSUME F!EntryOK, UNCHANGED <<subEntry, SubDb>>, subNow' = subNow
    PROVE  F!EntryOK'
  BY SubEntryForms DEF SubDb

LEMMA SubChecked ==
    ASSUME F!TypeOK, F!GuardOK, F!EntryOK, F!Check
    PROVE  /\ F!TypeOK' /\ F!GuardOK' /\ F!EntryOK' /\ UNCHANGED <<SubDb, subRequest, subOverlaps, subNow>>
           /\ \/ UNCHANGED subAnswer
              \/ subEntry # None /\ subNow < subEntry.until /\ F!Answer(subEntry)
  <1>1. UNCHANGED <<SubDb, subEntry, subRequest, subOverlaps, subNow, subWrites>>
    BY DEF F!Check, F!db, SubDb
  <1>2. subChecks' \in 0..MaxReads
    <2>1. subChecks \in 0..MaxReads
      BY DEF F!TypeOK
    <2>2. subChecks < MaxReads /\ subChecks' = subChecks + 1
      BY DEF F!Check
    <2> QED
      BY <2>1, <2>2, SubNumbers
  <1>3. F!EntryOK'
    BY <1>1, SubSameEntry
  <1>4. CASE subEntry # None /\ subNow < subEntry.until
    <2>1. F!Answer(subEntry) /\ UNCHANGED subGuard
      BY <1>4 DEF F!Check
    <2>2. subAnswer' \in [allowed : BOOLEAN, row : Nat, plans : Nat, at : Nat, fresh : BOOLEAN]
      BY <1>4, <2>1, SubTyped, SubAnswered
    <2>3. F!TypeOK'
      BY <1>1, <1>2, <2>1, <2>2 DEF F!TypeOK, SubDb
    <2>4. F!GuardOK'
      BY <1>1, <2>1 DEF F!GuardOK, F!RowVersion, SubDb
    <2> QED
      BY <1>1, <1>3, <1>4, <2>1, <2>3, <2>4
  <1>5. CASE ~(subEntry # None /\ subNow < subEntry.until)
    <2> DEFINE pc == IF subRow.status = "trial" \/ subRow.plan = None THEN "set" ELSE "plan"
    <2>1. subGuard' = [F!NoCheck EXCEPT !.pc = pc, !.status = subRow.status, !.plan = subRow.plan,
                          !.row = F!RowVersion, !.at = subNow]
          /\ UNCHANGED subAnswer
      BY <1>5 DEF F!Check
    <2>2. /\ pc \in {"set", "plan"}
          /\ IF pc = "plan" THEN subRow.status # "trial" /\ subRow.plan \in Slugs
             ELSE subRow.status = "trial" \/ subRow.plan = None
      BY SubTyped
    <2> HIDE DEF pc
    <2>3. subGuard' = [pc |-> pc, status |-> subRow.status, plan |-> subRow.plan, row |-> F!RowVersion,
                       plans |-> 0, at |-> subNow]
      BY <2>1 DEF F!NoCheck
    <2>4. F!RowVersion \in Nat /\ subNow \in Nat /\ F!RowVersion = Len(subRowEnded) + 1
      BY SubVersions
    <2>5. subGuard' \in [pc : {"idle", "set", "plan"}, status : F!Statuses \cup {""}, plan : Slugs \cup {None},
                         row : Nat, plans : Nat, at : Nat]
      BY <2>2, <2>3, <2>4, SubTyped
    <2>6. F!TypeOK'
      BY <1>1, <1>2, <2>1, <2>5 DEF F!TypeOK, SubDb
    <2>7. /\ subGuard'.pc = pc /\ subGuard'.status = subRow.status /\ subGuard'.plan = subRow.plan
          /\ subGuard'.row = Len(subRowEnded) + 1 /\ subGuard'.at = subNow /\ subNow <= subNow + MaxFetch
      BY <2>3, <2>4, SubNumbers
    <2>8. F!GuardOK'
      BY <1>1, <2>2, <2>4, <2>7, SubTyped DEF F!GuardOK, F!RowVersion, SubDb
    <2> QED
      BY <1>1, <1>3, <2>1, <2>6, <2>8
  <1> QED
    BY <1>4, <1>5

LEMMA SubRemembered ==
    ASSUME F!TypeOK, F!GuardOK, F!SetUnread \/ F!ReadPlan
    PROVE  /\ F!TypeOK' /\ F!GuardOK' /\ F!EntryOK' /\ UNCHANGED <<SubDb, subRequest, subOverlaps, subNow>>
           /\ subEntry' # None /\ subEntry' \in F!Entry /\ subNow <= subEntry'.until
           /\ subEntry'.until <= subNow + TTL /\ F!Answer(subEntry')
  <1>1. PICK features, version :
           /\ F!Remember(features, version) /\ subGuard.pc # "idle"
           /\ \/ features = {} /\ version = 0 /\ subGuard.pc = "set"
              \/ features = F!FeaturesOf(subGuard.plan) /\ version = F!PlansVersion /\ subGuard.pc = "plan"
    <2>1. CASE F!SetUnread
      BY <2>1 DEF F!SetUnread
    <2>2. CASE F!ReadPlan
      BY <2>2 DEF F!ReadPlan, F!FeaturesOf
    <2> QED
      BY <2>1, <2>2
  <1> DEFINE n == Len(subRowEnded)
             i == Len(subPlansEnded)
  <1>2. /\ subGuard.at <= subNow /\ subNow <= subGuard.at + MaxFetch /\ subGuard.status \in F!Statuses
        /\ IF subGuard.pc = "plan" THEN subGuard.status # "trial" /\ subGuard.plan \in Slugs
           ELSE subGuard.status = "trial" \/ subGuard.plan = None
        /\ \/ subGuard.row = n + 1 /\ subGuard.status = subRow.status /\ subGuard.plan = subRow.plan
           \/ subGuard.row \in 1..n /\ subGuard.at <= subRowEnded[subGuard.row]
    BY <1>1 DEF F!GuardOK, F!RowVersion
  <1>3. /\ n \in Nat /\ i \in Nat /\ subNow \in Nat /\ TTL \in Nat /\ MaxFetch \in Nat /\ subGuard.at \in Nat
        /\ subGuard.row \in Nat /\ F!PlansVersion = i + 1 /\ \A v \in 1..n : subRowEnded[v] \in Nat
    BY SubVersions, SubNumbers, SubTyped
  <1>4. features \subseteq {F!Feature} /\ version \in Nat
    <2>1. CASE subGuard.pc = "set"
      BY <1>1, <2>1
    <2>2. CASE subGuard.pc = "plan"
      <3>1. subPlans[subGuard.plan] \in F!Plans \cup {None}
        BY <1>2, <2>2, SubTyped
      <3>2. \A p \in F!Plans : p.features \subseteq {F!Feature}
        BY DEF F!Plans, F!Plan
      <3> QED
        BY <1>1, <1>3, <2>2, <3>1, <3>2 DEF F!FeaturesOf
    <2> QED
      BY <1>1, <2>1, <2>2
  <1>5. /\ subEntry' = [status |-> subGuard.status, features |-> features, row |-> subGuard.row, plans |-> version,
                        until |-> subNow + TTL]
        /\ F!Answer([status |-> subGuard.status, features |-> features, row |-> subGuard.row, plans |-> version])
        /\ subGuard' = F!NoCheck /\ UNCHANGED <<SubDb, subRequest, subOverlaps, subNow, subChecks, subWrites>>
    BY <1>1 DEF F!Remember, F!db, F!counts, SubDb
  <1>6. subEntry' \in F!Entry
    BY <1>2, <1>3, <1>4, <1>5 DEF F!Entry
  <1>7. /\ subEntry' # None /\ subEntry'.status = subGuard.status /\ subEntry'.features = features
        /\ subEntry'.row = subGuard.row /\ subEntry'.plans = version /\ subEntry'.until = subNow + TTL
    BY <1>5, <1>6, SubNumbers
  <1>8. F!Answer(subEntry')
    BY <1>5 DEF F!Answer
  <1>9. subAnswer' \in [allowed : BOOLEAN, row : Nat, plans : Nat, at : Nat, fresh : BOOLEAN]
    BY <1>3, <1>4, <1>7, <1>8, SubAnswered
  <1>10. F!TypeOK'
    <2>1. subGuard' \in [pc : {"idle", "set", "plan"}, status : F!Statuses \cup {""}, plan : Slugs \cup {None},
                         row : Nat, plans : Nat, at : Nat]
      BY <1>5 DEF F!NoCheck
    <2> QED
      BY <1>5, <1>6, <1>9, <2>1 DEF F!TypeOK, SubDb
  <1>11. F!GuardOK'
    BY <1>5, SubIdle DEF F!GuardOK
  <1>12. SubEntryOfPlans(subEntry', subPlansEnded, subNow)
    BY <1>1, <1>3, <1>7 DEF SubEntryOfPlans
  <1>13. SubEntryOfRow(subEntry', subRow, subPlans, subRowEnded, subPlansEnded, subNow)
    <2>1. CASE subGuard.row = n + 1 /\ subGuard.status = subRow.status /\ subGuard.plan = subRow.plan
      <3>1. CASE features = {} /\ version = 0 /\ subGuard.pc = "set"
        BY <1>2, <1>3, <1>7, <2>1, <3>1 DEF SubEntryOfRow
      <3>2. CASE features = F!FeaturesOf(subGuard.plan) /\ version = F!PlansVersion /\ subGuard.pc = "plan"
        <4>1. version # 0 /\ features = IF subPlans[subRow.plan] = None THEN {} ELSE subPlans[subRow.plan].features
          BY <1>3, <2>1, <3>2 DEF F!FeaturesOf
        <4> QED
          BY <1>2, <1>3, <1>7, <2>1, <3>2, <4>1 DEF SubEntryOfRow
      <3> QED
        BY <1>1, <3>1, <3>2
    <2>2. CASE subGuard.row \in 1..n /\ subGuard.at <= subRowEnded[subGuard.row]
      <3>1. subNow + TTL <= subRowEnded[subGuard.row] + TTL + MaxFetch
        BY <1>2, <1>3, <2>2
      <3> QED
        BY <1>7, <2>2, <3>1 DEF SubEntryOfRow
    <2> QED
      BY <1>2, <2>1, <2>2
  <1>14. F!EntryOK'
    BY <1>5, <1>12, <1>13, SubEntryForms DEF SubDb
  <1>15. subNow <= subEntry'.until /\ subEntry'.until <= subNow + TTL
    BY <1>3, <1>7
  <1> QED
    BY <1>5, <1>6, <1>7, <1>8, <1>10, <1>11, <1>14, <1>15

LEMMA SubTicked ==
    ASSUME F!TypeOK, F!GuardOK, F!EntryOK, F!Tick
    PROVE  /\ F!TypeOK' /\ F!GuardOK' /\ F!EntryOK' /\ UNCHANGED <<SubDb, subRequest, subOverlaps, subAnswer>>
           /\ subNow' = subNow + 1
  <1>1. /\ UNCHANGED <<SubDb, subEntry, subRequest, subGuard, subAnswer, subOverlaps, subChecks, subWrites>>
        /\ subNow' = subNow + 1 /\ subNow < MaxTime
        /\ subGuard.pc # "idle" => subNow < subGuard.at + MaxFetch
    BY DEF F!Tick, F!db, SubDb
  <1>2. subNow \in Nat /\ subNow' \in 0..MaxTime /\ TTL \in Nat /\ MaxFetch \in Nat /\ subGuard.at \in Nat
    <2>1. subNow \in 0..MaxTime
      BY DEF F!TypeOK
    <2> QED
      BY <1>1, <2>1, SubNumbers, SubTyped
  <1>3. F!TypeOK'
    BY <1>1, <1>2 DEF F!TypeOK, SubDb
  <1>4. F!GuardOK'
    <2>1. subGuard.pc # "idle" => subGuard.at <= subNow' /\ subNow' <= subGuard.at + MaxFetch
      BY <1>1, <1>2 DEF F!GuardOK
    <2> QED
      BY <1>1, <2>1 DEF F!GuardOK, F!RowVersion, SubDb
  <1>5. F!EntryOK'
    <2> SUFFICES ASSUME subEntry # None
                 PROVE  /\ SubEntryOfRow(subEntry, subRow, subPlans, subRowEnded, subPlansEnded, subNow')
                        /\ SubEntryOfPlans(subEntry, subPlansEnded, subNow')
      BY <1>1, SubEntryForms DEF SubDb
    <2>1. subEntry.until \in Nat /\ (subEntry.until <= subNow + TTL => subEntry.until <= subNow' + TTL)
      BY <1>1, <1>2, SubTyped
    <2>2. /\ SubEntryOfRow(subEntry, subRow, subPlans, subRowEnded, subPlansEnded, subNow)
          /\ SubEntryOfPlans(subEntry, subPlansEnded, subNow)
      BY SubEntryForms
    <2> QED
      BY <2>1, <2>2 DEF SubEntryOfRow, SubEntryOfPlans
  <1> QED
    BY <1>1, <1>3, <1>4, <1>5

-----------------------------------------------------------------------------
(* The plans: the writes of the row and of the plans. *)

LEMMA SubEdited ==
    ASSUME NEW w \in F!Row, NEW patch \in F!Patches
    PROVE  /\ F!Edited(w, patch) \in F!Row
           /\ \/ F!Edited(w, patch).plan = w.plan
              \/ F!Edited(w, patch).plan = None
              \/ F!Edited(w, patch).plan \in Slugs /\ patch = <<"plan", F!Edited(w, patch).plan>>
  <1>1. CASE patch = <<>>
    BY <1>1 DEF F!Edited
  <1>2. CASE patch = <<"status", "active">>
    <2>1. patch # <<>> /\ patch[1] = "status" /\ patch[2] = "active"
      BY <1>2
    <2>2. F!Edited(w, patch) = [w EXCEPT !["status"] = "active"]
      BY <2>1 DEF F!Edited
    <2>3. [w EXCEPT !["status"] = "active"] \in F!Row
      BY DEF F!Row, F!Statuses
    <2>4. [w EXCEPT !["status"] = "active"].plan = w.plan
      BY DEF F!Row
    <2> QED
      BY <2>2, <2>3, <2>4
  <1>3. ASSUME NEW s \in Slugs \cup {None}, patch = <<"plan", s>>
        PROVE  F!Edited(w, patch) \in F!Row /\ F!Edited(w, patch).plan = s
    <2>1. patch # <<>> /\ patch[1] = "plan" /\ patch[2] = s
      BY <1>3
    <2>2. F!Edited(w, patch) = [w EXCEPT !["plan"] = s]
      BY <2>1 DEF F!Edited
    <2>3. [w EXCEPT !["plan"] = s] \in F!Row
      BY DEF F!Row
    <2>4. [w EXCEPT !["plan"] = s].plan = s
      BY DEF F!Row
    <2> QED
      BY <2>2, <2>3, <2>4
  <1>4. CASE \E s \in Slugs \cup {None} : patch = <<"plan", s>>
    <2>1. PICK s \in Slugs \cup {None} : patch = <<"plan", s>>
      BY <1>4
    <2>2. F!Edited(w, patch) \in F!Row /\ F!Edited(w, patch).plan = s
      BY <1>3, <2>1
    <2> QED
      BY <2>1, <2>2
  <1> QED
    BY <1>1, <1>2, <1>4 DEF F!Patches

SubWrittenBack(overlaps) == \E o \in overlaps : o \cap {"edit", "event"} # {}
SubCrossed(overlaps) == \E o \in overlaps : o \cap {"delete plan", "update plan", "edit"} # {}
SubKnown(plans, renamed, s) == plans[s] # None \/ s \in renamed
SubNamed(plans, renamed, row, request) ==
    /\ row.plan # None => SubKnown(plans, renamed, row.plan)
    /\ \A r \in Requests :
           /\ request[r].pc = "subscribe" => SubKnown(plans, renamed, request[r].slug)
           /\ request[r].pc \in {"edit", "event"} /\ request[r].read.plan # None
                  => SubKnown(plans, renamed, request[r].read.plan)
           /\ request[r].pc = "delete plan" => request[r].slug # row.plan
SubReadNow(row, last, request) ==
    row = last /\ \A r \in Requests : request[r].pc \in {"edit", "event"} => request[r].read = row

LEMMA SubForms ==
    /\ F!ReadsAlone <=> SubWrittenBack(subOverlaps) \/ SubReadNow(subRow, subLast, subRequest)
    /\ F!ReadsAlone' <=> SubWrittenBack(subOverlaps') \/ SubReadNow(subRow', subLast', subRequest')
    /\ F!PlansNamed <=> SubCrossed(subOverlaps) \/ SubNamed(subPlans, subRenamed, subRow, subRequest)
    /\ F!PlansNamed' <=> SubCrossed(subOverlaps') \/ SubNamed(subPlans', subRenamed', subRow', subRequest')
  <1>1. F!ReadsAlone <=> SubWrittenBack(subOverlaps) \/ SubReadNow(subRow, subLast, subRequest)
    BY DEF F!ReadsAlone, SubWrittenBack, SubReadNow
  <1>2. F!ReadsAlone' <=> SubWrittenBack(subOverlaps') \/ SubReadNow(subRow', subLast', subRequest')
    BY DEF F!ReadsAlone, SubWrittenBack, SubReadNow
  <1>3. F!PlansNamed <=> SubCrossed(subOverlaps) \/ SubNamed(subPlans, subRenamed, subRow, subRequest)
    BY DEF F!PlansNamed, F!Known, SubCrossed, SubNamed, SubKnown
  <1>4. F!PlansNamed' <=> SubCrossed(subOverlaps') \/ SubNamed(subPlans', subRenamed', subRow', subRequest')
    BY DEF F!PlansNamed, F!Known, SubCrossed, SubNamed, SubKnown
  <1> QED
    BY <1>1, <1>2, <1>3, <1>4

\* Two writes on their way have been seen to overlap.
LEMMA SubSeen ==
    ASSUME F!WritesOK, F!PairsSeen, NEW q \in Requests, NEW r \in Requests \ {q},
           subRequest[q].pc # "idle", subRequest[r].pc # "idle"
    PROVE  /\ subRequest[r].pc \in {"edit", "event"} => SubWrittenBack(subOverlaps)
           /\ subRequest[r].pc \in {"delete plan", "save plan", "edit"} => SubCrossed(subOverlaps)
  <1>1. {subRequest[q].op, subRequest[r].op} \in subOverlaps
    BY DEF F!PairsSeen
  <1>2. /\ subRequest[r].pc \in {"edit", "event"} => subRequest[r].op \in {"edit", "event"}
        /\ subRequest[r].pc \in {"delete plan", "save plan", "edit"} => subRequest[r].op \in {"delete plan", "update plan", "edit"}
    BY DEF F!WritesOK
  <1> DEFINE o == {subRequest[q].op, subRequest[r].op}
  <1>3. subRequest[r].op \in o
    OBVIOUS
  <1> HIDE DEF o
  <1>4. o \in subOverlaps
    BY <1>1 DEF o
  <1> QED
    BY <1>2, <1>3, <1>4 DEF SubWrittenBack, SubCrossed

\* The types and the guard, after any write.
LEMMA SubStill ==
    ASSUME F!TypeOK, F!GuardOK, F!EntryOK, UNCHANGED <<subEntry, subGuard, subAnswer, subNow, subChecks>>,
           subRow' \in F!Row, subLast' \in F!Row, subPlans' \in [Slugs -> F!Plans \cup {None}],
           subRenamed' \subseteq Slugs, subWrites' \in 0..MaxPlanWrites, SubRowMoves, SubPlansMove
    PROVE  F!TypeOK' /\ F!GuardOK' /\ F!EntryOK'
  <1>1. subRowEnded' \in Seq(Nat) /\ subPlansEnded' \in Seq(Nat)
    BY SubMoved
  <1>2. F!TypeOK'
    BY <1>1 DEF F!TypeOK
  <1>3. F!GuardOK' /\ F!EntryOK'
    BY SubGuardAges, SubEntryAges
  <1> QED
    BY <1>2, <1>3

SubAll == F!TypeOK /\ F!WritesOK /\ F!PairsSeen /\ F!ReadsAlone /\ F!PlansNamed /\ F!GuardOK /\ F!EntryOK

LEMMA SubBeginsAll ==
    ASSUME SubAll, NEW r \in Requests, SubReads(r)
    PROVE  SubAll'
  <1> USE DEF SubAll
  <1>1. PICK req : SubRequest(req) /\ F!Begin(r, req.op) /\ F!Busy(r, req) /\ UNCHANGED SubQuiet
    BY SubBegin
  <1>2. /\ F!WritesOK' /\ F!PairsSeen' /\ subWrites' \in 0..MaxPlanWrites
        /\ subOverlaps \subseteq subOverlaps' /\ subRequest[r].pc = "idle" /\ subRequest'[r] = req
        /\ \A q \in Requests \ {r} : subRequest'[q] = subRequest[q]
    BY <1>1, SubBegun
  <1>3. F!TypeOK' /\ F!GuardOK' /\ F!EntryOK'
    <2>1. /\ UNCHANGED <<subEntry, subGuard, subAnswer, subNow, subChecks>> /\ SubRowMoves /\ SubPlansMove
          /\ UNCHANGED <<subRow, subLast, subPlans, subRenamed>>
      BY <1>1 DEF SubQuiet, SubRowMoves, SubPlansMove
    <2>2. subRow \in F!Row /\ subLast \in F!Row /\ subPlans \in [Slugs -> F!Plans \cup {None}] /\ subRenamed \subseteq Slugs
      BY DEF F!TypeOK
    <2> QED
      BY <1>2, <2>1, <2>2, SubStill
  <1>4. F!ReadsAlone'
    <2>1. CASE SubWrittenBack(subOverlaps)
      BY <1>2, <2>1, SubForms DEF SubWrittenBack
    <2>2. CASE SubReadNow(subRow, subLast, subRequest)
      <3>1. req.pc \in {"edit", "event"} => req.read = subRow
        BY <1>1 DEF SubRequest
      <3>2. SubReadNow(subRow', subLast', subRequest')
        BY <1>1, <1>2, <2>2, <3>1 DEF SubReadNow, SubQuiet
      <3> QED
        BY <3>2, SubForms
    <2> QED
      BY <2>1, <2>2, SubForms
  <1>5. F!PlansNamed'
    <2>1. CASE SubCrossed(subOverlaps)
      BY <1>2, <2>1, SubForms DEF SubCrossed
    <2>2. CASE SubNamed(subPlans, subRenamed, subRow, subRequest)
      <3>1. /\ req.pc = "subscribe" => SubKnown(subPlans, subRenamed, req.slug)
            /\ req.pc \in {"edit", "event"} => req.read = subRow
            /\ req.pc = "delete plan" => req.slug # subRow.plan
        BY <1>1 DEF SubRequest, SubKnown
      <3>2. UNCHANGED <<subPlans, subRenamed, subRow>>
        BY <1>1 DEF SubQuiet
      <3>3. SubNamed(subPlans, subRenamed, subRow, subRequest')
        BY <1>2, <2>2, <3>1 DEF SubNamed
      <3> QED
        BY <3>2, <3>3, SubForms
    <2> QED
      BY <2>1, <2>2, SubForms
  <1> QED
    BY <1>2, <1>3, <1>4, <1>5

LEMMA SubRowWritten ==
    ASSUME NEW new, F!WriteRow(new)
    PROVE  SubRowMoves /\ subRow' = new
  BY DEF F!WriteRow, SubRowMoves

LEMMA SubPlansWritten ==
    ASSUME NEW new, F!WritePlans(new)
    PROVE  SubPlansMove /\ subPlans' = new
  BY DEF F!WritePlans, SubPlansMove

\* What a write that ends leaves as it is.
SubEnds(r) ==
    /\ subRequest[r].pc # "idle" /\ F!Done(r)
    /\ UNCHANGED <<subEntry, subGuard, subAnswer, subOverlaps, subNow, subChecks, subWrites>>

LEMMA SubEnded ==
    ASSUME SubAll, NEW r \in Requests, SubEnds(r),
           subRow' \in F!Row, subLast' \in F!Row, subPlans' \in [Slugs -> F!Plans \cup {None}],
           subRenamed' \subseteq Slugs, SubRowMoves, SubPlansMove,
           ~SubWrittenBack(subOverlaps) => subRow' = subLast',
           subRow' = subRow \/ \A q \in Requests \ {r} :
               subRequest[q].pc \in {"edit", "event"} => SubWrittenBack(subOverlaps),
           ~SubCrossed(subOverlaps) => SubNamed(subPlans', subRenamed', subRow', subRequest')
    PROVE  SubAll'
  <1> USE DEF SubAll, SubEnds
  <1>1. /\ F!WritesOK' /\ F!PairsSeen' /\ subRequest'[r].pc = "idle"
        /\ \A q \in Requests \ {r} : subRequest'[q] = subRequest[q]
    BY SubDone
  <1>2. F!TypeOK' /\ F!GuardOK' /\ F!EntryOK'
    <2>1. subWrites' \in 0..MaxPlanWrites
      BY DEF F!TypeOK
    <2> QED
      BY <2>1, SubStill
  <1>3. F!PlansNamed'
    BY SubForms
  <1>4. F!ReadsAlone'
    <2>1. CASE SubWrittenBack(subOverlaps)
      BY <2>1, SubForms
    <2>2. CASE ~SubWrittenBack(subOverlaps)
      <3>1. SubReadNow(subRow, subLast, subRequest)
        BY <2>2, SubForms
      <3>2. ASSUME NEW q \in Requests, subRequest'[q].pc \in {"edit", "event"}
            PROVE  subRequest'[q].read = subRow'
        BY <1>1, <2>2, <3>1, <3>2 DEF SubReadNow
      <3>3. SubReadNow(subRow', subLast', subRequest')
        BY <2>2, <3>2 DEF SubReadNow
      <3> QED
        BY <3>3, SubForms
    <2> QED
      BY <2>1, <2>2
  <1> QED
    BY <1>1, <1>2, <1>3, <1>4

\* The others that are on their way while one writes back, or while a plan is deleted.
LEMMA SubOthers ==
    ASSUME SubAll, NEW r \in Requests, subRequest[r].pc # "idle", NEW q \in Requests \ {r}
    PROVE  /\ subRequest[q].pc \in {"edit", "event"} => SubWrittenBack(subOverlaps)
           /\ subRequest[q].pc \in {"delete plan", "edit"} => SubCrossed(subOverlaps)
           /\ subRequest[r].pc \in {"delete plan", "edit"} /\ subRequest[q].pc # "idle" => SubCrossed(subOverlaps)
  <1> USE DEF SubAll
  <1>1. CASE subRequest[q].pc = "idle"
    BY <1>1
  <1>2. CASE subRequest[q].pc # "idle"
    <2>1. /\ subRequest[q].pc \in {"edit", "event"} => SubWrittenBack(subOverlaps)
          /\ subRequest[q].pc \in {"delete plan", "save plan", "edit"} => SubCrossed(subOverlaps)
      <3>1. q \in Requests \ {r} /\ r \in Requests
        OBVIOUS
      <3> QED
        BY <1>2, <3>1, SubSeen
    <2>2. subRequest[r].pc \in {"delete plan", "save plan", "edit"} => SubCrossed(subOverlaps)
      <3>1. r \in Requests \ {q} /\ q \in Requests
        OBVIOUS
      <3> QED
        BY <1>2, <3>1, SubSeen
    <2> QED
      BY <2>1, <2>2
  <1> QED
    BY <1>1, <1>2

LEMMA SubTypes ==
    ASSUME SubAll
    PROVE  /\ subRow \in F!Row /\ subLast \in F!Row /\ subPlans \in [Slugs -> F!Plans \cup {None}]
           /\ subRenamed \subseteq Slugs
  BY DEF SubAll, F!TypeOK

\* The requests that are left when one is done.
LEMMA SubLeft ==
    ASSUME SubAll, NEW r \in Requests, SubEnds(r), NEW q \in Requests, subRequest'[q].pc # "idle"
    PROVE  q # r /\ subRequest'[q] = subRequest[q]
  BY SubDone DEF SubAll, SubEnds

LEMMA SubSubscribed ==
    ASSUME SubAll, NEW r \in Requests, F!WriteSubscription(r)
    PROVE  SubAll'
  <1> DEFINE new == [status |-> "active", plan |-> subRequest[r].slug]
  <1>1. SubEnds(r) /\ F!WriteRow(new) /\ subLast' = subRow'
        /\ UNCHANGED <<subPlans, subPlansEnded, subRenamed>> /\ subRequest[r].pc = "subscribe"
    BY DEF F!WriteSubscription, SubEnds, F!counts
  <1>2. subRequest[r].slug \in Slugs
    BY <1>1 DEF SubAll, F!WritesOK
  <1>3. new \in F!Row /\ new.plan = subRequest[r].slug
    BY <1>2 DEF F!Row, F!Statuses
  <1> HIDE DEF new
  <1>4. SubRowMoves /\ subRow' = new /\ SubPlansMove
    BY <1>1, SubRowWritten DEF SubPlansMove
  <1>5. ASSUME ~SubCrossed(subOverlaps)
        PROVE  SubNamed(subPlans', subRenamed', subRow', subRequest')
    <2>1. SubNamed(subPlans, subRenamed, subRow, subRequest)
      BY <1>5, SubForms DEF SubAll
    <2>2. SubKnown(subPlans, subRenamed, subRow'.plan)
      BY <1>1, <1>3, <1>4, <2>1 DEF SubNamed
    <2>3. \A q \in Requests : subRequest'[q].pc # "delete plan"
      BY <1>1, <1>5, SubLeft, SubOthers
    <2> QED
      BY <1>1, <2>1, <2>2, <2>3, SubLeft DEF SubNamed
  <1> QED
    BY <1>1, <1>3, <1>4, <1>5, SubTypes, SubOthers, SubEnded

LEMMA SubEventWritten ==
    ASSUME SubAll, NEW r \in Requests, F!WriteEvent(r)
    PROVE  SubAll'
  <1> DEFINE status == subRequest[r].patch[2]
             plan == IF subRequest[r].read.plan = None THEN subRow.plan ELSE subRequest[r].read.plan
             new == [status |-> status, plan |-> plan]
  <1>1. SubEnds(r) /\ F!WriteRow(new) /\ subLast' = [subLast EXCEPT !.status = status]
        /\ UNCHANGED <<subPlans, subPlansEnded, subRenamed>> /\ subRequest[r].pc = "event"
    BY DEF F!WriteEvent, SubEnds, F!counts
  <1>2. subRequest[r].read \in F!Row /\ status \in F!Statuses
    <2>1. /\ subRequest[r].read \in F!Row
          /\ \E t \in F!Statuses : subRequest[r].patch = <<"status", t>>
      BY <1>1 DEF SubAll, F!WritesOK
    <2>2. PICK t \in F!Statuses : subRequest[r].patch = <<"status", t>>
      BY <2>1
    <2>3. subRequest[r].patch[2] = t
      BY <2>2
    <2> QED
      BY <2>1, <2>3
  <1>3. plan \in Slugs \cup {None}
    BY <1>2, SubTypes DEF F!Row
  <1>4. ~SubWrittenBack(subOverlaps) => subRow = subLast /\ plan = subRow.plan
    BY <1>1, SubForms DEF SubAll, SubReadNow
  <1> HIDE DEF plan, status
  <1>5. new \in F!Row /\ new.plan = plan /\ subLast' \in F!Row
    BY <1>1, <1>2, <1>3, SubTypes DEF F!Row
  <1>6. ~SubWrittenBack(subOverlaps) => new = subLast'
    BY <1>1, <1>4, SubTypes DEF F!Row
  <1> HIDE DEF new
  <1>7. SubRowMoves /\ subRow' = new /\ SubPlansMove
    BY <1>1, SubRowWritten DEF SubPlansMove
  <1>8. ASSUME ~SubCrossed(subOverlaps)
        PROVE  SubNamed(subPlans', subRenamed', subRow', subRequest')
    <2>1. SubNamed(subPlans, subRenamed, subRow, subRequest)
      BY <1>8, SubForms DEF SubAll
    <2>2. plan # None => SubKnown(subPlans, subRenamed, plan)
      BY <1>1, <2>1 DEF SubNamed, plan
    <2>3. \A q \in Requests : subRequest'[q].pc # "delete plan"
      BY <1>1, <1>8, SubLeft, SubOthers
    <2> QED
      BY <1>1, <1>5, <1>7, <2>1, <2>2, <2>3, SubLeft DEF SubNamed
  <1> QED
    BY <1>1, <1>5, <1>6, <1>7, <1>8, SubTypes, SubOthers, SubEnded

LEMMA SubEditSaved ==
    ASSUME SubAll, NEW r \in Requests, F!SaveEdit(r)
    PROVE  SubAll'
  <1> DEFINE read == subRequest[r].read
             patch == subRequest[r].patch
             new == F!Edited(read, patch)
  <1>1. SubEnds(r) /\ F!WriteRow(new) /\ subLast' = F!Edited(subLast, patch)
        /\ subRenamed' = subRenamed \cup {s \in Slugs : patch = <<"plan", s>>}
        /\ UNCHANGED <<subPlans, subPlansEnded>> /\ subRequest[r].pc = "edit"
    BY DEF F!SaveEdit, SubEnds, F!counts
  <1>2. read \in F!Row /\ patch \in F!Patches
    BY <1>1 DEF SubAll, F!WritesOK
  <1>3. ~SubWrittenBack(subOverlaps) => subRow = subLast /\ read = subRow
    BY <1>1, SubForms DEF SubAll, SubReadNow
  <1> HIDE DEF patch, read
  <1>4. /\ new \in F!Row /\ subLast' \in F!Row
        /\ new.plan = read.plan \/ new.plan = None \/ (new.plan \in Slugs /\ patch = <<"plan", new.plan>>)
    BY <1>1, <1>2, SubEdited, SubTypes
  <1>5. ~SubWrittenBack(subOverlaps) => new = subLast'
    BY <1>1, <1>3
  <1> HIDE DEF new
  <1>6. SubRowMoves /\ subRow' = new /\ SubPlansMove
    BY <1>1, SubRowWritten DEF SubPlansMove
  <1>7. ASSUME ~SubCrossed(subOverlaps)
        PROVE  SubNamed(subPlans', subRenamed', subRow', subRequest')
    <2>1. SubNamed(subPlans, subRenamed, subRow, subRequest)
      BY <1>7, SubForms DEF SubAll
    <2>2. read.plan # None => SubKnown(subPlans, subRenamed, read.plan)
      BY <1>1, <2>1 DEF SubNamed, read
    <2>3. new.plan # None => SubKnown(subPlans, subRenamed', new.plan)
      BY <1>1, <1>4, <2>2 DEF SubKnown
    <2>4. \A q \in Requests : subRequest'[q].pc = "idle"
      BY <1>1, <1>7, SubLeft, SubOthers
    <2> QED
      BY <1>1, <1>6, <2>3, <2>4 DEF SubNamed
  <1>8. subRenamed' \subseteq Slugs
    BY <1>1, SubTypes
  <1> QED
    BY <1>1, <1>4, <1>5, <1>6, <1>7, <1>8, SubTypes, SubOthers, SubEnded

LEMMA SubPlansSaved ==
    ASSUME SubAll, NEW r \in Requests, SubEnds(r), UNCHANGED <<subRow, subRowEnded, subLast>>,
           subPlans' \in [Slugs -> F!Plans \cup {None}], subRenamed' \subseteq Slugs, SubPlansMove,
           \/ \A s \in Slugs : SubKnown(subPlans, subRenamed, s) => SubKnown(subPlans', subRenamed', s)
           \/ /\ subRequest[r].pc = "delete plan" /\ subRenamed' = subRenamed
              /\ \A s \in Slugs : s = subRequest[r].slug \/ subPlans'[s] = subPlans[s]
    PROVE  SubAll'
  <1>1. SubRowMoves
    BY DEF SubRowMoves
  <1>2. ~SubWrittenBack(subOverlaps) => subRow' = subLast'
    BY SubForms DEF SubAll, SubReadNow
  <1>3. ASSUME ~SubCrossed(subOverlaps)
        PROVE  SubNamed(subPlans', subRenamed', subRow', subRequest')
    <2>1. SubNamed(subPlans, subRenamed, subRow, subRequest)
      BY <1>3, SubForms DEF SubAll
    <2>2. subRow.plan # None => subRow.plan \in Slugs
      BY SubTypes DEF F!Row
    <2>3. CASE \A s \in Slugs : SubKnown(subPlans, subRenamed, s) => SubKnown(subPlans', subRenamed', s)
      <3>1. ASSUME NEW q \in Requests, subRequest'[q].pc # "idle"
            PROVE  /\ subRequest'[q].pc = "subscribe" => SubKnown(subPlans', subRenamed', subRequest'[q].slug)
                   /\ subRequest'[q].pc \in {"edit", "event"} /\ subRequest'[q].read.plan # None
                          => SubKnown(subPlans', subRenamed', subRequest'[q].read.plan)
                   /\ subRequest'[q].pc = "delete plan" => subRequest'[q].slug # subRow.plan
        <4>1. subRequest'[q] = subRequest[q]
          BY <3>1, SubLeft
        <4>2. /\ subRequest[q].pc = "subscribe" => subRequest[q].slug \in Slugs
              /\ subRequest[q].pc \in {"edit", "event"} => subRequest[q].read.plan \in Slugs \cup {None}
          BY DEF SubAll, F!WritesOK, F!Row
        <4> QED
          BY <2>1, <2>3, <4>1, <4>2 DEF SubNamed
      <3>2. subRow.plan # None => SubKnown(subPlans', subRenamed', subRow.plan)
        BY <2>1, <2>2, <2>3 DEF SubNamed
      <3> QED
        BY <3>1, <3>2 DEF SubNamed
    <2>4. CASE /\ subRequest[r].pc = "delete plan" /\ subRenamed' = subRenamed
               /\ \A s \in Slugs : s = subRequest[r].slug \/ subPlans'[s] = subPlans[s]
      <3>1. \A q \in Requests : subRequest'[q].pc = "idle"
        BY <1>3, <2>4, SubLeft, SubOthers
      <3>2. subRequest[r].slug # subRow.plan
        BY <2>1, <2>4 DEF SubNamed
      <3>3. subRow.plan # None => SubKnown(subPlans', subRenamed', subRow.plan)
        BY <2>1, <2>2, <2>4, <3>2 DEF SubNamed, SubKnown
      <3> QED
        BY <3>1, <3>3 DEF SubNamed
    <2> QED
      BY <2>3, <2>4
  <1> QED
    BY <1>1, <1>2, <1>3, SubTypes, SubEnded

LEMMA SubCanceled ==
    ASSUME SubAll, F!Cancel
    PROVE  SubAll'
  <1> USE DEF SubAll
  <1> DEFINE new == [subRow EXCEPT !.status = "canceled"]
             seen == {{"cancel", subRequest[q].op} : q \in {q \in Requests : subRequest[q].pc # "idle"}}
  <1>1. /\ F!WriteRow(new) /\ subLast' = [subLast EXCEPT !.status = "canceled"]
        /\ UNCHANGED <<subPlans, subPlansEnded, subRenamed, subEntry, subRequest, subGuard, subAnswer, subNow, subChecks>>
        /\ subOverlaps' = subOverlaps \cup seen
    BY DEF F!Cancel
  <1>2. new \in F!Row /\ new.plan = subRow.plan /\ subLast' \in F!Row
    BY <1>1, SubTypes DEF F!Row, F!Statuses
  <1>3. subRow = subLast => new = subLast'
    BY <1>1
  <1>4. subWrites' \in 0..MaxPlanWrites
    <2>1. subWrites \in 0..MaxPlanWrites
      BY DEF F!TypeOK
    <2>2. subWrites < MaxPlanWrites /\ subWrites' = subWrites + 1
      BY DEF F!Cancel
    <2> QED
      BY <2>1, <2>2, SubNumbers
  <1>5. \A q \in Requests : subRequest[q].pc # "idle" => {"cancel", subRequest[q].op} \in subOverlaps'
    BY <1>1
  <1> HIDE DEF new, seen
  <1>6. SubRowMoves /\ subRow' = new /\ SubPlansMove
    BY <1>1, SubRowWritten DEF SubPlansMove
  <1>7. F!TypeOK' /\ F!GuardOK' /\ F!EntryOK'
    BY <1>1, <1>2, <1>4, <1>6, SubTypes, SubStill
  <1>8. F!WritesOK' /\ F!PairsSeen'
    BY <1>1 DEF F!WritesOK, F!PairsSeen
  <1>9. F!ReadsAlone'
    <2>1. CASE SubWrittenBack(subOverlaps)
      BY <1>1, <2>1, SubForms DEF SubWrittenBack
    <2>2. CASE SubReadNow(subRow, subLast, subRequest)
      <3>1. ASSUME NEW q \in Requests, subRequest[q].pc \in {"edit", "event"}
            PROVE  SubWrittenBack(subOverlaps')
        <4> DEFINE o == {"cancel", subRequest[q].op}
        <4>1. o \in subOverlaps' /\ subRequest[q].op \in o
          BY <1>5, <3>1
        <4>2. subRequest[q].op \in {"edit", "event"}
          BY <3>1 DEF F!WritesOK
        <4> HIDE DEF o
        <4> QED
          BY <4>1, <4>2 DEF SubWrittenBack
      <3>2. CASE \A q \in Requests : subRequest[q].pc \notin {"edit", "event"}
        <4>1. SubReadNow(subRow', subLast', subRequest')
          BY <1>1, <1>3, <1>6, <2>2, <3>2 DEF SubReadNow
        <4> QED
          BY <4>1, SubForms
      <3> QED
        BY <3>1, <3>2, SubForms
    <2> QED
      BY <2>1, <2>2, SubForms
  <1>10. F!PlansNamed'
    <2>1. CASE SubCrossed(subOverlaps)
      BY <1>1, <2>1, SubForms DEF SubCrossed
    <2>2. CASE SubNamed(subPlans, subRenamed, subRow, subRequest)
      <3>1. SubNamed(subPlans', subRenamed', subRow', subRequest')
        BY <1>1, <1>2, <1>6, <2>2 DEF SubNamed
      <3> QED
        BY <3>1, SubForms
    <2> QED
      BY <2>1, <2>2, SubForms
  <1> QED
    BY <1>7, <1>8, <1>9, <1>10

LEMMA SubPlanSteps ==
    ASSUME SubAll, NEW r \in Requests, F!InsertPlan(r) \/ F!SavePlan(r) \/ F!DeletePlan(r)
    PROVE  SubAll'
  <1> DEFINE s == subRequest[r].slug
             t == subRequest[r].to
             p == subRequest[r].patch
  <1> USE SubTypes, SubNumbers
  <1>1. CASE F!InsertPlan(r)
    <2>1. /\ SubEnds(r) /\ UNCHANGED <<subRow, subRowEnded, subLast, subRenamed>> /\ subRequest[r].pc = "insert plan"
          /\ \/ subPlans[s] = None /\ F!WritePlans([subPlans EXCEPT ![s] = p])
             \/ UNCHANGED <<subPlans, subPlansEnded>>
      BY <1>1 DEF F!InsertPlan, SubEnds, F!counts
    <2>2. s \in Slugs /\ p \in F!Plans
      BY <2>1 DEF SubAll, F!WritesOK
    <2>3. CASE F!WritePlans([subPlans EXCEPT ![s] = p])
      <3>1. SubPlansMove /\ subPlans' = [subPlans EXCEPT ![s] = p]
        BY <2>3, SubPlansWritten
      <3>2. subPlans' \in [Slugs -> F!Plans \cup {None}] /\ \A x \in Slugs : subPlans[x] # None => subPlans'[x] # None
        BY <2>2, <3>1
      <3> QED
        BY <2>1, <3>1, <3>2, SubPlansSaved DEF SubKnown
    <2>4. CASE UNCHANGED <<subPlans, subPlansEnded>>
      BY <2>1, <2>4, SubPlansSaved DEF SubKnown, SubPlansMove
    <2> QED
      BY <2>1, <2>3, <2>4
  <1>2. CASE F!SavePlan(r)
    <2>1. /\ SubEnds(r) /\ UNCHANGED <<subRow, subRowEnded, subLast>> /\ subRequest[r].pc = "save plan"
          /\ \/ UNCHANGED <<subPlans, subPlansEnded, subRenamed>>
             \/ /\ F!WritePlans([subPlans EXCEPT ![s] = None, ![t] = p])
                /\ subRenamed' = subRenamed \cup ({s} \ {t})
      BY <1>2 DEF F!SavePlan, SubEnds, F!counts
    <2>2. s \in Slugs /\ t \in Slugs /\ p \in F!Plans
      BY <2>1 DEF SubAll, F!WritesOK
    <2>3. CASE UNCHANGED <<subPlans, subPlansEnded, subRenamed>>
      BY <2>1, <2>3, SubPlansSaved DEF SubKnown, SubPlansMove
    <2>4. CASE /\ F!WritePlans([subPlans EXCEPT ![s] = None, ![t] = p])
               /\ subRenamed' = subRenamed \cup ({s} \ {t})
      <3>1. SubPlansMove /\ subPlans' = [subPlans EXCEPT ![s] = None, ![t] = p]
        BY <2>4, SubPlansWritten
      <3>2. /\ subPlans' \in [Slugs -> F!Plans \cup {None}] /\ subRenamed' \subseteq Slugs
            /\ \A x \in Slugs : SubKnown(subPlans, subRenamed, x) => SubKnown(subPlans', subRenamed', x)
        BY <2>2, <2>4, <3>1 DEF SubKnown
      <3> QED
        BY <2>1, <3>1, <3>2, SubPlansSaved
    <2> QED
      BY <2>1, <2>3, <2>4
  <1>3. CASE F!DeletePlan(r)
    <2>1. /\ SubEnds(r) /\ UNCHANGED <<subRow, subRowEnded, subLast, subRenamed>> /\ subRequest[r].pc = "delete plan"
          /\ F!WritePlans([subPlans EXCEPT ![s] = None])
      BY <1>3 DEF F!DeletePlan, SubEnds, F!counts
    <2>2. SubPlansMove /\ subPlans' = [subPlans EXCEPT ![s] = None]
      BY <2>1, SubPlansWritten
    <2>3. subPlans' \in [Slugs -> F!Plans \cup {None}] /\ \A x \in Slugs : x = s \/ subPlans'[x] = subPlans[x]
      BY <2>2
    <2> QED
      BY <2>1, <2>2, <2>3, SubPlansSaved
  <1> QED
    BY <1>1, <1>2, <1>3

-----------------------------------------------------------------------------
(* The plans: the invariant. *)

LEMMA SubQuietRows ==
    ASSUME SubAll, UNCHANGED <<SubDb, subRequest, subOverlaps>>
    PROVE  F!WritesOK' /\ F!PairsSeen' /\ F!ReadsAlone' /\ F!PlansNamed'
  <1>1. F!WritesOK' /\ F!PairsSeen'
    BY DEF SubAll, F!WritesOK, F!PairsSeen
  <1>2. F!ReadsAlone' /\ F!PlansNamed'
    BY SubForms DEF SubAll, SubDb
  <1> QED
    BY <1>1, <1>2

LEMMA SubNext == F!IInv /\ [F!Next]_(F!vars) => F!IInv'
  <1> SUFFICES ASSUME SubAll, [F!Next]_(F!vars) PROVE SubAll'
    BY DEF F!IInv, SubAll
  <1>1. ASSUME F!Check \/ F!SetUnread \/ F!ReadPlan \/ F!Tick
        PROVE  SubAll'
    <2>1. /\ F!TypeOK' /\ F!GuardOK' /\ F!EntryOK'
          /\ UNCHANGED <<SubDb, subRequest, subOverlaps>>
      BY <1>1, SubChecked, SubRemembered, SubTicked DEF SubAll
    <2> QED
      BY <2>1, SubQuietRows DEF SubAll
  <1>2. ASSUME NEW r \in Requests, SubSaves(r)
        PROVE  SubAll'
    BY <1>2, SubSubscribed, SubEventWritten, SubEditSaved, SubPlanSteps DEF SubSaves
  <1>3. ASSUME UNCHANGED F!vars
        PROVE  SubAll'
    <2>1. UNCHANGED <<SubDb, subRequest, subOverlaps, subEntry, subGuard, subAnswer, subNow, subChecks, subWrites>>
      BY <1>3 DEF F!vars, F!db, F!counts, SubDb
    <2>2. F!TypeOK' /\ F!GuardOK'
      BY <2>1 DEF SubAll, F!TypeOK, F!GuardOK, F!RowVersion, SubDb
    <2>3. F!EntryOK'
      BY <2>1, SubSameEntry DEF SubAll
    <2> QED
      BY <2>1, <2>2, <2>3, SubQuietRows DEF SubAll
  <1> QED
    BY <1>1, <1>2, <1>3, SubSteps, SubCanceled, SubBeginsAll

LEMMA SubInit == F!Init => F!IInv
  <1> SUFFICES ASSUME F!Init PROVE F!IInv
    OBVIOUS
  <1>1. F!TypeOK
    <2>1. subRow \in F!Row /\ subLast \in F!Row
      BY DEF F!Init, F!Row, F!Statuses
    <2>2. subPlans \in [Slugs -> F!Plans \cup {None}]
      BY DEF F!Init
    <2>3. subRowEnded \in Seq(Nat) /\ subPlansEnded \in Seq(Nat) /\ subRenamed \subseteq Slugs /\ subEntry = None
      BY DEF F!Init
    <2>4. subGuard \in [pc : {"idle", "set", "plan"}, status : F!Statuses \cup {""}, plan : Slugs \cup {None},
                        row : Nat, plans : Nat, at : Nat]
      BY DEF F!Init, F!NoCheck
    <2>5. subAnswer \in [allowed : BOOLEAN, row : Nat, plans : Nat, at : Nat, fresh : BOOLEAN]
      BY DEF F!Init
    <2>6. subNow \in 0..MaxTime /\ subChecks \in 0..MaxReads /\ subWrites \in 0..MaxPlanWrites
      BY SubNumbers DEF F!Init
    <2> QED
      BY <2>1, <2>2, <2>3, <2>4, <2>5, <2>6 DEF F!TypeOK
  <1>2. /\ subRequest = [r \in Requests |-> F!NoRequest] /\ \A r \in Requests : subRequest[r].pc = "idle"
        /\ subRow = subLast /\ subRow.plan = None /\ subEntry = None /\ subGuard.pc = "idle"
    BY SubIdle DEF F!Init
  <1>3. F!WritesOK /\ F!PairsSeen
    BY <1>2 DEF F!WritesOK, F!PairsSeen
  <1>4. F!ReadsAlone /\ F!PlansNamed
    BY <1>2, SubForms DEF SubReadNow, SubNamed
  <1>5. F!GuardOK /\ F!EntryOK
    BY <1>2 DEF F!GuardOK, F!EntryOK
  <1> QED
    BY <1>1, <1>3, <1>4, <1>5 DEF F!IInv

\* The step of the office that is a step of the plans, or none of theirs.
LEMMA SubStep == [OfficeNext]_officeVars => [F!Next]_(F!vars)
  BY DEF OfficeNext, officeVars, F!vars, F!db, F!counts, subVars, AccountsStep, SignupStep, CodesStep, AgendasStep,
     CatalogueStep, PlansStep, LeadsStep

LEMMA SubInvariant == OfficeSpec => []F!IInv
  <1>1. OfficeInit => F!IInv
    BY SubInit DEF OfficeInit
  <1> QED
    BY <1>1, SubNext, SubStep, PTL DEF OfficeSpec

LEMMA SubExplained == F!IInv => F!AnsweredStays /\ F!PlanExists
  <1>1. F!IInv => F!AnsweredStays
    BY DEF F!IInv, F!ReadsAlone, F!AnsweredStays
  <1>2. F!IInv => F!PlanExists
    BY DEF F!IInv, F!PlansNamed, F!Known, F!PlanExists
  <1> QED
    BY <1>1, <1>2

-----------------------------------------------------------------------------
(* The plans: what one answer of the guard is. *)

\* An answer is of what the process keeps, in time, or of what it has just read.
LEMMA SubAnswers ==
    ASSUME F!IInv, F!Next
    PROVE  \/ UNCHANGED subAnswer
           \/ /\ UNCHANGED <<SubDb, subNow>>
              /\ \E e : /\ F!Answer(e) /\ e \in F!Entry /\ subNow <= e.until
                        /\ SubEntryOfRow(e, subRow, subPlans, subRowEnded, subPlansEnded, subNow)
                        /\ SubEntryOfPlans(e, subPlansEnded, subNow)
  <1> USE DEF F!IInv
  <1>1. CASE F!Check
    <2>1. CASE subEntry # None /\ subNow < subEntry.until /\ F!Answer(subEntry)
      <3>1. subEntry \in F!Entry /\ subNow <= subEntry.until
        BY <2>1, SubTyped, SubVersions
      <3>2. /\ SubEntryOfRow(subEntry, subRow, subPlans, subRowEnded, subPlansEnded, subNow)
            /\ SubEntryOfPlans(subEntry, subPlansEnded, subNow)
        BY <2>1, SubEntryForms
      <3> QED
        BY <1>1, <2>1, <3>1, <3>2, SubChecked
    <2> QED
      BY <1>1, <2>1, SubChecked
  <1>2. CASE F!SetUnread \/ F!ReadPlan
    <2>1. /\ F!EntryOK' /\ UNCHANGED <<SubDb, subNow>> /\ subEntry' # None /\ subEntry' \in F!Entry
          /\ subNow <= subEntry'.until /\ F!Answer(subEntry')
      BY <1>2, SubRemembered
    <2>2. /\ SubEntryOfRow(subEntry', subRow, subPlans, subRowEnded, subPlansEnded, subNow)
          /\ SubEntryOfPlans(subEntry', subPlansEnded, subNow)
      BY <2>1, SubEntryForms DEF SubDb
    <2> QED
      BY <2>1, <2>2
  <1>3. CASE F!Tick
    BY <1>3, SubTicked
  <1>4. CASE F!Cancel
    BY <1>4 DEF F!Cancel
  <1>5. ASSUME NEW r \in Requests, SubReads(r)
        PROVE  UNCHANGED subAnswer
    BY <1>5, SubBegin DEF SubQuiet
  <1>6. ASSUME NEW r \in Requests, SubSaves(r)
        PROVE  UNCHANGED subAnswer
    BY <1>6 DEF SubSaves, F!WriteEvent, F!WriteSubscription, F!SaveEdit, F!InsertPlan, F!SavePlan, F!DeletePlan
  <1> QED
    BY <1>1, <1>2, <1>3, <1>4, <1>5, <1>6, SubSteps

\* How old what an answer was taken from can be.
LEMMA SubAge ==
    ASSUME F!TypeOK, NEW e \in F!Entry, subNow <= e.until,
           SubEntryOfRow(e, subRow, subPlans, subRowEnded, subPlansEnded, subNow),
           SubEntryOfPlans(e, subPlansEnded, subNow)
    PROVE  /\ e.row \in 1..(Len(subRowEnded) + 1)
           /\ e.row = Len(subRowEnded) + 1 \/ subNow <= subRowEnded[e.row] + (TTL + MaxFetch)
           /\ e.plans > 0 => \/ e.plans = F!PlansVersion
                             \/ subNow <= subPlansEnded[e.plans] + TTL + MaxFetch
  <1>1. /\ e.row \in Nat /\ e.plans \in Nat /\ e.until \in Nat /\ subNow \in Nat
        /\ TTL \in Nat /\ MaxFetch \in Nat /\ Len(subRowEnded) \in Nat /\ Len(subPlansEnded) \in Nat
        /\ \A v \in 1..Len(subRowEnded) : subRowEnded[v] \in Nat
        /\ \A v \in 1..Len(subPlansEnded) : subPlansEnded[v] \in Nat
        /\ F!PlansVersion = Len(subPlansEnded) + 1
    BY SubVersions, SubNumbers DEF F!Entry
  <1>2. \/ e.row = Len(subRowEnded) + 1
        \/ e.row \in 1..Len(subRowEnded) /\ e.until <= subRowEnded[e.row] + TTL + MaxFetch
    BY DEF SubEntryOfRow
  <1>3. \/ e.plans = 0 \/ e.plans = Len(subPlansEnded) + 1
        \/ e.plans \in 1..Len(subPlansEnded) /\ e.until <= subPlansEnded[e.plans] + TTL
    BY DEF SubEntryOfPlans
  <1>4. e.row \in 1..(Len(subRowEnded) + 1)
    BY <1>1, <1>2
  <1>5. e.row = Len(subRowEnded) + 1 \/ subNow <= subRowEnded[e.row] + (TTL + MaxFetch)
    BY <1>1, <1>2
  <1>6. e.plans > 0 => e.plans = F!PlansVersion \/ subNow <= subPlansEnded[e.plans] + TTL + MaxFetch
    BY <1>1, <1>3
  <1> QED
    BY <1>4, <1>5, <1>6

LEMMA SubPlansBounded ==
    F!IInv /\ [F!Next]_(F!vars) =>
        [subAnswer' # subAnswer /\ subAnswer'.plans > 0
            => subAnswer'.plans = F!PlansVersion \/ subNow <= subPlansEnded[subAnswer'.plans] + TTL + MaxFetch]_(F!vars)
  <1> SUFFICES ASSUME F!IInv, F!Next, subAnswer' # subAnswer, subAnswer'.plans > 0
               PROVE  subAnswer'.plans = F!PlansVersion \/ subNow <= subPlansEnded[subAnswer'.plans] + TTL + MaxFetch
    OBVIOUS
  <1>1. PICK e \in F!Entry : /\ F!Answer(e) /\ subNow <= e.until
                             /\ SubEntryOfRow(e, subRow, subPlans, subRowEnded, subPlansEnded, subNow)
                             /\ SubEntryOfPlans(e, subPlansEnded, subNow)
    BY SubAnswers
  <1>2. subAnswer'.plans = e.plans
    BY <1>1, SubAnswered DEF F!IInv, F!Entry
  <1> QED
    BY <1>1, <1>2, SubAge DEF F!IInv

LEMMA SubRowBounded ==
    /\ F!Init => F!RowRead!Init
    /\ F!IInv /\ [F!Next]_(F!vars) => [[F!RowRead!Next]_(F!RowRead!vars)]_(F!vars)
  <1>1. F!Init => F!RowRead!Init
    BY DEF F!Init, F!RowRead!Init
  <1>2. ASSUME F!IInv, F!Next
        PROVE  [F!RowRead!Next]_(F!RowRead!vars)
    <2>1. CASE UNCHANGED subAnswer
      <3>1. CASE UNCHANGED <<subRowEnded, subNow>>
        BY <2>1, <3>1 DEF F!RowRead!vars
      <3>2. CASE subNow' = subNow + 1 /\ UNCHANGED subRowEnded
        BY <2>1, <3>2 DEF F!RowRead!Next, F!RowRead!Tick
      <3>3. CASE subRowEnded' = Append(subRowEnded, subNow) /\ UNCHANGED subNow
        BY <2>1, <3>3 DEF F!RowRead!Next, F!RowRead!Write
      <3>4. \/ UNCHANGED <<subRowEnded, subNow>>
            \/ subNow' = subNow + 1 /\ UNCHANGED subRowEnded
            \/ subRowEnded' = Append(subRowEnded, subNow) /\ UNCHANGED subNow
        <4>1. CASE F!Check \/ F!SetUnread \/ F!ReadPlan
          BY <1>2, <4>1, SubChecked, SubRemembered DEF F!IInv, SubDb
        <4>2. CASE F!Tick
          BY <1>2, <4>2, SubTicked DEF F!IInv, SubDb
        <4>3. CASE F!Cancel
          BY <4>3 DEF F!Cancel, F!WriteRow
        <4>4. ASSUME NEW r \in Requests, SubReads(r)
              PROVE  UNCHANGED <<subRowEnded, subNow>>
          BY <4>4, SubBegin DEF SubQuiet
        <4>5. ASSUME NEW r \in Requests, SubSaves(r)
              PROVE  UNCHANGED subNow /\ subRowEnded' \in {subRowEnded, Append(subRowEnded, subNow)}
          BY <4>5 DEF SubSaves, F!WriteEvent, F!WriteSubscription, F!SaveEdit, F!InsertPlan, F!SavePlan,
                      F!DeletePlan, F!WriteRow, F!counts
        <4> QED
          BY <1>2, <4>1, <4>2, <4>3, <4>4, <4>5, SubSteps
      <3> QED
        BY <3>1, <3>2, <3>3, <3>4
    <2>2. CASE subAnswer' # subAnswer
      <3>1. UNCHANGED <<SubDb, subNow>>
        BY <1>2, <2>2, SubAnswers
      <3>2. PICK e \in F!Entry : /\ F!Answer(e) /\ subNow <= e.until
                                 /\ SubEntryOfRow(e, subRow, subPlans, subRowEnded, subPlansEnded, subNow)
                                 /\ SubEntryOfPlans(e, subPlansEnded, subNow)
        BY <1>2, <2>2, SubAnswers
      <3>3. subAnswer'.row = e.row /\ subAnswer'.at = subNow
        BY <1>2, <3>2, SubAnswered DEF F!IInv, F!Entry
      <3>4. /\ e.row \in 1..(Len(subRowEnded) + 1)
            /\ e.row = Len(subRowEnded) + 1 \/ subNow <= subRowEnded[e.row] + (TTL + MaxFetch)
        BY <1>2, <3>2, SubAge DEF F!IInv
      <3> QED
        BY <3>1, <3>3, <3>4 DEF F!RowRead!Next, F!RowRead!Read, F!RowRead!Recent, SubDb
    <2> QED
      BY <2>1, <2>2
  <1> QED
    BY <1>1, <1>2

LEMMA SubAsShown ==
    F!IInv /\ [F!Next]_(F!vars) =>
        [subAnswer' # subAnswer /\ subAnswer'.fresh /\ subAnswer'.allowed # F!Shown
            => subRow.status = "trial" /\ subPlans["trial"] # None]_(F!vars)
  <1> SUFFICES ASSUME F!IInv, F!Next, subAnswer' # subAnswer, subAnswer'.fresh, subAnswer'.allowed # F!Shown,
                      ~(subRow.status = "trial" /\ subPlans["trial"] # None)
               PROVE  FALSE
    OBVIOUS
  <1>1. PICK e \in F!Entry : /\ F!Answer(e) /\ subNow <= e.until
                             /\ SubEntryOfRow(e, subRow, subPlans, subRowEnded, subPlansEnded, subNow)
                             /\ SubEntryOfPlans(e, subPlansEnded, subNow)
    BY SubAnswers
  <1>2. e.row \in Nat /\ e.plans \in Nat /\ Len(subRowEnded) \in Nat /\ Len(subPlansEnded) \in Nat
        /\ F!PlansVersion = Len(subPlansEnded) + 1 /\ F!RowVersion = Len(subRowEnded) + 1
    BY SubVersions DEF F!IInv, F!Entry
  <1>3. /\ subAnswer'.allowed <=> (e.status = "trial" \/ F!Feature \in e.features)
        /\ e.row = F!RowVersion /\ e.plans \in {0, F!PlansVersion} /\ subAnswer'.allowed \in BOOLEAN
    BY <1>1, <1>2, SubAnswered DEF F!IInv
  <1>4. e.row \notin 1..Len(subRowEnded)
    BY <1>2, <1>3
  <1>5. /\ e.status = subRow.status
        /\ e.plans = 0 => e.features = {} /\ (subRow.status = "trial" \/ subRow.plan = None)
        /\ e.plans > 0 => subRow.status # "trial" /\ subRow.plan \in Slugs
        /\ e.plans = F!PlansVersion => e.features = IF subPlans[subRow.plan] = None THEN {} ELSE subPlans[subRow.plan].features
    BY <1>1, <1>2, <1>4 DEF SubEntryOfRow
  <1>6. CASE subRow.status = "trial"
    <2>0. subPlans["trial"] = None
      BY <1>6
    <2>1. F!Shown <=> (subPlans["trial"] = None \/ F!Feature \in subPlans["trial"].features)
      BY <1>6 DEF F!Shown
    <2>2. F!Shown \in BOOLEAN
      BY <1>6 DEF F!Shown
    <2> QED
      BY <1>3, <1>5, <1>6, <2>0, <2>1, <2>2
  <1>7. CASE subRow.status # "trial" /\ subRow.plan = None
    <2>1. F!Shown = FALSE
      BY <1>7 DEF F!Shown
    <2>2. e.plans = 0
      BY <1>2, <1>3, <1>5, <1>7, SubNumbers
    <2> QED
      BY <1>3, <1>5, <1>7, <2>1, <2>2
  <1>8. CASE subRow.status # "trial" /\ subRow.plan # None
    <2>1. F!Shown <=> (subPlans[subRow.plan] # None /\ F!Feature \in subPlans[subRow.plan].features)
      BY <1>8 DEF F!Shown
    <2>2. F!Shown \in BOOLEAN
      BY <1>8 DEF F!Shown
    <2>3. e.plans = F!PlansVersion
      BY <1>3, <1>5, <1>8
    <2>4. F!Feature \in e.features <=> (subPlans[subRow.plan] # None /\ F!Feature \in subPlans[subRow.plan].features)
      BY <1>5, <2>3
    <2> QED
      BY <1>3, <1>5, <1>8, <2>1, <2>2, <2>4
  <1> QED
    BY <1>6, <1>7, <1>8

\* FeatureAccessService: the guard of a feature never answers for a row, or for the
\* features of a plan, that were replaced more than its time to live and its way to the
\* answer ago, and an answer of what is there is what the screens show.
THEOREM GuardAlwaysBounded == OfficeSpec => F!GuardBounded /\ F!PlansBounded /\ F!GuardAsShown
  <1>1. OfficeInit => F!RowRead!Init
    BY SubRowBounded DEF OfficeInit
  <1> QED
    BY <1>1, SubRowBounded, SubPlansBounded, SubAsShown, SubStep, SubInvariant, PTL
    DEF OfficeSpec, F!GuardBounded, F!PlansBounded, F!GuardAsShown

-----------------------------------------------------------------------------
(* The office. *)

\* Every table, key and request of the office keeps its type.
THEOREM OfficeAlwaysTyped == OfficeSpec => []OfficeTypeOK
  <1>1. /\ A!IInv => A!TypeOK
        /\ S!IInv => S!TypeOK
        /\ O!IInv => O!TypeOK
        /\ G!IInv => G!TypeOK
        /\ C!IInv => C!TypeOK
        /\ F!IInv => F!TypeOK
        /\ L!IInv => L!TypeOK
    BY DEF A!IInv, S!IInv, O!IInv, G!IInv, C!IInv, F!IInv, L!IInv
  <1>2. A!IInv /\ S!IInv /\ O!IInv /\ G!IInv /\ C!IInv /\ F!IInv /\ L!IInv => OfficeTypeOK
    BY <1>1 DEF OfficeTypeOK
  <1> QED
    BY <1>2, AccInvariant, SignInvariant, OtpInvariant, AgInvariant, CatInvariant, SubInvariant, LdInvariant, PTL

\* Pipelines, stages, their lists in Redis, plans and subscriptions (PipelinesService,
\* StagesService, TenantCacheService, SubscriptionsService): however their requests
\* interleave and fail, what was answered is what is there, but for the overlaps and the
\* order of steps each part names.
THEOREM CatalogueAlwaysExplained == OfficeSpec => []CatalogueExplained
  <1>1. C!IInv /\ F!IInv => CatalogueExplained
    BY CatExplained, SubExplained DEF CatalogueExplained
  <1> QED
    BY <1>1, CatInvariant, SubInvariant, PTL

\* The lists of pipelines and stages and the guard of a feature answer with nothing
\* older than their time to live and their way from the database, for every number of
\* readers, writers, keys, versions and failures.
THEOREM CachesAlwaysBounded == OfficeSpec => CachesBounded
  BY ListsAlwaysBounded, GuardAlwaysBounded, PTL DEF CachesBounded

\* One step erases a user who is not due, marks a used code unused, books a cancelled
\* appointment again, deletes a lead that is not in the trash, or answers of a feature
\* otherwise than the screens, only by the overlap each part names.
THEOREM StepsAlwaysExplained == OfficeSpec => StepsExplained
  <1>1. OfficeSpec => A!ErasedWasDue
    BY AccErasures, AccStep, AccInvariant, PTL DEF OfficeSpec, A!ErasedWasDue
  <1>2. OfficeSpec => S!UsedCodeStaysUsed
    BY SignUsed, SignStep, SignInvariant, PTL DEF OfficeSpec, S!UsedCodeStaysUsed
  <1>3. OfficeSpec => G!CancelledStaysCancelled
    BY AgCancelled, AgStep, AgInvariant, PTL DEF OfficeSpec, G!CancelledStaysCancelled
  <1>4. OfficeSpec => L!DeletedFromTrash
    BY LdDeleted, LdStep, LdInvariant, PTL DEF OfficeSpec, L!DeletedFromTrash
  <1> QED
    BY <1>1, <1>2, <1>3, <1>4, GuardAlwaysBounded, PTL DEF StepsExplained
=============================================================================
