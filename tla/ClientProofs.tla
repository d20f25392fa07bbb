---------------------------- MODULE ClientProofs ----------------------------
(***************************************************************************)
(* The tab of the client: its types, whom it shows what, and that it follows *)
(* the changes it makes.                                                    *)
(***************************************************************************)
EXTENDS Client, WellFoundedInduction, TLAPS

-----------------------------------------------------------------------------
(* The inductive invariant. *)

People == Users \cup {Visitor}

Entry == [cached : BOOLEAN, version : Nat, owner : People,
          stale : BOOLEAN, guess : BOOLEAN, late : BOOLEAN]
Request == [phase : {"none", "read", "refused"}, version : Nat, owner : People, missed : BOOLEAN]
Phases == {"idle", "sent", "answered", "told", "threw", "failed", "refused"}

TypeOK ==
    /\ scene \in Scenes
    /\ session \in [user : People, stash : People, lent : BOOLEAN]
    /\ cache \in Entry
    /\ fetch \in Request
    /\ work \in [user : People, phase : Phases, done : Nat, seen : Nat, before : Entry]
    /\ commits \in Nat

\* Who impersonates is in the workspace of the account, which is not an owner's.
SessionInv ==
    /\ session.user = Visitor => ~session.lent /\ session.stash = Visitor
    /\ session.stash # Visitor =>
          session.lent /\ session.user.role # "owner" /\ session.stash.workspace = session.user.workspace

\* What the account fetched may be shown in the tab.
MayShow(account) ==
    account = session.user \/ (session.lent /\ account.workspace = session.user.workspace)

\* Not only the cache but also the fetch in flight is for the session, and
\* nothing is fetched for nobody.
OwnerInv ==
    /\ cache.cached => MayShow(cache.owner) \/ WroteBack
    /\ fetch.phase = "read" => MayShow(fetch.owner)
    /\ session.user = Visitor => fetch.phase # "read" /\ (cache.cached => WroteBack)

\* An answer that says nothing of the rows that the mutation changed.
Foreign(account) == account = Visitor \/ account.workspace # work.user.workspace

\* The answer cached and the one in flight show the change, or are known not to.
Followed ==
    /\ cache.cached =>
          cache.stale \/ cache.late \/ cache.version >= work.seen \/ Foreign(cache.owner)
    /\ fetch.phase = "read" =>
          \/ fetch.missed \/ fetch.version >= work.seen \/ Foreign(fetch.owner)
          \/ cache.cached /\ cache.version >= work.seen

NewsInv ==
    /\ work.seen <= commits
    /\ work.seen # 0 => ~(scene.changing \subseteq Hopeless)
    /\ work.phase # "idle" /\ scene.query # NoQuery => work.user # Visitor
    /\ work.phase = "threw" => scene.mutation.name \in PagesPatched
    /\ work.phase = "told" /\ Tells(scene) => Followed

\* A page is asked for and used by who gets it, one step of a mutation after another.
CallsInv ==
    /\ fetch.phase # "none" => scene.query # NoQuery /\ Admits(scene.guard, fetch.owner)
    /\ work.phase # "idle" => Admits(scene.guard, work.user) /\ Offered(scene.mutation, work.user)
    /\ work.phase \in {"sent", "refused"} => work.done + 1 \in DOMAIN scene.mutation.steps

-----------------------------------------------------------------------------
(* A run of effects, a recursive function: what each effect preserves, the   *)
(* run does.                                                                *)

Below == {ss \in Nat \X Nat : ss[1] < ss[2]}

LEMMA NatWellFounded == IsWellFoundedOn(Below, Nat)
  BY NatLessThanWellFounded DEF OpToRel, Below

\* The library's induction theorems take an operator; this one takes a set.
LEMMA SetInduction ==
    ASSUME NEW T \in SUBSET Nat, 0 \in T, \A n \in T : n + 1 \in T
    PROVE  T = Nat
  <1> SUFFICES ASSUME Nat \ T # {} PROVE FALSE
    OBVIOUS
  <1>1. PICK n \in Nat \ T : \A m \in Nat \ T : ~(<<m, n>> \in Below)
    <2>1. Nat \ T \subseteq Nat
      OBVIOUS
    <2> QED BY <2>1, WFMin, NatWellFounded
  <1>2. \A m \in Nat \ T : ~(m < n)
    BY <1>1 DEF Below
  <1>3. n - 1 \in Nat /\ n - 1 \in T
    BY <1>2
  <1> QED BY <1>3

\* What a run of m effects leaves after each of them.
IsRun(f, effects, w, m) ==
    f = [n \in 0..m |-> IF n = 0 THEN [cache |-> cache, fetch |-> fetch]
                        ELSE Effected(f[n - 1], effects[n], w)]

LEMMA RunExists ==
    ASSUME NEW effects, NEW w
    PROVE  \A m \in Nat : \E f : IsRun(f, effects, w, m)
  <1> DEFINE T == {m \in Nat : \E f : IsRun(f, effects, w, m)}
  <1>1. 0 \in T
    <2>1. IsRun([n \in 0..0 |-> [cache |-> cache, fetch |-> fetch]], effects, w, 0)
      BY DEF IsRun
    <2> QED BY <2>1
  <1>2. ASSUME NEW m \in T PROVE m + 1 \in T
    <2>1. m \in Nat
      OBVIOUS
    <2>2. PICK f : IsRun(f, effects, w, m)
      OBVIOUS
    <2> DEFINE g == [n \in 0..(m + 1) |-> IF n <= m THEN f[n] ELSE Effected(f[m], effects[m + 1], w)]
    <2>3. ASSUME NEW n \in 0..(m + 1)
          PROVE  g[n] = IF n = 0 THEN [cache |-> cache, fetch |-> fetch]
                        ELSE Effected(g[n - 1], effects[n], w)
      <3>1. CASE n = 0
        <4>1. g[n] = f[0]
          BY <2>1, <3>1
        <4> QED BY <2>1, <2>2, <3>1, <4>1 DEF IsRun
      <3>2. CASE n # 0 /\ n <= m
        <4>1. n - 1 \in 0..(m + 1) /\ n - 1 <= m /\ n \in 0..m
          BY <2>1, <3>2
        <4>2. g[n] = f[n] /\ g[n - 1] = f[n - 1]
          BY <3>2, <4>1
        <4> HIDE DEF g
        <4>3. f[n] = Effected(f[n - 1], effects[n], w)
          BY <2>2, <3>2, <4>1 DEF IsRun
        <4> QED BY <3>2, <4>2, <4>3
      <3>3. CASE n = m + 1
        <4>1. n # 0 /\ n - 1 = m /\ m \in 0..(m + 1) /\ ~(n <= m)
          BY <2>1, <3>3
        <4>2. g[n] = Effected(f[m], effects[m + 1], w) /\ g[m] = f[m]
          BY <2>1, <4>1
        <4> HIDE DEF g
        <4> QED BY <3>3, <4>1, <4>2
      <3> QED BY <2>1, <3>1, <3>2, <3>3
    <2>4. IsRun(g, effects, w, m + 1)
      <3>1. DOMAIN g = 0..(m + 1) /\ g = [n \in 0..(m + 1) |-> g[n]]
        OBVIOUS
      <3> HIDE DEF g
      <3> QED BY <2>3, <3>1 DEF IsRun
    <2> QED BY <2>1, <2>4
  <1>3. T = Nat
    <2>1. T \in SUBSET Nat
      OBVIOUS
    <2> HIDE DEF T
    <2> QED BY <1>1, <1>2, <2>1, SetInduction
  <1> QED BY <1>3

LEMMA RanIs ==
    ASSUME NEW effects, Len(effects) \in Nat, NEW w
    PROVE  \E f : /\ Ran(effects, w) = f[Len(effects)]
                  /\ f[0] = [cache |-> cache, fetch |-> fetch]
                  /\ \A n \in 1..Len(effects) : f[n] = Effected(f[n - 1], effects[n], w)
  <1> DEFINE f == CHOOSE f : IsRun(f, effects, w, Len(effects))
  <1>1. Ran(effects, w) = f[Len(effects)]
    BY DEF Ran, IsRun
  <1>2. IsRun(f, effects, w, Len(effects))
    BY RunExists
  <1> HIDE DEF f
  <1>3. \A n \in 0..Len(effects) : f[n] = IF n = 0 THEN [cache |-> cache, fetch |-> fetch]
                                          ELSE Effected(f[n - 1], effects[n], w)
    BY <1>2 DEF IsRun
  <1> QED BY <1>1, <1>3

\* A run ends in the last of a family of sets when each effect leads from one of
\* them into the next.
LEMMA RunWithin ==
    ASSUME NEW effects, Len(effects) \in Nat, NEW w, NEW S,
           [cache |-> cache, fetch |-> fetch] \in S[0],
           \A n \in 1..Len(effects) : \A s \in S[n - 1] : Effected(s, effects[n], w) \in S[n]
    PROVE  Ran(effects, w) \in S[Len(effects)]
  <1>1. PICK f : /\ Ran(effects, w) = f[Len(effects)]
                 /\ f[0] = [cache |-> cache, fetch |-> fetch]
                 /\ \A n \in 1..Len(effects) : f[n] = Effected(f[n - 1], effects[n], w)
    BY RanIs
  <1> DEFINE T == {n \in Nat : n <= Len(effects) => f[n] \in S[n]}
  <1>2. 0 \in T
    BY <1>1
  <1>3. ASSUME NEW n \in T PROVE n + 1 \in T
    <2>1. n \in Nat
      OBVIOUS
    <2>2. CASE n + 1 <= Len(effects)
      <3>1. n + 1 \in 1..Len(effects) /\ (n + 1) - 1 = n /\ f[n] \in S[n]
        BY <2>1, <2>2
      <3>2. f[n + 1] = Effected(f[n], effects[n + 1], w)
        BY <1>1, <3>1
      <3>3. Effected(f[n], effects[n + 1], w) \in S[n + 1]
        BY <3>1
      <3> QED BY <2>1, <3>2, <3>3
    <2> QED BY <2>1, <2>2
  <1>4. T = Nat
    <2>1. T \in SUBSET Nat
      OBVIOUS
    <2> HIDE DEF T
    <2> QED BY <1>2, <1>3, <2>1, SetInduction
  <1> QED BY <1>1, <1>4

-----------------------------------------------------------------------------
(* One effect. *)

State == [cache : Entry, fetch : Request]
Mutating == [user : People, phase : Phases, done : Nat, seen : Nat, before : Entry]

LEMMA Blank == Empty \in Entry /\ NoFetch \in Request /\ Idle \in Mutating
  BY DEF Empty, NoFetch, Idle, Entry, Request, Mutating, Phases, People

LEMMA AnsweredType ==
    ASSUME NEW version \in Nat, NEW owner \in People
    PROVE  /\ Answered(version, owner) \in Entry
           /\ Answered(version, owner).cached /\ Answered(version, owner).version = version
           /\ Answered(version, owner).owner = owner
           /\ ~Answered(version, owner).stale /\ ~Answered(version, owner).late
           /\ ~Answered(version, owner).guess
  BY DEF Answered, Empty, Entry

LEMMA EntryEdits ==
    ASSUME NEW e \in Entry, NEW flag \in BOOLEAN, NEW version \in Nat
    PROVE  /\ [e EXCEPT !.stale = flag] \in Entry /\ [e EXCEPT !.stale = flag].cached = e.cached
           /\ [e EXCEPT !.stale = flag].owner = e.owner /\ [e EXCEPT !.stale = flag].stale = flag
           /\ [e EXCEPT !.stale = flag].version = e.version
           /\ [e EXCEPT !.guess = flag] \in Entry /\ [e EXCEPT !.guess = flag].cached = e.cached
           /\ [e EXCEPT !.guess = flag].owner = e.owner
           /\ [e EXCEPT !.version = version] \in Entry /\ [e EXCEPT !.version = version].cached = e.cached
           /\ [e EXCEPT !.version = version].owner = e.owner
           /\ [e EXCEPT !.guess = flag, !.version = version] \in Entry
           /\ [e EXCEPT !.guess = flag, !.version = version].cached = e.cached
           /\ [e EXCEPT !.guess = flag, !.version = version].owner = e.owner
  BY DEF Entry

LEMMA MissedType ==
    ASSUME NEW f \in Request
    PROVE  /\ [f EXCEPT !.missed = (f.phase = "read")] \in Request
           /\ [f EXCEPT !.missed = (f.phase = "read")].phase = f.phase
           /\ [f EXCEPT !.missed = (f.phase = "read")].owner = f.owner
           /\ [f EXCEPT !.missed = (f.phase = "read")].version = f.version
           /\ f.phase = "read" => [f EXCEPT !.missed = (f.phase = "read")].missed
  BY DEF Request

\* What an effect leaves of the fetch, and who is then cached.
Kept(s, t) == t.fetch.phase # "none" => s.fetch.phase = t.fetch.phase /\ t.fetch.owner = s.fetch.owner
Same(s, t) == t.cache.cached => s.cache.cached /\ t.cache.owner = s.cache.owner

LEMMA InvalidatedIs ==
    ASSUME NEW s \in State
    PROVE  /\ Invalidated(s) \in State /\ Kept(s, Invalidated(s)) /\ Same(s, Invalidated(s))
           /\ Invalidated(s).cache.cached = s.cache.cached
           /\ Invalidated(s).cache.version = s.cache.version
           /\ Invalidated(s).cache.late = s.cache.late
           /\ s.cache.stale => Invalidated(s).cache.stale
           /\ s.cache.cached => Invalidated(s).cache.stale /\ Invalidated(s).fetch = NoFetch
           /\ ~s.cache.cached =>
                 /\ Invalidated(s).cache = s.cache
                 /\ Invalidated(s).fetch.phase = s.fetch.phase
                 /\ Invalidated(s).fetch.phase = "read" => Invalidated(s).fetch.missed
  <1>1. s.cache \in Entry /\ s.fetch \in Request
    BY DEF State
  <1>2. CASE s.cache.cached
    <2> DEFINE c == [s.cache EXCEPT !.stale = TRUE]
    <2>1. Invalidated(s) = [cache |-> c, fetch |-> NoFetch]
      BY <1>2 DEF Invalidated
    <2>2. NoFetch.phase = "none" /\ NoFetch \in Request
      BY Blank DEF NoFetch
    <2>3. /\ c \in Entry /\ c.cached = s.cache.cached /\ c.owner = s.cache.owner
          /\ c.stale /\ c.version = s.cache.version /\ c.late = s.cache.late
      BY <1>1 DEF Entry
    <2> HIDE DEF c
    <2>4. Invalidated(s) \in State /\ Invalidated(s).cache = c /\ Invalidated(s).fetch = NoFetch
      BY <2>1, <2>2, <2>3 DEF State
    <2>5. Kept(s, Invalidated(s)) /\ Same(s, Invalidated(s))
      BY <1>2, <2>2, <2>3, <2>4 DEF Kept, Same
    <2> QED BY <1>2, <2>3, <2>4, <2>5
  <1>3. CASE ~s.cache.cached
    <2> DEFINE f == [s.fetch EXCEPT !.missed = (s.fetch.phase = "read")]
    <2>1. Invalidated(s) = [cache |-> s.cache, fetch |-> f]
      <3>1. Invalidated(s) = [s EXCEPT !.fetch.missed = (s.fetch.phase = "read")]
        BY <1>3 DEF Invalidated
      <3>2. [s EXCEPT !.fetch.missed = (s.fetch.phase = "read")] = [s EXCEPT !.fetch = f]
        OBVIOUS
      <3> HIDE DEF f
      <3>3. [s EXCEPT !.fetch = f] = [cache |-> s.cache, fetch |-> f]
        BY DEF State
      <3> QED BY <3>1, <3>2, <3>3
    <2>2. f \in Request /\ f.phase = s.fetch.phase /\ f.owner = s.fetch.owner
          /\ (f.phase = "read" => f.missed)
      BY <1>1, MissedType
    <2> HIDE DEF f
    <2> QED BY <1>1, <1>3, <2>1, <2>2 DEF State, Kept, Same
  <1> QED BY <1>2, <1>3

Stores == {"answer", "write", "settle", "restore"}
Storers(w) == {w.user} \cup {owner \in {w.before.owner} : w.before.cached}

\* Who is cached after an effect was cached before it, or the effect stores
\* something for the user of the mutation or something from before it.
LEMMA EffectedIs ==
    ASSUME NEW s \in State, NEW e \in Callback, NEW w \in Mutating
    PROVE  /\ Effected(s, e, w) \in State
           /\ Kept(s, Effected(s, e, w))
           /\ \/ Same(s, Effected(s, e, w))
              \/ /\ e.kind \in Stores /\ Bears(e, scene)
                 /\ Effected(s, e, w).cache.owner \in Storers(w)
           /\ ~Bears(e, scene) => Effected(s, e, w) = s
           /\ e.kind = "clear" => Effected(s, e, w) = [cache |-> Empty, fetch |-> NoFetch]
           /\ Bears(e, scene) /\ e.kind = "invalidate" => Effected(s, e, w) = Invalidated(s)
           /\ Bears(e, scene) /\ e.kind = "answer" =>
                 Effected(s, e, w) = [s EXCEPT !.cache = Answered(w.seen, w.user)]
  <1> DEFINE t == Effected(s, e, w)
             fresh == [s.cache EXCEPT !.stale = FALSE]
             row == IF s.cache.version = w.seen - 1 THEN w.seen ELSE s.cache.version
             entry == IF s.cache.cached THEN fresh ELSE Answered(0, w.user)
  <1>1. /\ s.cache \in Entry /\ s.fetch \in Request /\ s = [cache |-> s.cache, fetch |-> s.fetch]
        /\ w.seen \in Nat /\ w.user \in People /\ w.before \in Entry
        /\ s.cache.version \in Nat /\ s.cache.owner \in People /\ e.kind \in Kinds
    BY DEF State, Mutating, Callback, Entry
  <1>2. /\ fresh \in Entry /\ fresh.cached = s.cache.cached /\ fresh.owner = s.cache.owner
        /\ row \in Nat
    <2>1. row \in Nat
      BY <1>1
    <2> QED BY <1>1, <2>1, EntryEdits
  <1>3. /\ entry \in Entry
        /\ ~s.cache.cached => entry.cached /\ entry.owner = w.user
        /\ s.cache.cached => entry = fresh
    <2>1. CASE s.cache.cached
      BY <1>2, <2>1
    <2>2. CASE ~s.cache.cached
      BY <1>1, <2>2, AnsweredType
    <2> QED BY <2>1, <2>2
  <1>4. Watched = scene.query.key
    BY DEF Watched
  <1>5. NoFetch.phase = "none" /\ ~Empty.cached
    BY DEF NoFetch, Empty
  <1>6. \A c \in Entry : /\ [s EXCEPT !.cache = c] \in State
                         /\ [s EXCEPT !.cache = c].cache = c /\ [s EXCEPT !.cache = c].fetch = s.fetch
    BY DEF State
  <1>7. Kept(s, s) /\ Same(s, s)
    BY DEF Kept, Same
  <1>8. CASE e.kind = "clear"
    <2>1. t = [cache |-> Empty, fetch |-> NoFetch]
      BY <1>8 DEF Effected
    <2>2. t \in State /\ t.cache = Empty /\ t.fetch = NoFetch
      BY <2>1, Blank DEF State
    <2> HIDE DEF t
    <2>3. Kept(s, t) /\ Same(s, t)
      BY <1>5, <2>2 DEF Kept, Same
    <2> QED BY <1>8, <2>1, <2>2, <2>3 DEF Bears, t
  <1>9. CASE e.kind # "clear" /\ ~Covers(e.key, scene.query.key)
    <2>1. t = s
      BY <1>4, <1>9 DEF Effected
    <2> QED BY <1>7, <1>9, <2>1 DEF Bears
  <1>10. CASE e.kind # "clear" /\ Covers(e.key, scene.query.key)
    <2>1. Bears(e, scene) /\ Covers(e.key, Watched)
      BY <1>4, <1>10 DEF Bears
    <2> SUFFICES /\ t \in State /\ Kept(s, t)
                 /\ Same(s, t) \/ (e.kind \in Stores /\ t.cache.owner \in Storers(w))
                 /\ e.kind = "invalidate" => t = Invalidated(s)
                 /\ e.kind = "answer" => t = [s EXCEPT !.cache = Answered(w.seen, w.user)]
      BY <1>10, <2>1
    <2>2. CASE e.kind = "invalidate"
      <3>1. t = Invalidated(s)
        BY <2>1, <2>2 DEF Effected
      <3> QED BY <2>2, <3>1, InvalidatedIs
    <2>3. CASE e.kind = "cancel"
      <3>1. t = [s EXCEPT !.fetch = NoFetch]
        BY <2>1, <2>3 DEF Effected
      <3>2. t \in State /\ t.cache = s.cache /\ t.fetch = NoFetch
        BY <3>1, Blank DEF State
      <3> HIDE DEF t
      <3> QED BY <1>5, <2>3, <3>2 DEF Kept, Same
    <2>4. CASE e.kind = "answer"
      <3>1. t = [s EXCEPT !.cache = Answered(w.seen, w.user)]
        BY <2>1, <2>4 DEF Effected
      <3>2. Answered(w.seen, w.user) \in Entry /\ Answered(w.seen, w.user).owner = w.user
        BY <1>1, AnsweredType
      <3>3. t \in State /\ t.cache.owner = w.user /\ t.fetch = s.fetch
        BY <1>6, <3>1, <3>2
      <3> HIDE DEF t
      <3> QED BY <2>4, <3>1, <3>3 DEF Kept, Stores, Storers
    <2>5. CASE e.kind = "patch"
      <3>1. t = IF s.cache.cached THEN [s EXCEPT !.cache = [fresh EXCEPT !.version = row]] ELSE s
        BY <2>1, <2>5 DEF Effected
      <3>2. /\ [fresh EXCEPT !.version = row] \in Entry /\ [fresh EXCEPT !.version = row].owner = s.cache.owner
            /\ [fresh EXCEPT !.version = row].cached = s.cache.cached
        BY <1>2, EntryEdits
      <3> HIDE DEF t, fresh, row
      <3>3. CASE s.cache.cached
        <4>1. t \in State /\ t.cache.owner = s.cache.owner /\ t.fetch = s.fetch
          BY <1>6, <3>1, <3>2, <3>3
        <4> QED BY <2>5, <3>3, <4>1 DEF Kept, Same
      <3>4. CASE ~s.cache.cached
        BY <1>7, <2>5, <3>1, <3>4
      <3> QED BY <3>3, <3>4
    <2>6. CASE e.kind = "guess"
      <3>1. t = IF s.cache.cached THEN [s EXCEPT !.cache = [fresh EXCEPT !.guess = TRUE]] ELSE s
        BY <2>1, <2>6 DEF Effected
      <3>2. /\ [fresh EXCEPT !.guess = TRUE] \in Entry /\ [fresh EXCEPT !.guess = TRUE].owner = s.cache.owner
            /\ [fresh EXCEPT !.guess = TRUE].cached = s.cache.cached
        BY <1>2, EntryEdits
      <3> HIDE DEF t, fresh
      <3>3. CASE s.cache.cached
        <4>1. t \in State /\ t.cache.owner = s.cache.owner /\ t.fetch = s.fetch
          BY <1>6, <3>1, <3>2, <3>3
        <4> QED BY <2>6, <3>3, <4>1 DEF Kept, Same
      <3>4. CASE ~s.cache.cached
        BY <1>7, <2>6, <3>1, <3>4
      <3> QED BY <3>3, <3>4
    <2>7. CASE e.kind = "write"
      <3>1. t = [s EXCEPT !.cache = [entry EXCEPT !.guess = TRUE]]
        BY <2>1, <2>7, ZenonT(30) DEF Effected
      <3> HIDE DEF entry
      <3>2. [entry EXCEPT !.guess = TRUE] \in Entry /\ [entry EXCEPT !.guess = TRUE].owner = entry.owner
        BY <1>3, EntryEdits
      <3>3. t \in State /\ t.cache.owner = entry.owner /\ t.fetch = s.fetch
        BY <1>6, <3>1, <3>2
      <3> HIDE DEF t, fresh, entry
      <3>4. Kept(s, t)
        BY <3>3 DEF Kept
      <3>5. Same(s, t) \/ t.cache.owner = w.user
        BY <1>2, <1>3, <3>3 DEF Same
      <3> QED BY <2>7, <3>3, <3>4, <3>5 DEF Stores, Storers
    <2>8. CASE e.kind = "settle"
      <3> DEFINE c == IF entry.guess THEN [entry EXCEPT !.guess = FALSE, !.version = row] ELSE entry
      <3>1. t = [s EXCEPT !.cache = c]
        BY <2>1, <2>8 DEF Effected
      <3> HIDE DEF entry, row
      <3>2. c \in Entry /\ c.owner = entry.owner
        BY <1>2, <1>3, EntryEdits
      <3> HIDE DEF c
      <3>3. t \in State /\ t.cache.owner = entry.owner /\ t.fetch = s.fetch
        BY <1>6, <3>1, <3>2
      <3> HIDE DEF t, fresh, entry
      <3>4. Kept(s, t)
        BY <3>3 DEF Kept
      <3>5. Same(s, t) \/ t.cache.owner = w.user
        BY <1>2, <1>3, <3>3 DEF Same
      <3> QED BY <2>8, <3>3, <3>4, <3>5 DEF Stores, Storers
    <2>9. CASE e.kind = "restore"
      <3>1. t = IF w.before.cached THEN [s EXCEPT !.cache = [w.before EXCEPT !.stale = FALSE]] ELSE s
        BY <2>1, <2>9 DEF Effected
      <3>2. /\ [w.before EXCEPT !.stale = FALSE] \in Entry
            /\ [w.before EXCEPT !.stale = FALSE].owner = w.before.owner
        BY <1>1, EntryEdits
      <3> HIDE DEF t
      <3>3. CASE w.before.cached
        <4>1. t \in State /\ t.cache.owner = w.before.owner /\ t.fetch = s.fetch
          BY <1>6, <3>1, <3>2, <3>3
        <4> QED BY <2>9, <3>3, <4>1 DEF Kept, Stores, Storers
      <3>4. CASE ~w.before.cached
        BY <1>7, <2>9, <3>1, <3>4
      <3> QED BY <3>3, <3>4
    <2> HIDE DEF t
    <2> QED BY <1>1, <1>10, <2>2, <2>3, <2>4, <2>5, <2>6, <2>7, <2>8, <2>9 DEF Kinds
  <1> HIDE DEF t
  <1> QED BY <1>8, <1>9, <1>10

-----------------------------------------------------------------------------
(* A run of effects. *)

LEMMA RunIs ==
    ASSUME NEW effects \in Seq(Callback), NEW w \in Mutating, cache \in Entry, fetch \in Request
    PROVE  LET s == Ran(effects, w) IN
           /\ s \in State
           /\ s.fetch.phase # "none" => fetch.phase = s.fetch.phase /\ s.fetch.owner = fetch.owner
           /\ s.cache.cached =>
                 \/ cache.cached /\ s.cache.owner = cache.owner
                 \/ Bearing(effects, Stores, scene) # {} /\ s.cache.owner \in Storers(w)
  <1> DEFINE Stored(s) == Bearing(effects, Stores, scene) # {} /\ s.cache.owner \in Storers(w)
             Good == {s \in State : /\ s.fetch.phase # "none" => fetch.phase = s.fetch.phase /\ s.fetch.owner = fetch.owner
                                    /\ s.cache.cached => (cache.cached /\ s.cache.owner = cache.owner) \/ Stored(s)}
             S == [n \in 0..Len(effects) |-> Good]
  <1>1. Len(effects) \in Nat /\ \A n \in 1..Len(effects) : effects[n] \in Callback /\ n \in DOMAIN effects
    OBVIOUS
  <1>2. [cache |-> cache, fetch |-> fetch] \in Good
    <2>1. [cache |-> cache, fetch |-> fetch] \in State
      BY DEF State
    <2> QED BY <2>1
  <1>3. ASSUME NEW n \in 1..Len(effects), NEW s \in Good PROVE Effected(s, effects[n], w) \in Good
    <2> DEFINE t == Effected(s, effects[n], w)
    <2>1. effects[n] \in Callback /\ n \in DOMAIN effects /\ s \in State
      BY <1>1
    <2>2. /\ t \in State /\ Kept(s, t)
          /\ \/ Same(s, t)
             \/ /\ effects[n].kind \in Stores /\ Bears(effects[n], scene)
                /\ t.cache.owner \in Storers(w)
      BY <2>1, EffectedIs
    <2> HIDE DEF t
    <2>3. t.fetch.phase # "none" => fetch.phase = t.fetch.phase /\ t.fetch.owner = fetch.owner
      BY <2>2 DEF Kept
    <2>4. ASSUME t.cache.cached PROVE (cache.cached /\ t.cache.owner = cache.owner) \/ Stored(t)
      <3>1. CASE Same(s, t)
        BY <2>4, <3>1 DEF Same
      <3>2. CASE effects[n].kind \in Stores /\ Bears(effects[n], scene)
                 /\ t.cache.owner \in Storers(w)
        <4>1. n \in Bearing(effects, Stores, scene)
          BY <2>1, <3>2 DEF Bearing
        <4> QED BY <3>2, <4>1
      <3> QED BY <2>2, <3>1, <3>2
    <2>5. t \in Good
      BY <2>2, <2>3, <2>4
    <2> QED BY <2>5 DEF t
  <1> HIDE DEF Good
  <1>4. [cache |-> cache, fetch |-> fetch] \in S[0]
    BY <1>1, <1>2
  <1>5. \A n \in 1..Len(effects) : \A s \in S[n - 1] : Effected(s, effects[n], w) \in S[n]
    <2> TAKE n \in 1..Len(effects)
    <2>1. S[n - 1] = Good /\ S[n] = Good
      BY <1>1
    <2> QED BY <1>3, <2>1
  <1>6. S[Len(effects)] = Good
    BY <1>1
  <1> HIDE DEF S
  <1>7. Ran(effects, w) \in Good
    BY <1>1, <1>4, <1>5, <1>6, RunWithin
  <1> QED BY <1>7 DEF Good

\* What the last effect on the list leaves: the entry is stale or shows the change,
\* and so does the fetch in flight unless the entry will be seen to be newer.
Telling(s, seen) ==
    /\ s.cache.cached => s.cache.stale \/ s.cache.version >= seen
    /\ s.fetch.phase = "read" => s.fetch.missed \/ (s.cache.cached /\ s.cache.version >= seen)

LEMMA RunTells ==
    ASSUME NEW effects \in Seq(Callback), NEW w \in Mutating, cache \in Entry, fetch \in Request,
           NEW i \in Bearing(effects, {"clear", "invalidate", "answer"}, scene),
           \A j \in Bearing(effects, Kinds, scene) : j <= i
    PROVE  Telling(Ran(effects, w), w.seen)
  <1> DEFINE S == [n \in 0..Len(effects) |-> {s \in State : n >= i => Telling(s, w.seen)}]
  <1>1. /\ Len(effects) \in Nat /\ \A n \in 1..Len(effects) : effects[n] \in Callback /\ n \in DOMAIN effects
        /\ i \in 1..Len(effects) /\ Bears(effects[i], scene)
        /\ effects[i].kind \in {"clear", "invalidate", "answer"}
    BY DEF Bearing
  <1>2. w.seen \in Nat /\ w.user \in People
    BY DEF Mutating
  <1>3. [cache |-> cache, fetch |-> fetch] \in S[0]
    <2>1. [cache |-> cache, fetch |-> fetch] \in State
      BY DEF State
    <2> QED BY <1>1, <2>1
  <1>4. ASSUME NEW n \in 1..Len(effects), NEW s \in S[n - 1] PROVE Effected(s, effects[n], w) \in S[n]
    <2> DEFINE t == Effected(s, effects[n], w)
    <2>1. n - 1 \in 0..Len(effects) /\ n \in 0..Len(effects) /\ effects[n] \in Callback /\ n \in DOMAIN effects
      BY <1>1
    <2>2. s \in State /\ (n - 1 >= i => Telling(s, w.seen))
      BY <2>1
    <2>3. t \in State
      BY <2>1, <2>2, EffectedIs
    <2>4. ASSUME n = i PROVE Telling(t, w.seen)
      <3>1. CASE effects[i].kind = "clear"
        <4>1. t = [cache |-> Empty, fetch |-> NoFetch]
          BY <2>1, <2>2, <2>4, <3>1, EffectedIs
        <4> QED BY <4>1 DEF Telling, Empty, NoFetch
      <3>2. CASE effects[i].kind = "invalidate"
        <4>1. t = Invalidated(s)
          BY <1>1, <2>1, <2>2, <2>4, <3>2, EffectedIs
        <4>2. NoFetch.phase # "read"
          BY DEF NoFetch
        <4> HIDE DEF t
        <4> QED BY <2>2, <4>1, <4>2, InvalidatedIs DEF Telling
      <3>3. CASE effects[i].kind = "answer"
        <4>1. t = [s EXCEPT !.cache = Answered(w.seen, w.user)]
          BY <1>1, <2>1, <2>2, <2>4, <3>3, EffectedIs
        <4>2. t.cache = Answered(w.seen, w.user)
          BY <2>2, <4>1 DEF State
        <4>3. t.cache.cached /\ t.cache.version = w.seen
          BY <1>2, <4>2, AnsweredType
        <4> HIDE DEF t
        <4> QED BY <1>2, <4>3 DEF Telling
      <3> QED BY <1>1, <3>1, <3>2, <3>3
    <2>5. ASSUME n > i PROVE Telling(t, w.seen)
      <3>1. n \notin Bearing(effects, Kinds, scene)
        BY <1>1, <2>5
      <3>2. effects[n].kind \in Kinds
        BY <2>1 DEF Callback
      <3>3. ~Bears(effects[n], scene)
        BY <2>1, <3>1, <3>2 DEF Bearing
      <3>4. t = s
        BY <2>1, <2>2, <3>3, EffectedIs
      <3>5. n - 1 >= i
        BY <1>1, <2>5
      <3> QED BY <2>2, <3>4, <3>5
    <2> HIDE DEF t
    <2>6. n >= i => Telling(t, w.seen)
      BY <1>1, <2>4, <2>5
    <2>7. t \in S[n]
      BY <2>1, <2>3, <2>6
    <2> QED BY <2>7 DEF t
  <1>5. Len(effects) >= i /\ Len(effects) \in 0..Len(effects)
    BY <1>1
  <1>6. S[Len(effects)] = {s \in State : Len(effects) >= i => Telling(s, w.seen)}
    BY <1>5
  <1> HIDE DEF S
  <1>7. Ran(effects, w) \in S[Len(effects)]
    BY <1>1, <1>3, <1>4, RunWithin
  <1> QED BY <1>5, <1>6, <1>7

-----------------------------------------------------------------------------
(* The callbacks of the scene. *)

LEMMA SceneIs ==
    ASSUME scene \in Scenes
    PROVE  /\ scene.query.key \in Seq(STRING)
           /\ scene.mutation.before \in Seq(Callback)
           /\ scene.mutation.succeeded \in Seq(Callback)
           /\ scene.mutation.failed \in Seq(Callback)
           /\ scene.mutation.steps \in Seq(SUBSET AllCalls)
           /\ scene.mutation # NoMutation => Len(scene.mutation.steps) > 0
  BY PagesShaped

\* What a scene says of the calls is so, whichever page it is of.
LEMMA SceneRefuses ==
    ASSUME NEW sc \in Scenes, NEW user \in People
    PROVE  /\ sc.changing \subseteq CallsOf(sc.mutation)
           /\ sc.refused[user] = {call \in sc.query.calls \cup CallsOf(sc.mutation) : ~Accepts(user, call)}
  <1>1. PICK page, q, m : sc = Scene(page, q, m)
    BY DEF Scenes
  <1>2. /\ sc.query = q /\ sc.mutation = m
        /\ sc.changing = {call \in CallsOf(m) : WrittenBy(call) \cap Subject(q) # {}}
        /\ sc.refused = [u \in People |-> {call \in q.calls \cup CallsOf(m) : ~Accepts(u, call)}]
    BY <1>1 DEF Scene, People
  <1>3. sc.refused[user] = {call \in q.calls \cup CallsOf(m) : ~Accepts(user, call)}
    BY <1>2
  <1> QED BY <1>2, <1>3

\* A callback that stores an answer has an effect that WroteBack names.
LEMMA StoresAfter ==
    ASSUME scene \in Scenes, NEW effects \in {scene.mutation.succeeded, scene.mutation.failed},
           Bearing(effects, Stores, scene) # {}
    PROVE  \E i \in DOMAIN effects : /\ effects[i].kind \in {"answer", "restore", "settle"}
                                     /\ Covers(effects[i].key, Watched)
  <1>1. PICK i \in DOMAIN effects : effects[i].kind \in Stores /\ Bears(effects[i], scene)
    BY DEF Bearing
  <1>2. Bearing(effects, {"write"}, scene) = {}
    BY WritesComeFirst
  <1>3. effects[i].kind # "write"
    BY <1>1, <1>2 DEF Bearing
  <1> QED BY <1>1, <1>3 DEF Stores, Bears, Watched

\* What a visitor does leaves the cache alone.
LEMMA VisitorStoresNothing ==
    ASSUME scene \in Scenes, scene.guard.open
    PROVE  /\ scene.query = NoQuery
           /\ Bearing(scene.mutation.before, Stores, scene) = {}
  <1>1. scene.query = NoQuery
    BY VisitorsKeepNothing
  <1>2. scene.query.key = <<>>
    BY <1>1 DEF NoQuery, Query
  <1>3. ASSUME NEW i \in DOMAIN scene.mutation.before, scene.mutation.before[i].kind \in Stores
        PROVE  ~Bears(scene.mutation.before[i], scene)
    <2>1. scene.mutation.before[i].kind # "clear"
      BY <1>3 DEF Stores
    <2>2. scene.mutation.before[i].key # <<>>
      BY <2>1, VisitorsKeepNothing
    <2>3. scene.mutation.before[i].key \in Seq(STRING)
      <3>1. scene.mutation.before[i] \in Callback
        BY SceneIs
      <3> QED BY <3>1 DEF Callback
    <2>4. ~(Len(scene.mutation.before[i].key) <= Len(scene.query.key))
      BY <1>2, <2>2, <2>3
    <2> QED BY <2>1, <2>4 DEF Bears, Covers
  <1> QED BY <1>1, <1>3 DEF Bearing

LEMMA LeastExists ==
    ASSUME NEW T \in SUBSET Nat, T # {}
    PROVE  \E i \in T : \A j \in T : i <= j
  <1>1. PICK n \in T : \A m \in T : ~(<<m, n>> \in Below)
    BY WFMin, NatWellFounded
  <1>2. \A m \in T : ~(m < n)
    BY <1>1 DEF Below
  <1> QED BY <1>2

\* What runs when a success callback throws: a part of it and the failure callback.
Caught ==
    LET effects == scene.mutation.succeeded
        first == CHOOSE i \in Throwing(effects) : \A j \in Throwing(effects) : i <= j
    IN SubSeq(effects, 1, first - 1) \o scene.mutation.failed

LEMMA CaughtIs ==
    ASSUME scene \in Scenes, Throwing(scene.mutation.succeeded) # {}
    PROVE  /\ Caught \in Seq(Callback)
           /\ \A i \in DOMAIN Caught :
                 \/ \E j \in DOMAIN scene.mutation.succeeded : Caught[i] = scene.mutation.succeeded[j]
                 \/ \E j \in DOMAIN scene.mutation.failed : Caught[i] = scene.mutation.failed[j]
  <1> DEFINE effects == scene.mutation.succeeded
             failed == scene.mutation.failed
             first == CHOOSE i \in Throwing(effects) : \A j \in Throwing(effects) : i <= j
             part == SubSeq(effects, 1, first - 1)
  <1>1. effects \in Seq(Callback) /\ failed \in Seq(Callback)
    BY SceneIs
  <1>2. Throwing(effects) \subseteq 1..Len(effects)
    BY <1>1 DEF Throwing
  <1>3. first \in Throwing(effects)
    <2>1. \E i \in Throwing(effects) : \A j \in Throwing(effects) : i <= j
      <3>1. Throwing(effects) \in SUBSET Nat
        BY <1>1, <1>2
      <3> QED BY <3>1, LeastExists
    <2> QED BY <2>1
  <1>4. Caught = part \o failed
    BY DEF Caught
  <1>5. first \in 1..Len(effects)
    BY <1>2, <1>3
  <1> HIDE DEF effects, failed, first
  <1>6. /\ part \in Seq(Callback) /\ Len(part) = first - 1
        /\ \A i \in 1..(first - 1) : part[i] = effects[i]
    BY <1>1, <1>5
  <1> HIDE DEF part
  <1>7. /\ Caught \in Seq(Callback) /\ Len(Caught) = Len(part) + Len(failed)
        /\ \A i \in DOMAIN Caught : Caught[i] = IF i <= Len(part) THEN part[i] ELSE failed[i - Len(part)]
    <2>1. Len(part \o failed) = Len(part) + Len(failed) /\ part \o failed \in Seq(Callback)
      BY <1>1, <1>6
    <2>2. DOMAIN (part \o failed) = 1..(Len(part) + Len(failed))
      BY <2>1
    <2>3. \A i \in 1..(Len(part) + Len(failed)) :
             (part \o failed)[i] = IF i <= Len(part) THEN part[i] ELSE failed[i - Len(part)]
      BY <1>1, <1>6
    <2> QED BY <1>4, <2>1, <2>2, <2>3
  <1>8. ASSUME NEW i \in DOMAIN Caught
        PROVE  (\E j \in DOMAIN effects : Caught[i] = effects[j]) \/ (\E j \in DOMAIN failed : Caught[i] = failed[j])
    <2>1. CASE i <= Len(part)
      <3>1. i \in 1..(first - 1) /\ i \in DOMAIN effects
        BY <1>1, <1>5, <1>6, <1>7, <2>1
      <3>2. Caught[i] = effects[i]
        BY <1>6, <1>7, <2>1, <3>1
      <3> QED BY <3>1, <3>2
    <2>2. CASE ~(i <= Len(part))
      <3>1. i - Len(part) \in DOMAIN failed
        BY <1>1, <1>5, <1>6, <1>7, <2>2
      <3> QED BY <1>7, <2>2, <3>1
    <2> QED BY <2>1, <2>2
  <1> QED BY <1>7, <1>8 DEF effects, failed

\* A callback throws over a page only, and then nothing is stored in it.
LEMMA CaughtStoresNothing ==
    ASSUME scene \in Scenes, Throwing(scene.mutation.succeeded) # {}
    PROVE  /\ scene.mutation.name \in PagesPatched
           /\ Bearing(Caught, Stores, scene) = {}
  <1>1. PICK i \in DOMAIN scene.mutation.succeeded :
           /\ scene.mutation.succeeded[i].kind = "patch"
           /\ Covers(scene.mutation.succeeded[i].key, Watched) /\ scene.paged
    BY DEF Throwing
  <1>2. scene.paged /\ Bearing(scene.mutation.succeeded, {"patch"}, scene) # {}
    BY <1>1 DEF Bearing, Bears, Watched
  <1>3. /\ scene.mutation.name \in PagesPatched
        /\ \A effects \in {scene.mutation.succeeded, scene.mutation.failed} :
              \A j \in DOMAIN effects : effects[j].kind \in Stores => ~Bears(effects[j], scene)
    BY <1>2, WritesComeFirst DEF Bearing, Stores
  <1>4. \A j \in DOMAIN Caught : Caught[j].kind \in Stores => ~Bears(Caught[j], scene)
    BY <1>3, CaughtIs
  <1> QED BY <1>3, <1>4 DEF Bearing

-----------------------------------------------------------------------------
(* Types. *)

LEMMA InitType == Init => TypeOK
  BY Blank DEF Init, TypeOK, People, Mutating

\* What a run of effects does to the cache and to the fetch.
LEMMA RunEnds ==
    ASSUME TypeOK, NEW effects \in Seq(Callback), NEW w \in Mutating, Run(effects, w)
    PROVE  /\ cache' \in Entry /\ fetch' \in Request
           /\ fetch'.phase # "none" => fetch.phase = fetch'.phase /\ fetch'.owner = fetch.owner
           /\ cache'.cached =>
                 \/ cache.cached /\ cache'.owner = cache.owner
                 \/ Bearing(effects, Stores, scene) # {} /\ cache'.owner \in Storers(w)
  <1> DEFINE s == Ran(effects, w)
  <1>1. cache' = s.cache /\ fetch' = s.fetch
    BY DEF Run
  <1>2. /\ s \in State
        /\ s.fetch.phase # "none" => fetch.phase = s.fetch.phase /\ s.fetch.owner = fetch.owner
        /\ s.cache.cached =>
              \/ cache.cached /\ s.cache.owner = cache.owner
              \/ Bearing(effects, Stores, scene) # {} /\ s.cache.owner \in Storers(w)
    BY RunIs DEF TypeOK
  <1> HIDE DEF s
  <1>3. s.cache \in Entry /\ s.fetch \in Request
    BY <1>2 DEF State
  <1> QED BY <1>1, <1>2, <1>3

LEMMA HeardIs ==
    ASSUME NEW effect \in Heard
    PROVE  /\ <<effect>> \in Seq(Callback) /\ effect.kind = "invalidate"
           /\ Bearing(<<effect>>, Stores, scene) = {}
  <1>1. effect \in Callback /\ effect.kind = "invalidate"
    BY PagesShaped DEF Heard, Invalidate, Effect
  <1>2. \A i \in DOMAIN <<effect>> : <<effect>>[i] = effect
    OBVIOUS
  <1>3. Bearing(<<effect>>, Stores, scene) = {}
    BY <1>1, <1>2 DEF Bearing, Stores
  <1> QED BY <1>1, <1>3

LEMMA UseType ==
    ASSUME TypeOK, Use
    PROVE  /\ work' \in Mutating /\ work'.user = session.user /\ work'.phase = "sent"
           /\ work'.seen = 0 /\ work'.before \in {Empty, cache}
           /\ work'.done = 0 /\ scene.mutation # NoMutation
           /\ work.phase = "idle" /\ Admits(scene.guard, session.user)
           /\ Offered(scene.mutation, session.user)
           /\ Run(scene.mutation.before, work')
           /\ UNCHANGED <<scene, session, commits>>
  <1> DEFINE before == IF scene.mutation.before = <<>> THEN Empty ELSE cache
  <1>1. before \in Entry /\ before \in {Empty, cache}
    BY Blank DEF TypeOK
  <1>2. work' = [Idle EXCEPT !.user = session.user, !.phase = "sent", !.before = before]
    BY DEF Use, OnPage
  <1> HIDE DEF before
  <1>3. session.user \in People
    BY DEF TypeOK
  <1>4. /\ work' \in Mutating /\ work'.user = session.user /\ work'.phase = "sent"
        /\ work'.seen = 0 /\ work'.done = 0 /\ work'.before = before
    BY <1>1, <1>2, <1>3 DEF Idle, Mutating, Phases
  <1> QED BY <1>1, <1>4 DEF Use, OnPage

\* A step of the mutation that the server takes.
LEMMA CommitType ==
    ASSUME TypeOK, NEW call, Commit(call)
    PROVE  /\ work' \in Mutating /\ commits' \in Nat /\ commits <= commits'
           /\ work'.user = work.user /\ work'.before = work.before
           /\ work'.phase \in {"sent", "answered"} /\ work'.done = work.done + 1
           /\ work'.phase = "sent" => work.done + 1 # Len(scene.mutation.steps)
           /\ work'.seen = work.seen \/ (call \in scene.changing /\ work'.seen = commits')
           /\ call \notin scene.refused[Sender]
           /\ UNCHANGED <<scene, session, cache, fetch>>
  <1> DEFINE phase == IF work.done + 1 = Len(scene.mutation.steps) THEN "answered" ELSE "sent"
             seen == IF call \in scene.changing THEN commits + 1 ELSE work.seen
  <1>1. work \in Mutating /\ commits \in Nat
    BY DEF TypeOK, Mutating
  <1>2. work.done + 1 \in Nat /\ seen \in Nat /\ phase \in {"sent", "answered"}
    BY <1>1 DEF Mutating
  <1>3. work' = [work EXCEPT !.done = work.done + 1, !.seen = seen, !.phase = phase]
    BY DEF Commit
  <1>4. seen = work.seen \/ (call \in scene.changing /\ seen = commits')
    BY DEF Commit
  <1>0. phase = "sent" => work.done + 1 # Len(scene.mutation.steps)
    OBVIOUS
  <1> HIDE DEF phase, seen
  <1>5. /\ work' \in Mutating /\ work'.user = work.user /\ work'.before = work.before
        /\ work'.phase = phase /\ work'.seen = seen /\ work'.done = work.done + 1
    BY <1>1, <1>2, <1>3 DEF Mutating, Phases
  <1>6. commits' \in Nat /\ commits <= commits'
    BY <1>1 DEF Commit
  <1> QED BY <1>0, <1>2, <1>4, <1>5, <1>6 DEF Commit

\* The last answer of the mutation: which callbacks ran.
Ended(phase, effects) ==
    /\ work' = [work EXCEPT !.phase = phase]
    /\ Run(effects, work)
    /\ UNCHANGED <<scene, session, commits>>

LEMMA EndedIs ==
    ASSUME TypeOK, (\E call \in Step : Refuse(call)) \/ Fail \/ Answer \/ Throw
    PROVE  \E effects \in Seq(Callback), phase \in {"told", "threw", "failed", "refused"} :
              /\ Ended(phase, effects)
              /\ \/ phase = "told" /\ effects = scene.mutation.succeeded /\ work.phase = "answered"
                 \/ phase \in {"failed", "refused"} /\ effects = scene.mutation.failed
                 \/ /\ phase = "threw" /\ effects = Caught
                    /\ Throwing(scene.mutation.succeeded) # {}
  <1>1. /\ scene \in Scenes
        /\ scene.mutation.succeeded \in Seq(Callback) /\ scene.mutation.failed \in Seq(Callback)
    BY SceneIs DEF TypeOK
  <1>2. ASSUME NEW call \in Step, Refuse(call)
        PROVE  \E phase \in {"failed", "refused"} : Ended(phase, scene.mutation.failed)
    <2>1. work' = [work EXCEPT !.phase = "refused"] \/ work' = [work EXCEPT !.phase = "failed"]
      BY <1>2 DEF Refuse
    <2>2. Run(scene.mutation.failed, work) /\ UNCHANGED <<scene, session, commits>>
      BY <1>2 DEF Refuse
    <2> QED BY <2>1, <2>2 DEF Ended
  <1>3. ASSUME Fail PROVE Ended("failed", scene.mutation.failed)
    BY <1>3 DEF Fail, Ended
  <1>4. ASSUME Answer PROVE Ended("told", scene.mutation.succeeded) /\ work.phase = "answered"
    BY <1>4 DEF Answer, Ended
  <1>5. ASSUME Throw PROVE Ended("threw", Caught) /\ Throwing(scene.mutation.succeeded) # {}
    BY <1>5 DEF Throw, Ended, Caught
  <1>6. CASE \E call \in Step : Refuse(call)
    BY <1>1, <1>2, <1>6
  <1>7. CASE Fail
    BY <1>1, <1>3, <1>7
  <1>8. CASE Answer
    BY <1>1, <1>4, <1>8
  <1>9. CASE Throw
    BY <1>1, <1>5, <1>9, CaughtIs
  <1> QED BY <1>6, <1>7, <1>8, <1>9

LEMMA EndedType ==
    ASSUME TypeOK, NEW effects \in Seq(Callback), NEW phase \in Phases, Ended(phase, effects)
    PROVE  /\ work' \in Mutating /\ work'.phase = phase /\ work'.user = work.user
           /\ work'.seen = work.seen /\ work'.before = work.before /\ work'.done = work.done
  BY DEF Ended, TypeOK, Mutating

\* What a fetch starts with and what it leaves.
LEMMA FetchIs ==
    ASSUME TypeOK, Fetch
    PROVE  /\ fetch' \in Request /\ fetch'.owner = session.user
           /\ fetch'.version = VersionFor(session.user) /\ VersionFor(session.user) \in Nat
           /\ fetch'.phase \in {"read", "refused"}
           /\ scene.query # NoQuery /\ Admits(scene.guard, session.user)
           /\ UNCHANGED <<scene, session, cache, work, commits>>
  <1> DEFINE phase == IF scene.query.calls \cap scene.refused[session.user] = {} THEN "read" ELSE "refused"
  <1>1. VersionFor(session.user) \in Nat /\ session.user \in People
    BY DEF VersionFor, TypeOK
  <1>2. fetch' = [NoFetch EXCEPT !.phase = phase, !.version = VersionFor(session.user), !.owner = session.user]
    BY DEF Fetch, OnPage
  <1>3. phase \in {"read", "refused"}
    OBVIOUS
  <1> HIDE DEF phase
  <1>4. /\ fetch' \in Request /\ fetch'.owner = session.user /\ fetch'.phase = phase
        /\ fetch'.version = VersionFor(session.user)
    BY <1>1, <1>2, <1>3 DEF NoFetch, Request
  <1> QED BY <1>1, <1>3, <1>4 DEF Fetch, OnPage

LEMMA ArriveIs ==
    ASSUME TypeOK, Arrive
    PROVE  /\ cache' \in Entry /\ cache'.owner = fetch.owner /\ cache'.version = fetch.version
           /\ cache'.late <=> fetch.missed \/ (cache.cached /\ fetch.version < cache.version)
           /\ fetch.phase = "read" /\ fetch' = NoFetch
           /\ UNCHANGED <<scene, session, work, commits>>
  <1> DEFINE late == fetch.missed \/ (cache.cached /\ fetch.version < cache.version)
  <1>1. fetch.version \in Nat /\ fetch.owner \in People /\ late \in BOOLEAN
    BY DEF TypeOK, Request
  <1>2. Answered(fetch.version, fetch.owner) \in Entry
    BY <1>1, AnsweredType
  <1>3. cache' = [Answered(fetch.version, fetch.owner) EXCEPT !.late = late]
    BY DEF Arrive
  <1>4. /\ Answered(fetch.version, fetch.owner).owner = fetch.owner
        /\ Answered(fetch.version, fetch.owner).version = fetch.version
    BY <1>1, AnsweredType
  <1> HIDE DEF late
  <1>5. /\ cache' \in Entry /\ cache'.owner = fetch.owner /\ cache'.version = fetch.version
        /\ cache'.late = late
    BY <1>1, <1>2, <1>3, <1>4 DEF Entry
  <1> QED BY <1>5 DEF Arrive, late

LEMMA NextType == TypeOK /\ [Next]_vars => TypeOK'
  <1> SUFFICES ASSUME TypeOK, [Next]_vars PROVE TypeOK'
    OBVIOUS
  <1> USE DEF Mutating
  <1>1. ASSUME NEW user \in Users, SignIn(user) \/ Impersonate(user) \/ EnterWorkspace(user) PROVE TypeOK'
    <2>1. user \in People /\ Visitor \in People /\ session \in [user : People, stash : People, lent : BOOLEAN]
      BY DEF TypeOK, People
    <2>2. session' \in [user : People, stash : People, lent : BOOLEAN]
      <3>1. CASE SignIn(user)
        BY <2>1, <3>1 DEF SignIn
      <3>2. CASE Impersonate(user)
        BY <2>1, <3>2 DEF Impersonate
      <3>3. CASE EnterWorkspace(user)
        BY <2>1, <3>3 DEF EnterWorkspace
      <3> QED BY <1>1, <3>1, <3>2, <3>3
    <2>3. cache' \in {cache, Empty} /\ fetch' \in {fetch, NoFetch} /\ UNCHANGED <<scene, work, commits>>
      BY <1>1 DEF SignIn, Impersonate, EnterWorkspace
    <2> QED BY <2>2, <2>3, Blank DEF TypeOK
  <1>2. CASE SignOut \/ Expire
    <2>1. session' \in [user : People, stash : People, lent : BOOLEAN]
      <3>1. session' = [user |-> Visitor, stash |-> Visitor, lent |-> FALSE]
        BY <1>2 DEF SignOut, Expire
      <3>2. Visitor \in People
        BY DEF People
      <3> QED BY <3>1, <3>2
    <2>2. /\ cache' = Empty /\ fetch' = NoFetch /\ work' \in {work, Idle} /\ commits' \in {commits, 0}
          /\ UNCHANGED scene
      BY <1>2 DEF SignOut, Expire
    <2> QED BY <2>1, <2>2, Blank DEF TypeOK
  <1>3. CASE StopImpersonation
    BY <1>3 DEF StopImpersonation, TypeOK, People
  <1>4. CASE Fetch
    BY <1>4, FetchIs DEF TypeOK
  <1>5. CASE Arrive
    BY <1>5, ArriveIs, Blank DEF TypeOK
  <1>6. CASE Lose
    BY <1>6, Blank DEF Lose, TypeOK
  <1>7. CASE Hear
    <2>1. PICK effect \in Heard : Run(<<effect>>, work)
      BY <1>7 DEF Hear
    <2>2. cache' \in Entry /\ fetch' \in Request
      BY <2>1, HeardIs, RunEnds DEF TypeOK
    <2> QED BY <1>7, <2>2 DEF Hear, TypeOK
  <1>8. CASE Use
    <2>1. work' \in Mutating /\ Run(scene.mutation.before, work') /\ UNCHANGED <<scene, session, commits>>
      BY <1>8, UseType
    <2>2. cache' \in Entry /\ fetch' \in Request
      BY <2>1, SceneIs, RunEnds DEF TypeOK
    <2> QED BY <2>1, <2>2 DEF TypeOK
  <1>9. ASSUME NEW call, Commit(call) PROVE TypeOK'
    BY <1>9, CommitType DEF TypeOK
  <1>10. CASE (\E call \in Step : Refuse(call)) \/ Fail \/ Answer \/ Throw
    <2>1. PICK effects \in Seq(Callback), phase \in {"told", "threw", "failed", "refused"} :
             Ended(phase, effects)
      BY <1>10, EndedIs
    <2>2. work' \in Mutating
      BY <2>1, EndedType DEF Phases
    <2>3. work \in Mutating /\ Run(effects, work) /\ UNCHANGED <<scene, session, commits>>
      BY <2>1 DEF Ended, TypeOK
    <2>4. cache' \in Entry /\ fetch' \in Request
      BY <2>3, RunEnds
    <2> QED BY <2>2, <2>3, <2>4 DEF TypeOK
  <1>11. CASE UNCHANGED vars
    BY <1>11 DEF vars, TypeOK
  <1> QED BY <1>1, <1>2, <1>3, <1>4, <1>5, <1>6, <1>7, <1>8, <1>9, <1>10, <1>11 DEF Next

-----------------------------------------------------------------------------
(* Who is shown what. *)

LEMMA InitOwner == Init => SessionInv /\ OwnerInv
  BY DEF Init, SessionInv, OwnerInv, Empty, NoFetch

LEMMA NextSession == TypeOK /\ SessionInv /\ [Next]_vars => SessionInv'
  <1> SUFFICES ASSUME TypeOK, SessionInv, [Next]_vars PROVE SessionInv'
    OBVIOUS
  <1>0. session = [user |-> session.user, stash |-> session.stash, lent |-> session.lent]
    BY DEF TypeOK
  <1>1. ASSUME NEW user \in Users, SignIn(user) PROVE SessionInv'
    BY <1>1, VisitorIsNobody DEF SignIn, SessionInv
  <1>2. ASSUME NEW user \in Users, Impersonate(user) PROVE SessionInv'
    BY <1>2, VisitorIsNobody DEF Impersonate, SessionInv
  <1>3. ASSUME NEW user \in Users, EnterWorkspace(user) PROVE SessionInv'
    <2>1. session.user \in Users
      BY <1>3 DEF EnterWorkspace, TypeOK, People
    <2>2. session.stash = Visitor
      BY <1>3, <2>1, AdminsAreOwners DEF EnterWorkspace, SessionInv
    <2> QED BY <1>0, <1>3, <2>2, VisitorIsNobody DEF EnterWorkspace, SessionInv
  <1>4. CASE SignOut \/ Expire
    BY <1>4 DEF SignOut, Expire, SessionInv
  <1>5. CASE StopImpersonation
    BY <1>0, <1>5 DEF StopImpersonation, SessionInv
  <1>6. ASSUME UNCHANGED session PROVE SessionInv'
    BY <1>6 DEF SessionInv
  <1>7. CASE Fetch \/ Arrive \/ Lose \/ Hear \/ Use \/ (\E call \in Step : Commit(call) \/ Refuse(call))
             \/ Fail \/ Answer \/ Throw \/ UNCHANGED vars
    BY <1>6, <1>7 DEF Fetch, Arrive, Lose, Hear, Use, Commit, Refuse, Fail, Answer, Throw, vars
  <1> QED BY <1>1, <1>2, <1>3, <1>4, <1>5, <1>7 DEF Next

\* What was written back stays so as long as the mutation and the entry do.
LEMMA WroteBackStays ==
    ASSUME UNCHANGED <<scene, work>>, cache'.owner = cache.owner
    PROVE  WroteBack' <=> WroteBack
  <1>1. Watched' = Watched
    BY DEF Watched
  <1>2. work' = work /\ scene' = scene
    OBVIOUS
  <1> QED BY <1>1, <1>2 DEF WroteBack

\* A run of the callbacks of an ended mutation.
LEMMA EndedOwner ==
    ASSUME TypeOK, OwnerInv, (\E call \in Step : work.phase = "sent" /\ Refuse(call)) \/ Fail \/ Answer \/ Throw
    PROVE  OwnerInv'
  <1>1. PICK effects \in Seq(Callback), phase \in {"told", "threw", "failed", "refused"} :
           /\ Ended(phase, effects)
           /\ \/ phase = "told" /\ effects = scene.mutation.succeeded /\ work.phase = "answered"
              \/ phase \in {"failed", "refused"} /\ effects = scene.mutation.failed
              \/ /\ phase = "threw" /\ effects = Caught
                 /\ Throwing(scene.mutation.succeeded) # {}
    BY EndedIs
  <1>2. work.phase \in {"sent", "answered"} /\ ~WroteBack
    BY DEF Fail, Answer, Throw, WroteBack
  <1>3. /\ fetch'.phase = "read" => fetch.phase = "read" /\ fetch'.owner = fetch.owner
        /\ cache'.cached =>
              \/ cache.cached /\ cache'.owner = cache.owner
              \/ Bearing(effects, Stores, scene) # {} /\ cache'.owner \in Storers(work)
    BY <1>1, RunEnds DEF Ended, TypeOK, Mutating
  <1>4. ASSUME cache'.cached, Bearing(effects, Stores, scene) # {}, cache'.owner \in Storers(work)
        PROVE  WroteBack'
    <2>1. phase # "threw"
      BY <1>1, <1>4, CaughtStoresNothing DEF TypeOK
    <2>2. /\ effects \in {scene.mutation.succeeded, scene.mutation.failed}
          /\ phase \in {"told", "failed", "refused"}
      BY <1>1, <2>1
    <2>3. \E i \in DOMAIN effects : /\ effects[i].kind \in {"answer", "restore", "settle"}
                                    /\ Covers(effects[i].key, Watched)
      BY <1>4, <2>2, StoresAfter DEF TypeOK
    <2>4. work'.phase = phase /\ work'.user = work.user /\ work'.before = work.before
      BY <1>1, EndedType DEF Phases
    <2>5. scene' = scene /\ Watched' = Watched
      BY <1>1 DEF Ended, Watched
    <2>6. cache'.owner \in {work'.user, work'.before.owner}
      BY <1>4, <2>4 DEF Storers
    <2> QED BY <2>2, <2>3, <2>4, <2>5, <2>6 DEF WroteBack
  <1>5. session' = session
    BY <1>1 DEF Ended
  <1> QED BY <1>2, <1>3, <1>4, <1>5 DEF OwnerInv, MayShow

LEMMA UseOwner ==
    ASSUME TypeOK, OwnerInv, Use
    PROVE  OwnerInv'
  <1>1. /\ work' \in Mutating /\ work'.user = session.user /\ work'.before \in {Empty, cache}
        /\ work.phase = "idle" /\ Admits(scene.guard, session.user)
        /\ Run(scene.mutation.before, work') /\ UNCHANGED <<scene, session>>
    BY UseType
  <1>2. ~WroteBack
    BY <1>1 DEF WroteBack
  <1>3. /\ fetch'.phase = "read" => fetch.phase = "read" /\ fetch'.owner = fetch.owner
        /\ cache'.cached =>
              \/ cache.cached /\ cache'.owner = cache.owner
              \/ Bearing(scene.mutation.before, Stores, scene) # {} /\ cache'.owner \in Storers(work')
    BY <1>1, SceneIs, RunEnds DEF TypeOK
  <1>4. CASE session.user = Visitor
    <2>1. Bearing(scene.mutation.before, Stores, scene) = {}
      BY <1>1, <1>4, VisitorStoresNothing DEF TypeOK, Admits
    <2> QED BY <1>1, <1>2, <1>3, <1>4, <2>1 DEF OwnerInv
  <1>5. CASE session.user # Visitor
    <2>1. ASSUME cache'.cached PROVE MayShow(cache'.owner)
      <3>1. CASE cache.cached /\ cache'.owner = cache.owner
        BY <1>2, <3>1 DEF OwnerInv
      <3>2. CASE cache'.owner = work'.user
        BY <1>1, <3>2 DEF MayShow
      <3>3. CASE work'.before.cached /\ cache'.owner = work'.before.owner
        <4>1. cache.cached /\ cache'.owner = cache.owner
          BY <1>1, <3>3 DEF Empty
        <4> QED BY <1>2, <4>1 DEF OwnerInv
      <3> QED BY <1>3, <2>1, <3>1, <3>2, <3>3 DEF Storers
    <2> QED BY <1>1, <1>3, <1>5, <2>1 DEF OwnerInv, MayShow
  <1> QED BY <1>4, <1>5

LEMMA NextOwner == TypeOK /\ SessionInv /\ OwnerInv /\ [Next]_vars => OwnerInv'
  <1> SUFFICES ASSUME TypeOK, SessionInv, OwnerInv, [Next]_vars PROVE OwnerInv'
    OBVIOUS
  <1>0. NoFetch.phase # "read" /\ ~Empty.cached
    BY DEF NoFetch, Empty
  <1>1. ASSUME NEW user \in Users, SignIn(user) PROVE OwnerInv'
    <2>1. session.user = Visitor /\ session'.user = user /\ UNCHANGED <<scene, cache, fetch, work>>
      BY <1>1 DEF SignIn
    <2>2. WroteBack' <=> WroteBack
      BY <2>1, WroteBackStays
    <2> QED BY <2>1, <2>2, VisitorIsNobody DEF OwnerInv
  <1>2. ASSUME NEW user \in Users, Impersonate(user) PROVE OwnerInv'
    <2>1. /\ session'.user = user /\ session'.lent /\ user.workspace = session.user.workspace
          /\ UNCHANGED <<scene, cache, fetch, work>>
      BY <1>2 DEF Impersonate
    <2>2. WroteBack' <=> WroteBack
      BY <2>1, WroteBackStays
    <2> QED BY <2>1, <2>2, VisitorIsNobody DEF OwnerInv, MayShow
  <1>3. ASSUME NEW user \in Users, EnterWorkspace(user) PROVE OwnerInv'
    <2>1. cache' = Empty /\ fetch' = NoFetch
      BY <1>3 DEF EnterWorkspace
    <2> QED BY <1>0, <2>1 DEF OwnerInv
  <1>4. CASE SignOut \/ Expire
    <2>1. cache' = Empty /\ fetch' = NoFetch
      BY <1>4 DEF SignOut, Expire
    <2> QED BY <1>0, <2>1 DEF OwnerInv
  <1>5. CASE StopImpersonation
    <2>1. /\ session.stash # Visitor /\ session'.user = session.stash /\ session'.lent = session.lent
          /\ UNCHANGED <<scene, cache, fetch, work>>
      BY <1>5 DEF StopImpersonation, TypeOK
    <2>2. WroteBack' <=> WroteBack
      BY <2>1, WroteBackStays
    <2> QED BY <2>1, <2>2 DEF OwnerInv, MayShow, SessionInv
  <1>6. CASE Fetch
    <2>1. /\ fetch'.owner = session.user /\ scene.query # NoQuery /\ Admits(scene.guard, session.user)
          /\ UNCHANGED <<scene, session, cache, work>>
      BY <1>6, FetchIs
    <2>2. session.user # Visitor
      BY <2>1, VisitorsKeepNothing DEF Admits, TypeOK
    <2>3. WroteBack' <=> WroteBack
      BY <2>1, WroteBackStays
    <2> QED BY <2>1, <2>2, <2>3 DEF OwnerInv, MayShow
  <1>7. CASE Arrive
    <2>1. /\ cache'.owner = fetch.owner /\ fetch.phase = "read" /\ fetch' = NoFetch
          /\ UNCHANGED session
      BY <1>7, ArriveIs
    <2> QED BY <1>0, <2>1 DEF OwnerInv, MayShow
  <1>8. CASE Lose
    <2>1. fetch' = NoFetch /\ UNCHANGED <<scene, session, cache, work>>
      BY <1>8 DEF Lose
    <2>2. WroteBack' <=> WroteBack
      BY <2>1, WroteBackStays
    <2> QED BY <1>0, <2>1, <2>2 DEF OwnerInv, MayShow
  <1>9. CASE Hear
    <2>1. PICK effect \in Heard : Run(<<effect>>, work)
      BY <1>9 DEF Hear
    <2>2. UNCHANGED <<scene, session, work>> /\ session.user # Visitor
      BY <1>9 DEF Hear
    <2>3. /\ fetch'.phase = "read" => fetch.phase = "read" /\ fetch'.owner = fetch.owner
          /\ cache'.cached => cache.cached /\ cache'.owner = cache.owner
      BY <2>1, HeardIs, RunEnds DEF TypeOK, Mutating
    <2>4. cache'.cached => (WroteBack' <=> WroteBack)
      BY <2>2, <2>3, WroteBackStays
    <2> QED BY <2>2, <2>3, <2>4 DEF OwnerInv, MayShow
  <1>10. CASE Use
    BY <1>10, UseOwner
  <1>11. ASSUME NEW call, work.phase = "sent", Commit(call) PROVE OwnerInv'
    <2>1. UNCHANGED <<scene, session, cache, fetch>> /\ ~WroteBack
      BY <1>11, CommitType DEF WroteBack
    <2> QED BY <2>1 DEF OwnerInv, MayShow
  <1>12. CASE (\E call \in Step : work.phase = "sent" /\ Refuse(call)) \/ Fail \/ Answer \/ Throw
    BY <1>12, EndedOwner
  <1>13. CASE UNCHANGED vars
    <2>1. UNCHANGED <<scene, session, cache, fetch, work>>
      BY <1>13 DEF vars
    <2>2. WroteBack' <=> WroteBack
      BY <2>1, WroteBackStays
    <2> QED BY <2>1, <2>2 DEF OwnerInv, MayShow
  <1> QED BY <1>1, <1>2, <1>3, <1>4, <1>5, <1>6, <1>7, <1>8, <1>9, <1>10, <1>11, <1>12, <1>13 DEF Next

-----------------------------------------------------------------------------
(* That changes are shown. *)

LEMMA InitNews == Init => NewsInv
  BY DEF Init, NewsInv, Idle

LEMMA HopelessRefused ==
    ASSUME NEW sc \in Scenes, NEW user \in People, NEW call \in sc.changing \cap Hopeless
    PROVE  call \in sc.refused[user]
  <1>1. ~Accepts(user, call)
    BY DEF Hopeless, Accepts, Keeps
  <1> QED BY <1>1, SceneRefuses

LEMMA TellingFollows ==
    ASSUME NEW effects, NEW w, Run(effects, w), Telling(Ran(effects, w), w.seen), work'.seen = w.seen
    PROVE  Followed'
  <1>1. cache' = Ran(effects, w).cache /\ fetch' = Ran(effects, w).fetch
    BY DEF Run
  <1> QED BY <1>1 DEF Telling, Followed

LEMMA HearFollows == ASSUME TypeOK, Hear PROVE Followed'
  <1>1. PICK effect \in Heard : Covers(effect.key, Watched) /\ Run(<<effect>>, work)
    BY DEF Hear
  <1>2. <<effect>> \in Seq(Callback) /\ effect.kind = "invalidate"
    BY HeardIs
  <1>3. /\ DOMAIN <<effect>> = {1} /\ <<effect>>[1] = effect
    OBVIOUS
  <1>4. /\ 1 \in Bearing(<<effect>>, {"clear", "invalidate", "answer"}, scene)
        /\ \A j \in Bearing(<<effect>>, Kinds, scene) : j <= 1
    BY <1>1, <1>2, <1>3 DEF Bearing, Bears, Watched
  <1>5. Telling(Ran(<<effect>>, work), work.seen)
    BY <1>2, <1>4, RunTells DEF TypeOK, Mutating
  <1>6. work'.seen = work.seen
    BY DEF Hear
  <1> QED BY <1>1, <1>5, <1>6, TellingFollows

LEMMA FetchFollows ==
    ASSUME TypeOK, NewsInv, Fetch, work.phase = "told", Tells(scene)
    PROVE  Followed'
  <1>1. /\ fetch'.owner = session.user /\ fetch'.version = VersionFor(session.user)
        /\ scene.query # NoQuery /\ UNCHANGED <<scene, session, cache, work, commits>>
    BY FetchIs
  <1>2. Followed /\ work.user # Visitor /\ work.seen <= commits
    BY <1>1 DEF NewsInv
  <1>3. fetch'.version = commits \/ Foreign(fetch'.owner)
    BY <1>1, <1>2 DEF VersionFor, Foreign
  <1>4. work' = work /\ cache' = cache /\ work.seen \in Nat /\ commits \in Nat
    BY <1>1 DEF TypeOK
  <1> QED BY <1>2, <1>3, <1>4 DEF Followed, Foreign

LEMMA ArriveFollows ==
    ASSUME TypeOK, Followed, Arrive
    PROVE  Followed'
  <1>1. /\ cache'.owner = fetch.owner /\ cache'.version = fetch.version
        /\ cache'.late <=> fetch.missed \/ (cache.cached /\ fetch.version < cache.version)
        /\ fetch.phase = "read" /\ fetch' = NoFetch /\ work' = work
    BY ArriveIs
  <1>2. fetch'.phase # "read"
    BY <1>1 DEF NoFetch
  <1>3. fetch.version \in Nat /\ cache.version \in Nat /\ work.seen \in Nat
    BY DEF TypeOK, Request, Entry
  <1>4. \/ fetch.missed \/ fetch.version >= work.seen \/ Foreign(fetch.owner)
        \/ cache.cached /\ cache.version >= work.seen
    BY <1>1 DEF Followed
  <1>5. cache'.late \/ cache'.version >= work.seen \/ Foreign(cache'.owner)
    BY <1>1, <1>3, <1>4 DEF Foreign
  <1> QED BY <1>1, <1>2, <1>5 DEF Followed, Foreign

LEMMA NextNews == TypeOK /\ NewsInv /\ [Next]_vars => NewsInv'
  <1> SUFFICES ASSUME TypeOK, NewsInv, [Next]_vars PROVE NewsInv'
    OBVIOUS
  <1>1. ASSUME UNCHANGED <<scene, work, commits>>,
               work.phase = "told" /\ Tells(scene) => Followed'
        PROVE  NewsInv'
    BY <1>1 DEF NewsInv
  <1>2. ASSUME cache' = Empty, fetch' = NoFetch PROVE Followed'
    BY <1>2 DEF Followed, Empty, NoFetch
  <1>3. ASSUME UNCHANGED <<cache, work>>, fetch' \in {fetch, NoFetch} PROVE Followed => Followed'
    BY <1>3 DEF Followed, Foreign, NoFetch
  <1>4. ASSUME NEW user \in Users, SignIn(user) \/ Impersonate(user) PROVE NewsInv'
    <2>1. UNCHANGED <<scene, cache, fetch, work, commits>>
      BY <1>4 DEF SignIn, Impersonate
    <2> QED BY <1>1, <1>3, <2>1 DEF NewsInv
  <1>5. ASSUME NEW user \in Users, EnterWorkspace(user) PROVE NewsInv'
    <2>1. UNCHANGED <<scene, work, commits>> /\ cache' = Empty /\ fetch' = NoFetch
      BY <1>5 DEF EnterWorkspace
    <2> QED BY <1>1, <1>2, <2>1
  <1>6. CASE SignOut
    <2>1. UNCHANGED <<scene, work, commits>> /\ cache' = Empty /\ fetch' = NoFetch
      BY <1>6 DEF SignOut
    <2> QED BY <1>1, <1>2, <2>1
  <1>7. CASE Expire
    BY <1>7 DEF Expire, NewsInv, Idle
  <1>8. CASE StopImpersonation \/ Lose \/ UNCHANGED vars
    <2>1. UNCHANGED <<scene, cache, work, commits>> /\ fetch' \in {fetch, NoFetch}
      BY <1>8 DEF StopImpersonation, Lose, vars
    <2> QED BY <1>1, <1>3, <2>1 DEF NewsInv
  <1>9. CASE Fetch
    <2>1. UNCHANGED <<scene, work, commits>>
      BY <1>9, FetchIs
    <2> QED BY <1>1, <1>9, <2>1, FetchFollows
  <1>10. CASE Arrive
    <2>1. UNCHANGED <<scene, work, commits>>
      BY <1>10, ArriveIs
    <2>2. work.phase = "told" /\ Tells(scene) => Followed
      BY DEF NewsInv
    <2> QED BY <1>1, <1>10, <2>1, <2>2, ArriveFollows
  <1>11. CASE Hear
    <2>1. UNCHANGED <<scene, work, commits>>
      BY <1>11 DEF Hear
    <2> QED BY <1>1, <1>11, <2>1, HearFollows
  <1>12. CASE Use
    <2>1. /\ work'.user = session.user /\ work'.phase = "sent" /\ work'.seen = 0
          /\ Admits(scene.guard, session.user) /\ UNCHANGED <<scene, commits>>
      BY <1>12, UseType
    <2>2. scene.query # NoQuery => session.user # Visitor
      BY <2>1, VisitorsKeepNothing DEF Admits, TypeOK
    <2> QED BY <2>1, <2>2 DEF NewsInv, TypeOK
  <1>13. ASSUME NEW call, work.phase = "sent", Commit(call) PROVE NewsInv'
    <2>1. /\ work' \in Mutating /\ commits' \in Nat /\ commits <= commits'
          /\ work'.user = work.user /\ work'.phase \in {"sent", "answered"}
          /\ work'.seen = work.seen \/ (call \in scene.changing /\ work'.seen = commits')
          /\ call \notin scene.refused[Sender] /\ scene' = scene
      BY <1>13, CommitType
    <2>2. Sender \in People
      BY DEF Sender, TypeOK
    <2>3. call \in scene.changing => call \notin Hopeless
      BY <2>1, <2>2, HopelessRefused DEF TypeOK
    <2>4. work.seen \in Nat /\ commits \in Nat
      BY DEF TypeOK
    <2>5. work'.seen <= commits'
      BY <2>1, <2>4 DEF NewsInv
    <2>6. work'.seen # 0 => ~(scene.changing \subseteq Hopeless)
      BY <2>1, <2>3 DEF NewsInv
    <2> QED BY <1>13, <2>1, <2>5, <2>6 DEF NewsInv
  <1>14. CASE (\E call \in Step : work.phase = "sent" /\ Refuse(call)) \/ Fail \/ Answer \/ Throw
    <2>1. PICK effects \in Seq(Callback), phase \in {"told", "threw", "failed", "refused"} :
             /\ Ended(phase, effects)
             /\ \/ phase = "told" /\ effects = scene.mutation.succeeded /\ work.phase = "answered"
                \/ phase \in {"failed", "refused"} /\ effects = scene.mutation.failed
                \/ /\ phase = "threw" /\ effects = Caught
                   /\ Throwing(scene.mutation.succeeded) # {}
      BY <1>14, EndedIs
    <2>2. /\ work'.phase = phase /\ work'.user = work.user /\ work'.seen = work.seen
          /\ UNCHANGED <<scene, commits>> /\ Run(effects, work)
      BY <2>1, EndedType DEF Phases, Ended
    <2>3. work.phase # "idle"
      BY <1>14 DEF Fail, Answer, Throw
    <2>4. phase = "threw" => scene.mutation.name \in PagesPatched
      BY <2>1, CaughtStoresNothing DEF TypeOK
    <2>5. ASSUME phase = "told", Tells(scene) PROVE Followed'
      <3>1. effects = scene.mutation.succeeded
        BY <2>1, <2>5
      <3>2. PICK i \in Bearing(effects, {"clear", "invalidate", "answer"}, scene) :
               \A j \in Bearing(effects, Kinds, scene) : j <= i
        BY <2>5, <3>1 DEF Tells
      <3>3. Telling(Ran(effects, work), work.seen)
        BY <3>2, RunTells DEF TypeOK, Mutating
      <3> QED BY <2>2, <3>3, TellingFollows
    <2> QED BY <2>2, <2>3, <2>4, <2>5 DEF NewsInv
  <1> QED BY <1>4, <1>5, <1>6, <1>7, <1>8, <1>9, <1>10, <1>11, <1>12, <1>13, <1>14 DEF Next

-----------------------------------------------------------------------------
(* What the server refuses. *)

LEMMA StepsAreCalls ==
    ASSUME NEW m, NEW i \in DOMAIN m.steps
    PROVE  m.steps[i] \subseteq CallsOf(m)
  BY DEF CallsOf

\* An account differs from another one, to the guards, by its shape only.
LEMMA ShapeDecides ==
    ASSUME NEW user \in Users
    PROVE  \E shape \in Shapes :
              /\ \A guard : Passes(guard, shape) <=> Passes(guard, user)
              /\ \A m : Offered(m, shape) <=> Offered(m, user)
              /\ RefusedTo(shape) = RefusedTo(user)
  <1> DEFINE shape == [role |-> user.role, admin |-> user.admin, paid |-> user.paid]
  <1>1. shape.role = user.role /\ shape.admin = user.admin /\ shape.paid = user.paid
    OBVIOUS
  <1>2. shape \in Shapes
    BY AccountsShaped, AdminsAreOwners DEF Shapes
  <1> HIDE DEF shape
  <1>3. RefusedTo(shape) = RefusedTo(user)
    BY <1>1 DEF RefusedTo
  <1>4. \A guard : Passes(guard, shape) <=> Passes(guard, user)
    BY <1>1 DEF Passes
  <1>5. \A m : Offered(m, shape) <=> Offered(m, user)
    BY <1>1 DEF Offered
  <1> QED BY <1>2, <1>3, <1>4, <1>5

LEMMA OfferedIsTaken ==
    ASSUME NEW sc \in Scenes, NEW user \in Users, Passes(sc.guard, user)
    PROVE  Offers(sc, user) \cap sc.refused[user] \subseteq RefusedTo(user)
  <1>1. PICK shape \in Shapes : /\ \A guard : Passes(guard, shape) <=> Passes(guard, user)
                                /\ \A m : Offered(m, shape) <=> Offered(m, user)
                                /\ RefusedTo(shape) = RefusedTo(user)
    BY ShapeDecides
  <1>2. Offers(sc, shape) = Offers(sc, user)
    BY <1>1 DEF Offers
  <1>3. ASSUME NEW call \in Offers(sc, user), call \notin RefusedTo(user)
        PROVE  Accepts(user, call)
    <2>1. CASE call = NoCall
      BY <2>1 DEF Accepts
    <2>2. CASE call # NoCall
      <3>1. PICK r \in RoutesOf[call] : Passes(r.guard, shape) /\ Keeps(r.body, call)
        <4>1. call \in Offers(sc, shape) \ ({NoCall} \cup RefusedTo(shape)) /\ Passes(sc.guard, shape)
          BY <1>1, <1>2, <1>3, <2>2
        <4> QED BY <4>1, OffersTaken
      <3>2. Admits(r.guard, user)
        BY <1>1, <3>1, VisitorIsNobody DEF Admits
      <3> QED BY <3>1, <3>2 DEF Accepts
    <2> QED BY <2>1, <2>2
  <1>4. \A call \in sc.refused[user] : ~Accepts(user, call)
    BY SceneRefuses DEF People
  <1> QED BY <1>3, <1>4

LEMMA VisitorIsTaken ==
    ASSUME NEW sc \in Scenes, sc.guard.open
    PROVE  CallsOf(sc.mutation) \cap sc.refused[Visitor] \subseteq RefusedTo(Visitor)
  <1>1. ASSUME NEW call \in CallsOf(sc.mutation), call \notin RefusedTo(Visitor)
        PROVE  Accepts(Visitor, call)
    <2>1. call \notin DroppedFields
      BY <1>1 DEF RefusedTo
    <2>2. CASE call = NoCall
      BY <2>2 DEF Accepts
    <2>3. CASE call # NoCall
      <3>1. PICK r \in RoutesOf[call] : r.guard.open /\ Keeps(r.body, call)
        <4>1. call \in CallsOf(sc.mutation) \ ({NoCall} \cup DroppedFields)
          BY <1>1, <2>1, <2>3
        <4> QED BY <4>1, OffersTaken
      <3>2. Admits(r.guard, Visitor)
        BY <3>1 DEF Admits
      <3> QED BY <3>1, <3>2 DEF Accepts
    <2> QED BY <2>2, <2>3
  <1>2. \A call \in sc.refused[Visitor] : ~Accepts(Visitor, call)
    BY SceneRefuses DEF People
  <1> QED BY <1>1, <1>2

LEMMA InitCalls == Init => CallsInv
  BY DEF Init, CallsInv, NoFetch, Idle

LEMMA NextCalls == TypeOK /\ CallsInv /\ [Next]_vars => CallsInv'
  <1> SUFFICES ASSUME TypeOK, CallsInv, [Next]_vars PROVE CallsInv'
    OBVIOUS
  <1>0. NoFetch.phase = "none" /\ Idle.phase = "idle"
    BY DEF NoFetch, Idle
  <1>1. ASSUME UNCHANGED <<scene, work>>,
               fetch'.phase # "none" => fetch.phase # "none" /\ fetch'.owner = fetch.owner
        PROVE  CallsInv'
    BY <1>1 DEF CallsInv
  <1>2. ASSUME NEW user \in Users, SignIn(user) \/ Impersonate(user) \/ EnterWorkspace(user) PROVE CallsInv'
    <2>1. UNCHANGED <<scene, work>> /\ fetch' \in {fetch, NoFetch}
      BY <1>2 DEF SignIn, Impersonate, EnterWorkspace
    <2> QED BY <1>0, <1>1, <2>1
  <1>3. CASE SignOut \/ StopImpersonation \/ Lose \/ Arrive \/ UNCHANGED vars
    <2>1. UNCHANGED <<scene, work>> /\ fetch' \in {fetch, NoFetch}
      BY <1>3 DEF SignOut, StopImpersonation, Lose, Arrive, vars
    <2> QED BY <1>0, <1>1, <2>1
  <1>4. CASE Expire
    <2>1. fetch' = NoFetch /\ work' = Idle
      BY <1>4 DEF Expire
    <2> QED BY <1>0, <2>1 DEF CallsInv
  <1>5. CASE Fetch
    <2>1. /\ fetch'.owner = session.user /\ scene.query # NoQuery /\ Admits(scene.guard, session.user)
          /\ UNCHANGED <<scene, work>>
      BY <1>5, FetchIs
    <2> QED BY <2>1 DEF CallsInv
  <1>6. CASE Hear
    <2>1. PICK effect \in Heard : Run(<<effect>>, work)
      BY <1>6 DEF Hear
    <2>2. fetch'.phase # "none" => fetch.phase # "none" /\ fetch'.owner = fetch.owner
      BY <2>1, HeardIs, RunEnds DEF TypeOK, Mutating
    <2>3. UNCHANGED <<scene, work>>
      BY <1>6 DEF Hear
    <2> QED BY <1>1, <2>2, <2>3
  <1>7. CASE Use
    <2>1. /\ work' \in Mutating /\ work'.user = session.user /\ work'.phase = "sent" /\ work'.done = 0
          /\ scene.mutation # NoMutation
          /\ Admits(scene.guard, session.user) /\ Offered(scene.mutation, session.user)
          /\ Run(scene.mutation.before, work') /\ scene' = scene
      BY <1>7, UseType
    <2>2. fetch'.phase # "none" => fetch.phase # "none" /\ fetch'.owner = fetch.owner
      BY <2>1, SceneIs, RunEnds DEF TypeOK
    <2>3. 0 + 1 \in DOMAIN scene.mutation.steps
      <3>1. scene.mutation.steps \in Seq(SUBSET AllCalls) /\ Len(scene.mutation.steps) > 0
        BY <2>1, SceneIs DEF TypeOK
      <3> QED BY <3>1
    <2> QED BY <2>1, <2>2, <2>3 DEF CallsInv
  <1>8. ASSUME NEW call, work.phase = "sent", Commit(call) PROVE CallsInv'
    <2>1. /\ work' \in Mutating /\ work'.user = work.user /\ work'.done = work.done + 1
          /\ work'.phase \in {"sent", "answered"}
          /\ work'.phase = "sent" => work.done + 1 # Len(scene.mutation.steps)
          /\ UNCHANGED <<scene, fetch>>
      BY <1>8, CommitType
    <2>2. work.done + 1 \in DOMAIN scene.mutation.steps /\ work.done \in Nat
      BY <1>8 DEF CallsInv, TypeOK
    <2>3. work'.phase = "sent" => work'.done + 1 \in DOMAIN scene.mutation.steps
      <3>1. scene.mutation.steps \in Seq(SUBSET AllCalls)
        BY SceneIs DEF TypeOK
      <3> QED BY <2>1, <2>2, <3>1
    <2> QED BY <1>8, <2>1, <2>3 DEF CallsInv
  <1>9. CASE (\E call \in Step : work.phase = "sent" /\ Refuse(call)) \/ Fail \/ Answer \/ Throw
    <2>1. PICK effects \in Seq(Callback), phase \in {"told", "threw", "failed", "refused"} :
             Ended(phase, effects)
      BY <1>9, EndedIs
    <2>2. /\ work'.phase = phase /\ work'.user = work.user /\ work'.done = work.done
          /\ scene' = scene /\ Run(effects, work)
      BY <2>1, EndedType DEF Phases, Ended
    <2>3. fetch'.phase # "none" => fetch.phase # "none" /\ fetch'.owner = fetch.owner
      BY <2>2, RunEnds DEF TypeOK, Mutating
    <2>4. work.phase # "idle"
      BY <1>9 DEF Fail, Answer, Throw
    <2>5. phase = "refused" => work.phase = "sent"
      BY <1>9, <2>2 DEF Fail, Answer, Throw, TypeOK
    <2> QED BY <2>2, <2>3, <2>4, <2>5 DEF CallsInv
  <1> QED BY <1>2, <1>3, <1>4, <1>5, <1>6, <1>7, <1>8, <1>9 DEF Next

-----------------------------------------------------------------------------
(* What the tab promises. *)

\* The inductive invariant of the tab.
TabInv == TypeOK /\ SessionInv /\ OwnerInv /\ NewsInv /\ CallsInv

\* The types and the invariants hold of every state of the tab.
THEOREM TabInvariant == Spec => []TabInv
  <1>1. Init => TabInv
    BY InitType, InitOwner, InitNews, InitCalls DEF TabInv
  <1>2. TabInv /\ [Next]_vars => TabInv'
    BY NextType, NextSession, NextOwner, NextNews, NextCalls DEF TabInv
  <1> QED BY <1>1, <1>2, PTL DEF Spec

\* Whatever is in flight when the session changes hands, the tab shows nobody what
\* another account fetched, but for what an impersonation keeps on purpose and what
\* the callbacks of a mutation write when its answer outlives the session.
THEOREM SessionsKeptApart == Spec => []ShownToItsUser
  <1>1. TabInv => ShownToItsUser
    BY DEF TabInv, OwnerInv, MayShow, ShownToItsUser
  <1> QED BY <1>1, TabInvariant, PTL

\* In no order of the answer of a mutation, of fetches, socket events and changes of
\* the session does a list on the page keep an answer older than the change that the
\* mutation made, unless it is to be fetched again.
THEOREM ChangesAlwaysShown == Spec => []ChangesShown
  <1>1. TabInv => ChangesShown
    <2> SUFFICES ASSUME TabInv, work.phase \in {"told", "threw"},
                        cache.cached, ~cache.stale, ~cache.late,
                        ~scene.query.polled, Watched \notin Searches,
                        cache.owner # Visitor, cache.owner.workspace = work.user.workspace,
                        ~In(Elsewhere, scene), ~In(Untold, scene)
                 PROVE  \/ cache.version >= work.seen
                        \/ work.phase = "threw" /\ scene.mutation.name \in PagesPatched
      BY DEF ChangesShown
    <2>1. cache.version \in Nat /\ work.seen \in Nat /\ scene \in Scenes
      BY DEF TabInv, TypeOK, Entry
    <2>2. CASE work.phase = "threw"
      BY <2>2 DEF TabInv, NewsInv
    <2>3. CASE work.phase = "told" /\ Tells(scene)
      BY <2>3 DEF TabInv, NewsInv, Followed, Foreign
    <2>4. CASE work.phase = "told" /\ ~Tells(scene)
      <3>1. scene.changing \subseteq Hopeless
        BY <2>1, <2>4, ChangesTold DEF Watched
      <3>2. work.seen = 0
        BY <3>1 DEF TabInv, NewsInv
      <3> QED BY <2>1, <3>2
    <2> QED BY <2>2, <2>3, <2>4
  <1> QED BY <1>1, TabInvariant, PTL

\* Whoever the accounts are, the server refuses a page or a control that the client
\* offers only by a call that is named.
THEOREM CallsAlwaysExplained == Spec => []CallsExplained
  <1>1. TabInv => CallsExplained
    <2> SUFFICES ASSUME TabInv PROVE CallsExplained
      OBVIOUS
    <2>1. scene \in Scenes /\ fetch.owner \in People /\ work.user \in People
      BY DEF TabInv, TypeOK, Request
    <2>2. ASSUME fetch.phase = "refused"
          PROVE  scene.query.calls \cap scene.refused[fetch.owner] \subseteq RefusedTo(fetch.owner)
      <3>1. scene.query # NoQuery /\ Admits(scene.guard, fetch.owner)
        BY <2>2 DEF TabInv, CallsInv
      <3>2. fetch.owner \in Users
        BY <2>1, <3>1, VisitorsKeepNothing DEF Admits, People
      <3>3. Passes(scene.guard, fetch.owner)
        BY <3>1, <3>2, VisitorIsNobody DEF Admits
      <3> QED BY <2>1, <3>2, <3>3, OfferedIsTaken DEF Offers
    <2>3. ASSUME work.phase = "refused"
          PROVE  Step \cap scene.refused[work.user] \subseteq RefusedTo(work.user)
      <3>1. /\ Admits(scene.guard, work.user) /\ Offered(scene.mutation, work.user)
            /\ work.done + 1 \in DOMAIN scene.mutation.steps
        BY <2>3 DEF TabInv, CallsInv
      <3>2. Step \subseteq CallsOf(scene.mutation)
        BY <3>1, StepsAreCalls DEF Step
      <3>3. CASE work.user = Visitor
        BY <2>1, <3>1, <3>2, <3>3, VisitorIsTaken DEF Admits
      <3>4. CASE work.user # Visitor
        <4>1. work.user \in Users /\ Passes(scene.guard, work.user)
          BY <2>1, <3>1, <3>4 DEF Admits, People
        <4> QED BY <2>1, <3>1, <3>2, <4>1, OfferedIsTaken DEF Offers
      <3> QED BY <3>3, <3>4
    <2> QED BY <2>2, <2>3 DEF CallsExplained
  <1> QED BY <1>1, TabInvariant, PTL
=============================================================================
