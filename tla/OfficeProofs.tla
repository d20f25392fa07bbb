---------------------------- MODULE OfficeProofs ----------------------------
(***************************************************************************)
(* Users, signup and one-time codes, agendas and leads: each keeps its       *)
(* inductive invariant under every step of the office.                      *)
(***************************************************************************)
EXTENDS Backoffice, FiniteSetTheorems, TLAPS

-----------------------------------------------------------------------------
(* Accounts *)

\* The instance has copies of its own of the operators of FiniteSets.
LEMMA AccFinite ==
    /\ \A T : A!Cardinality(T) = Cardinality(T)
    /\ \A T : A!IsFiniteSet(T) <=> IsFiniteSet(T)
  BY DEF A!Cardinality, Cardinality, A!IsFiniteSet, IsFiniteSet

LEMMA AccIdle ==
    /\ A!Idle \in A!Request
    /\ A!Idle.pc = "idle" /\ A!Idle.id = None /\ A!Idle.copy = None
  BY AccountsAssumption DEF A!Idle, A!Request, A!ConstantsOK

LEMMA AccNewUser == ASSUME NEW role \in Roles \cup {"owner"} PROVE A!NewUser(role) \in A!User
  BY DEF A!NewUser, A!User

LEMMA AccEdited ==
    ASSUME NEW row \in A!User
    PROVE  /\ row # None
           /\ \A role \in Roles : [row EXCEPT !.role = role] \in A!User /\ [row EXCEPT !.role = role] # None
           /\ \A active \in BOOLEAN :
                 [row EXCEPT !.active = active] \in A!User /\ [row EXCEPT !.active = active] # None
           /\ \A deletion \in {"no", "grace", "due"} :
                 [row EXCEPT !.deletion = deletion] \in A!User /\ [row EXCEPT !.deletion = deletion] # None
  BY AccountsAssumption DEF A!User, A!ConstantsOK

LEMMA AccDated ==
    ASSUME NEW row \in A!User, NEW deletion \in {"no", "grace", "due"}
    PROVE  /\ [row EXCEPT !.deletion = deletion] \in A!User
           /\ [row EXCEPT !.deletion = deletion].role = row.role
           /\ [row EXCEPT !.deletion = deletion].active = row.active
  BY DEF A!User

LEMMA AccDeletion ==
    ASSUME A!TypeOK, NEW u \in Users, accUsers[u] # None, NEW deletion \in {"grace", "due"},
           accUsers' = [accUsers EXCEPT ![u].deletion = deletion]
    PROVE  /\ accUsers'[u] # None /\ accUsers'[u].deletion = deletion
           /\ accUsers'[u].role = accUsers[u].role /\ accUsers'[u].active = accUsers[u].active
           /\ \A v \in Users : accUsers'[v] = None <=> accUsers[v] = None
           /\ \A v \in Users \ {u} : accUsers'[v] = accUsers[v]
  <1> DEFINE row == [accUsers[u] EXCEPT !.deletion = deletion]
  <1>1. accUsers[u] \in A!User /\ accUsers \in [Users -> A!User \cup {None}]
    BY DEF A!TypeOK
  <1>2. /\ row # None /\ row.deletion = deletion
        /\ row.role = accUsers[u].role /\ row.active = accUsers[u].active
    <2>1. row # None /\ row.role = accUsers[u].role /\ row.active = accUsers[u].active
      BY <1>1, AccEdited, AccDated
    <2>2. row.deletion = deletion
      BY <1>1 DEF A!User
    <2> QED
      BY <2>1, <2>2
  <1>3. accUsers' = [accUsers EXCEPT ![u] = row]
    OBVIOUS
  <1> HIDE DEF row
  <1> QED
    BY <1>1, <1>2, <1>3

LEMMA AccType ==
    ASSUME A!TypeOK, A!RequestsOK, A!Next
    PROVE  A!TypeOK'
  <1> USE AccountsAssumption, AccIdle, AccNewUser DEF A!ConstantsOK, A!TypeOK
  <1>1. ASSUME NEW q \in Requests, NEW u \in Users, NEW role \in Roles, A!ReadForCreate(q, u, role)
        PROVE  A!TypeOK'
    BY <1>1 DEF A!ReadForCreate, A!Begin, A!Arrive, A!SharesCount, A!Request, A!RequestsOK, A!Busy
  <1>2. ASSUME NEW q \in Requests, NEW u \in Users, NEW role \in Roles, A!ReadForRole(q, u, role)
        PROVE  A!TypeOK'
    BY <1>2 DEF A!ReadForRole, A!Begin, A!Arrive, A!SharesCount, A!Request, A!RequestsOK, A!Busy
  <1>3. ASSUME NEW q \in Requests, NEW u \in Users, A!ReadProfile(q, u)
        PROVE  A!TypeOK'
    BY <1>3 DEF A!ReadProfile, A!Begin, A!Arrive, A!SharesCount, A!Request, A!RequestsOK, A!Busy
  <1>4. ASSUME NEW q \in Requests, NEW u \in Users, A!ReadForSchedule(q, u)
        PROVE  A!TypeOK'
    BY <1>4 DEF A!ReadForSchedule, A!Begin, A!Arrive, A!Request
  <1>5. ASSUME NEW q \in Requests, A!InsertUser(q)
        PROVE  A!TypeOK'
    BY <1>5 DEF A!InsertUser, A!End, A!Request, A!RequestsOK
  <1>6. ASSUME NEW q \in Requests, A!SaveRole(q)
        PROVE  A!TypeOK'
    BY <1>6 DEF A!SaveRole, A!Save, A!End, A!Request, A!User, A!RequestsOK
  <1>7. ASSUME NEW q \in Requests, A!SaveProfile(q)
        PROVE  A!TypeOK'
    BY <1>7 DEF A!SaveProfile, A!Save, A!End, A!Request, A!RequestsOK
  <1>8. ASSUME NEW q \in Requests, A!WriteSchedule(q)
        PROVE  A!TypeOK'
    <2> DEFINE u == accRequests[q].id
    <2>1. u \in Users
      BY <1>8 DEF A!WriteSchedule, A!RequestsOK
    <2>2. accUsers' \in [Users -> A!User \cup {None}]
      BY <1>8, <2>1 DEF A!WriteSchedule, A!User, A!Exists
    <2> QED
      BY <1>8, <2>1, <2>2 DEF A!WriteSchedule, A!End
  <1>9. ASSUME NEW u \in Users, NEW active \in BOOLEAN, A!SetActive(u, active)
        PROVE  A!TypeOK'
    BY <1>9 DEF A!SetActive, A!Arrive, A!User, A!Exists
  <1>10. ASSUME NEW u \in Users, A!CancelDeletion(u)
         PROVE  A!TypeOK'
    BY <1>10 DEF A!CancelDeletion, A!Save, A!Arrive, A!User, A!Exists
  <1>11. ASSUME NEW u \in Users, A!PassGrace(u)
         PROVE  A!TypeOK'
    BY <1>11 DEF A!PassGrace, A!User, A!Exists
  <1>12. CASE A!FindDue
    BY <1>12 DEF A!FindDue
  <1>13. ASSUME NEW u \in Users, A!DeleteDue(u)
         PROVE  A!TypeOK'
    BY <1>13 DEF A!DeleteDue
  <1>14. ASSUME NEW u \in Users, A!DeleteFails(u)
         PROVE  A!TypeOK'
    BY <1>14 DEF A!DeleteFails
  <1> QED
    BY <1>1, <1>2, <1>3, <1>4, <1>5, <1>6, <1>7, <1>8, <1>9, <1>10, <1>11, <1>12, <1>13, <1>14
    DEF A!Next, A!Write, A!Prune

\* What a step makes of the requests: one begins or ends, or none.
LEMMA AccRequests ==
    ASSUME A!TypeOK, A!RequestsOK, A!Next
    PROVE  A!RequestsOK'
  <1> USE AccountsAssumption, AccIdle DEF A!ConstantsOK, A!TypeOK, A!RequestsOK
  <1>1. ASSUME NEW q \in Requests, NEW u \in Users, NEW role \in Roles,
               A!ReadForCreate(q, u, role) \/ A!ReadForRole(q, u, role)
        PROVE  A!RequestsOK'
    BY <1>1 DEF A!ReadForCreate, A!ReadForRole, A!Begin, A!Exists
  <1>2. ASSUME NEW q \in Requests, NEW u \in Users, A!ReadProfile(q, u) \/ A!ReadForSchedule(q, u)
        PROVE  A!RequestsOK'
    BY <1>2 DEF A!ReadProfile, A!ReadForSchedule, A!Begin, A!Exists
  <1>3. ASSUME NEW q \in Requests, A!Write(q)
        PROVE  A!RequestsOK'
    <2>1. A!End(q)
      BY <1>3 DEF A!Write, A!InsertUser, A!SaveRole, A!SaveProfile, A!WriteSchedule
    <2> QED
      BY <2>1 DEF A!End
  <1>4. CASE UNCHANGED accRequests
    BY <1>4
  <1>5. ASSUME NEW u \in Users, NEW active \in BOOLEAN,
               A!SetActive(u, active) \/ A!CancelDeletion(u) \/ A!PassGrace(u) \/ A!FindDue
                  \/ A!DeleteDue(u) \/ A!DeleteFails(u)
        PROVE  UNCHANGED accRequests
    BY <1>5 DEF A!SetActive, A!CancelDeletion, A!PassGrace, A!FindDue, A!DeleteDue, A!DeleteFails
  <1> QED
    BY <1>1, <1>2, <1>3, <1>4, <1>5 DEF A!Next, A!Prune

\* An erased user is named by no request that holds a copy of the row.
LEMMA AccErased ==
    ASSUME A!TypeOK, A!RequestsOK, A!CopiesMarked, A!ErasedStaysErased, A!Next
    PROVE  A!ErasedStaysErased' /\ A!CopiesMarked'
  <1> USE AccountsAssumption, AccIdle, AccNewUser
      DEF A!ConstantsOK, A!TypeOK, A!RequestsOK, A!CopiesMarked, A!ErasedStaysErased, A!Exists
  <1> DEFINE Goal == A!ErasedStaysErased' /\ A!CopiesMarked'
  <1>1. ASSUME NEW q \in Requests, NEW u \in Users, NEW role \in Roles,
               A!ReadForCreate(q, u, role) \/ A!ReadForRole(q, u, role)
        PROVE  Goal
    BY <1>1 DEF A!ReadForCreate, A!ReadForRole, A!Begin
  <1>2. ASSUME NEW q \in Requests, NEW u \in Users, A!ReadProfile(q, u) \/ A!ReadForSchedule(q, u)
        PROVE  Goal
    BY <1>2 DEF A!ReadProfile, A!ReadForSchedule, A!Begin
  <1>3. ASSUME NEW q \in Requests, A!InsertUser(q)
        PROVE  Goal
    BY <1>3 DEF A!InsertUser, A!End
  <1>4. ASSUME NEW q \in Requests, A!SaveRole(q)
        PROVE  Goal
    BY <1>4, AccEdited DEF A!SaveRole, A!Save, A!End, A!Request
  <1>5. ASSUME NEW q \in Requests, A!SaveProfile(q)
        PROVE  Goal
    BY <1>5 DEF A!SaveProfile, A!Save, A!End
  <1>6. ASSUME NEW q \in Requests, A!WriteSchedule(q)
        PROVE  Goal
    <2> DEFINE u == accRequests[q].id
    <2>1. /\ u \in Users /\ A!End(q) /\ UNCHANGED accFate
          /\ accUsers' = IF accUsers[u] # None THEN [accUsers EXCEPT ![u].deletion = "grace"] ELSE accUsers
      BY <1>6 DEF A!WriteSchedule
    <2>2. \A v \in Users : accUsers'[v] = None <=> accUsers[v] = None
      <3>1. CASE accUsers[u] = None
        BY <2>1, <3>1
      <3>2. CASE accUsers[u] # None
        BY <2>1, <3>2, AccDeletion
      <3> QED
        BY <3>1, <3>2
    <2> QED
      BY <2>1, <2>2 DEF A!End
  <1>7. ASSUME NEW u \in Users, NEW active \in BOOLEAN,
               A!SetActive(u, active) \/ A!CancelDeletion(u) \/ A!PassGrace(u)
        PROVE  Goal
    <2>1. \A v \in Users : accUsers'[v] = None <=> accUsers[v] = None
      <3>1. CASE A!SetActive(u, active)
        BY <3>1, AccEdited DEF A!SetActive
      <3>2. CASE A!CancelDeletion(u)
        BY <3>2, AccEdited DEF A!CancelDeletion, A!Save
      <3>3. CASE A!PassGrace(u)
        BY <3>3, AccEdited DEF A!PassGrace
      <3> QED
        BY <1>7, <3>1, <3>2, <3>3
    <2> QED
      BY <1>7, <2>1 DEF A!SetActive, A!CancelDeletion, A!PassGrace
  <1>8. ASSUME NEW u \in Users, A!DeleteDue(u)
        PROVE  Goal
    BY <1>8 DEF A!DeleteDue, A!Busy
  <1>9. ASSUME NEW u \in Users, A!FindDue \/ A!DeleteFails(u)
        PROVE  Goal
    BY <1>9 DEF A!FindDue, A!DeleteFails
  <1> QED
    BY <1>1, <1>2, <1>3, <1>4, <1>5, <1>6, <1>7, <1>8, <1>9 DEF A!Next, A!Write, A!Prune

\* Who is listed by the pruning run is there, and asked for it or is late.
LEMMA AccMarked ==
    ASSUME A!TypeOK, A!RequestsOK, A!MarkedAsked, A!ListedExist, A!Next
    PROVE  A!MarkedAsked' /\ A!ListedExist'
  <1> USE AccountsAssumption, AccIdle, AccNewUser
      DEF A!ConstantsOK, A!TypeOK, A!RequestsOK, A!MarkedAsked, A!ListedExist, A!Exists
  <1> DEFINE Goal == A!MarkedAsked' /\ A!ListedExist'
  <1>1. ASSUME NEW q \in Requests, NEW u \in Users, NEW role \in Roles,
               A!ReadForCreate(q, u, role) \/ A!ReadForRole(q, u, role)
                  \/ A!ReadProfile(q, u) \/ A!ReadForSchedule(q, u)
        PROVE  Goal
    BY <1>1 DEF A!ReadForCreate, A!ReadForRole, A!ReadProfile, A!ReadForSchedule, A!Begin
  <1>2. ASSUME NEW q \in Requests, A!InsertUser(q)
        PROVE  Goal
    BY <1>2 DEF A!InsertUser, A!NewUser
  <1>3. ASSUME NEW u \in Users, NEW row \in A!User, A!Save(u, row),
               UNCHANGED <<accTodo, accAsked>>
        PROVE  Goal
    BY <1>3 DEF A!Save
  <1>4. ASSUME NEW q \in Requests, A!SaveRole(q)
        PROVE  Goal
    BY <1>4, <1>3, AccEdited DEF A!SaveRole, A!Request
  <1>5. ASSUME NEW q \in Requests, A!SaveProfile(q)
        PROVE  Goal
    BY <1>5, <1>3 DEF A!SaveProfile, A!Request
  <1>6. ASSUME NEW q \in Requests, A!WriteSchedule(q)
        PROVE  Goal
    <2> DEFINE u == accRequests[q].id
    <2>1. /\ u \in Users /\ UNCHANGED accTodo /\ accAsked' = accAsked \cup {u}
          /\ accLate' = IF u \in accTodo THEN accLate \cup {u} ELSE accLate
          /\ accUsers' = IF accUsers[u] # None THEN [accUsers EXCEPT ![u].deletion = "grace"] ELSE accUsers
      BY <1>6 DEF A!WriteSchedule
    <2>2. \A v \in Users : accUsers'[v] = None <=> accUsers[v] = None
      <3>1. CASE accUsers[u] = None
        BY <2>1, <3>1
      <3>2. CASE accUsers[u] # None
        BY <2>1, <3>2, AccDeletion
      <3> QED
        BY <3>1, <3>2
    <2> QED
      BY <2>1, <2>2
  <1>7. ASSUME NEW u \in Users, NEW active \in BOOLEAN, A!SetActive(u, active)
        PROVE  Goal
    <2>1. /\ accUsers[u] \in A!User /\ accUsers' = [accUsers EXCEPT ![u].active = active]
          /\ UNCHANGED <<accTodo, accAsked, accLate>>
      BY <1>7 DEF A!SetActive
    <2>2. accUsers'[u] # None /\ accUsers'[u].deletion = accUsers[u].deletion
      BY <2>1, AccEdited, SMTT(30) DEF A!User
    <2> QED
      BY <2>1, <2>2
  <1>8. ASSUME NEW u \in Users, A!CancelDeletion(u)
        PROVE  Goal
    <2>1. /\ accUsers[u] \in A!User /\ UNCHANGED accTodo /\ accAsked' = accAsked \ {u}
          /\ accUsers' = [accUsers EXCEPT ![u] = [accUsers[u] EXCEPT !.deletion = "no"]]
      BY <1>8 DEF A!CancelDeletion, A!Save
    <2>2. accUsers'[u].deletion = "no" /\ accUsers'[u] # None /\ (u \in accTodo => u \in accLate')
          /\ accLate \subseteq accLate'
      BY <1>8, <2>1, AccEdited, SMTT(30) DEF A!CancelDeletion, A!Save, A!User
    <2> QED
      BY <2>1, <2>2
  <1>9. ASSUME NEW u \in Users, A!PassGrace(u)
        PROVE  Goal
    <2>1. /\ accUsers[u] # None /\ accUsers[u].deletion = "grace"
          /\ accUsers' = [accUsers EXCEPT ![u].deletion = "due"]
          /\ UNCHANGED <<accTodo, accAsked, accLate>>
      BY <1>9 DEF A!PassGrace
    <2>2. /\ accUsers'[u] # None /\ accUsers'[u].deletion = "due"
          /\ \A v \in Users \ {u} : accUsers'[v] = accUsers[v]
      BY <2>1, AccDeletion
    <2> QED
      BY <2>1, <2>2
  <1>10. ASSUME NEW u \in Users, A!FindDue \/ A!DeleteDue(u) \/ A!DeleteFails(u)
         PROVE  Goal
    BY <1>10 DEF A!FindDue, A!Due, A!DeleteDue, A!DeleteFails
  <1> QED
    BY <1>1, <1>2, <1>4, <1>5, <1>6, <1>7, <1>8, <1>9, <1>10 DEF A!Next, A!Write, A!Prune

\* The owner's row keeps its role, and no request creates the owner or gives a role.
LEMMA AccOwner ==
    ASSUME A!TypeOK, A!RequestsOK, A!OwnerKept, A!Next
    PROVE  A!OwnerKept'
  <1> USE AccountsAssumption, AccIdle, AccNewUser
      DEF A!ConstantsOK, A!TypeOK, A!RequestsOK, A!OwnerKept, A!Exists
  <1>1. ASSUME NEW q \in Requests, NEW u \in Users, NEW role \in Roles,
               A!ReadForCreate(q, u, role) \/ A!ReadForRole(q, u, role)
                  \/ A!ReadProfile(q, u) \/ A!ReadForSchedule(q, u)
        PROVE  A!OwnerKept'
    BY <1>1 DEF A!ReadForCreate, A!ReadForRole, A!ReadProfile, A!ReadForSchedule, A!Begin
  <1>2. ASSUME NEW q \in Requests, A!InsertUser(q)
        PROVE  A!OwnerKept'
    BY <1>2 DEF A!InsertUser, A!End
  <1>3. ASSUME NEW q \in Requests, A!SaveRole(q)
        PROVE  A!OwnerKept'
    BY <1>3 DEF A!SaveRole, A!Save, A!End
  <1>4. ASSUME NEW q \in Requests, A!SaveProfile(q)
        PROVE  A!OwnerKept'
    BY <1>4 DEF A!SaveProfile, A!Save, A!End
  <1>5. ASSUME NEW q \in Requests, A!WriteSchedule(q)
        PROVE  A!OwnerKept'
    <2> DEFINE u == accRequests[q].id
    <2>1. /\ u \in Users /\ A!End(q) /\ UNCHANGED accFate
          /\ accUsers' = IF accUsers[u] # None THEN [accUsers EXCEPT ![u].deletion = "grace"] ELSE accUsers
      BY <1>5 DEF A!WriteSchedule
    <2>2. \A v \in Users : /\ accUsers'[v] # None <=> accUsers[v] # None
                           /\ accUsers[v] # None => accUsers'[v].role = accUsers[v].role
      <3>1. CASE accUsers[u] = None
        BY <2>1, <3>1
      <3>2. CASE accUsers[u] # None
        <4>1. accUsers' = [accUsers EXCEPT ![u].deletion = "grace"] /\ accUsers[u] \in A!User
          BY <2>1, <3>2
        <4> QED
          BY <2>1, <3>2, <4>1, AccDeletion, ZenonT(60)
      <3> QED
        BY <3>1, <3>2
    <2>3. \A p \in Requests : accRequests'[p] = accRequests[p] \/ accRequests'[p] = A!Idle
      BY <2>1 DEF A!End
    <2>4. Owner \in Users /\ A!Idle.id # Owner
      OBVIOUS
    <2>5. /\ accUsers[Owner] # None => accUsers[Owner].role = "owner"
          /\ accFate[Owner] = "kept" => accUsers[Owner] # None
      OBVIOUS
    <2>6. /\ accUsers'[Owner] # None => accUsers'[Owner].role = "owner"
          /\ accFate'[Owner] = "kept" => accUsers'[Owner] # None
      <3>1. accUsers'[Owner] # None <=> accUsers[Owner] # None
        BY <2>2, <2>4
      <3>2. accUsers[Owner] # None => accUsers'[Owner].role = accUsers[Owner].role
        BY <2>2, <2>4
      <3>3. accFate' = accFate
        BY <2>1
      <3> HIDE DEF A!OwnerKept, A!TypeOK, A!RequestsOK
      <3> QED
        BY <2>5, <3>1, <3>2, <3>3
    <2> QED
      BY <2>3, <2>4, <2>6
  <1>6. ASSUME NEW u \in Users, NEW active \in BOOLEAN, A!SetActive(u, active)
        PROVE  A!OwnerKept'
    BY <1>6, AccEdited DEF A!SetActive, A!User
  <1>7. ASSUME NEW u \in Users, A!CancelDeletion(u)
        PROVE  A!OwnerKept'
    BY <1>7, AccEdited, SMTT(30) DEF A!CancelDeletion, A!Save, A!User
  <1>8. ASSUME NEW u \in Users, A!PassGrace(u)
        PROVE  A!OwnerKept'
    BY <1>8, AccEdited DEF A!PassGrace, A!User
  <1>9. ASSUME NEW u \in Users, A!FindDue \/ A!DeleteDue(u) \/ A!DeleteFails(u)
        PROVE  A!OwnerKept'
    BY <1>9 DEF A!FindDue, A!DeleteDue, A!DeleteFails
  <1> QED
    BY <1>1, <1>2, <1>3, <1>4, <1>5, <1>6, <1>7, <1>8, <1>9 DEF A!Next, A!Write, A!Prune

\* While the owner leaves, only who joined or was raced is there beside it: the
\* owner was alone when it asked, and a user who is inserted since is noted.
LEMMA AccLeaves ==
    ASSUME A!TypeOK, A!RequestsOK, A!OwnerKept, A!CopiesMarked, A!LeavesAlone, A!ListedExist, A!Next
    PROVE  A!LeavesAlone'
  <1> USE AccountsAssumption, AccIdle, AccNewUser
      DEF A!ConstantsOK, A!TypeOK, A!RequestsOK, A!OwnerKept, A!LeavesAlone, A!Leaving, A!Exists
  <1>1. ASSUME NEW q \in Requests, NEW u \in Users, NEW role \in Roles,
               A!ReadForCreate(q, u, role) \/ A!ReadForRole(q, u, role)
        PROVE  A!LeavesAlone'
    BY <1>1 DEF A!ReadForCreate, A!ReadForRole, A!Begin
  <1>2. ASSUME NEW q \in Requests, NEW u \in Users, A!ReadProfile(q, u)
        PROVE  A!LeavesAlone'
    BY <1>2 DEF A!ReadProfile, A!Begin
  <1>3. ASSUME NEW q \in Requests, NEW u \in Users, A!ReadForSchedule(q, u)
        PROVE  A!LeavesAlone'
    BY <1>3 DEF A!ReadForSchedule, A!Begin
  <1>4. ASSUME NEW q \in Requests, A!InsertUser(q)
        PROVE  A!LeavesAlone'
    <2> DEFINE u == accRequests[q].id
    <2>1. /\ u \in Users /\ u # Owner /\ A!End(q)
          /\ UNCHANGED <<accTodo, accFate>>
          /\ accUsers' = accUsers \/ accUsers' = [accUsers EXCEPT ![u] = A!NewUser(accRequests[q].role)]
          /\ accJoined' = (accJoined \/ A!Leaving)
      BY <1>4 DEF A!InsertUser
    <2>2. A!Leaving' => A!Leaving
      BY <2>1 DEF A!End
    <2>3. CASE A!Leaving
      BY <2>1, <2>3
    <2>4. CASE ~A!Leaving
      BY <2>2, <2>4
    <2> QED
      BY <2>3, <2>4
  <1>5. ASSUME NEW q \in Requests, NEW row \in A!User, accRequests[q].copy # None,
               A!Save(accRequests[q].id, row), A!End(q), UNCHANGED <<accTodo, accFate, accJoined>>,
               accRequests[q].id = Owner => row = accRequests[q].copy
        PROVE  A!LeavesAlone'
    <2> DEFINE u == accRequests[q].id
    <2>1. u \in Users /\ accUsers' = [accUsers EXCEPT ![u] = row] /\ row # None
      BY <1>5, AccEdited DEF A!Save
    <2>2. A!Leaving' => A!Leaving
      BY <1>5, <2>1 DEF A!End
    <2>3. ~(accUsers[u] # None) => accFate[u] = "raced"
      BY <1>5, <2>1 DEF A!CopiesMarked
    <2> QED
      BY <1>5, <2>1, <2>2, <2>3
  <1>6. ASSUME NEW q \in Requests, A!SaveRole(q)
        PROVE  A!LeavesAlone'
    BY <1>6, <1>5, AccEdited DEF A!SaveRole, A!Request
  <1>7. ASSUME NEW q \in Requests, A!SaveProfile(q)
        PROVE  A!LeavesAlone'
    BY <1>7, <1>5 DEF A!SaveProfile, A!Request
  <1>8. ASSUME NEW q \in Requests, A!WriteSchedule(q)
        PROVE  A!LeavesAlone'
    <2> DEFINE u == accRequests[q].id
    <2>1. /\ u \in Users /\ A!End(q) /\ UNCHANGED <<accFate, accTodo, accJoined>>
          /\ accRequests[q].copy = None
          /\ accUsers' = IF accUsers[u] # None THEN [accUsers EXCEPT ![u].deletion = "grace"] ELSE accUsers
      BY <1>8 DEF A!WriteSchedule
    <2>2. \A v \in Users : /\ accUsers'[v] = None <=> accUsers[v] = None
                          /\ v # u => accUsers'[v] = accUsers[v]
      <3>1. CASE accUsers[u] = None
        BY <2>1, <3>1
      <3>2. CASE accUsers[u] # None
        BY <2>1, <3>2, AccDeletion
      <3> QED
        BY <3>1, <3>2
    <2>3. A!Leaving' => A!Leaving
      BY <2>1, <2>2 DEF A!End
    <2> QED
      BY <2>1, <2>2, <2>3
  <1>9. ASSUME NEW u \in Users, UNCHANGED <<accTodo, accFate, accJoined, accRequests>>,
               accUsers[u] # None, NEW row \in A!User, accUsers' = [accUsers EXCEPT ![u] = row],
               u = Owner /\ row.deletion # "no" => accUsers[u].deletion # "no"
        PROVE  A!LeavesAlone'
    <2>1. \A v \in Users : accUsers'[v] = None <=> accUsers[v] = None
      BY <1>9, AccEdited
    <2> QED
      BY <1>9, <2>1
  <1>10. ASSUME NEW u \in Users, NEW active \in BOOLEAN, A!SetActive(u, active)
         PROVE  A!LeavesAlone'
    BY <1>10, <1>9, AccEdited DEF A!SetActive, A!User
  <1>11. ASSUME NEW u \in Users, A!CancelDeletion(u)
         PROVE  A!LeavesAlone'
    BY <1>11, <1>9, AccEdited DEF A!CancelDeletion, A!Save, A!User
  <1>12. ASSUME NEW u \in Users, A!PassGrace(u)
         PROVE  A!LeavesAlone'
    BY <1>12, <1>9, AccEdited DEF A!PassGrace, A!User
  <1>13. ASSUME NEW u \in Users, A!FindDue \/ A!DeleteDue(u) \/ A!DeleteFails(u)
         PROVE  A!LeavesAlone'
    BY <1>13 DEF A!FindDue, A!Due, A!DeleteDue, A!DeleteFails
  <1> QED
    BY <1>1, <1>2, <1>3, <1>4, <1>6, <1>7, <1>8, <1>10, <1>11, <1>12, <1>13 DEF A!Next, A!Write, A!Prune

\* The users that are in a role, or about to be, and whose count was not shared.
Promised(q, r) == A!Writing(q) /\ A!Promise(q).role = r /\ A!Promise(q).active
Counted(r) == (A!Holding(r) \cup A!Promised(r)) \ accUncounted

LEMMA AccRoomCounted == A!RoomKept <=> \A r \in Roles : Cardinality(Counted(r)) <= Limit[r]
  BY AccFinite DEF A!RoomKept, Counted

LEMMA AccRoom ==
    ASSUME A!TypeOK, A!RequestsOK, A!RoomKept, A!Next
    PROVE  A!RoomKept'
  <1> USE AccountsAssumption, AccIdle, AccNewUser
      DEF A!ConstantsOK, A!TypeOK, A!RequestsOK, A!Exists
  <1>a. /\ IsFiniteSet(Users)
        /\ \A r \in Roles : Counted(r) \subseteq Users /\ Counted(r)' \subseteq Users
    BY AccFinite DEF Counted, A!Holding, A!Promised
  <1>b. ASSUME \A r \in Roles : Counted(r)' \subseteq Counted(r)
        PROVE  A!RoomKept'
    <2> SUFFICES ASSUME NEW r \in Roles PROVE Cardinality(Counted(r)') <= Limit[r]
      BY AccFinite DEF A!RoomKept, Counted
    <2>1. IsFiniteSet(Counted(r))
      BY <1>a, FS_Subset
    <2>2. Cardinality(Counted(r)') <= Cardinality(Counted(r)) /\ Cardinality(Counted(r)') \in Nat
          /\ Cardinality(Counted(r)) \in Nat
      BY <1>b, <2>1, FS_Subset, FS_CardinalityType
    <2>3. Cardinality(Counted(r)) <= Limit[r]
      BY AccRoomCounted
    <2> QED
      BY <2>2, <2>3
  \* A request begins that will write a user.
  <1>c. ASSUME NEW q \in Requests, NEW u \in Users, NEW pc, NEW role \in Roles, NEW copy,
               A!Begin(q, pc, u, role, copy), A!SharesCount(u),
               \A r \in Roles : Promised(q, r)' => u \in A!Holding(r) \/ A!HasRoom(r)
        PROVE  A!RoomKept'
    <2>1. \A r \in Roles : A!Holding(r)' = A!Holding(r)
      BY <1>c DEF A!Begin, A!Holding
    <2>2. /\ accRequests'[q] = [pc |-> pc, id |-> u, role |-> role, copy |-> copy]
          /\ \A p \in Requests : p # q => accRequests'[p] = accRequests[p]
          /\ accRequests[q].pc = "idle"
      BY <1>c DEF A!Begin
    <2>3. CASE A!Busy # {}
      <3>1. accUncounted' = accUncounted \cup {u} \cup {accRequests[p].id : p \in A!Busy}
        BY <1>c, <2>3 DEF A!SharesCount
      <3>2. \A r \in Roles : A!Promised(r)' \subseteq accUncounted'
        BY <2>2, <3>1 DEF A!Promised, A!Writing, A!Busy
      <3> QED
        BY <1>b, <2>1, <3>1, <3>2 DEF Counted
    <2>4. CASE A!Busy = {}
      <3>1. \A r \in Roles : /\ A!Promised(r)' \subseteq {u} /\ accUncounted' = accUncounted
                             /\ u \in A!Promised(r)' => Promised(q, r)'
        BY <1>c, <2>2, <2>4 DEF A!Promised, Promised, A!Writing, A!Busy, A!SharesCount
      <3> SUFFICES ASSUME NEW r \in Roles PROVE Cardinality(Counted(r)') <= Limit[r]
        BY AccFinite DEF A!RoomKept, Counted
      <3>2. CASE u \in A!Promised(r)' /\ u \notin A!Holding(r)
        <4>1. Cardinality(A!Holding(r)) < Limit[r]
          BY <1>c, <3>1, <3>2, AccFinite DEF A!HasRoom
        <4>2. IsFiniteSet(A!Holding(r)) /\ Cardinality(A!Holding(r)) \in Nat
          BY <1>a, FS_Subset, FS_CardinalityType DEF A!Holding
        <4>3. /\ IsFiniteSet(A!Holding(r) \cup {u})
              /\ Cardinality(A!Holding(r) \cup {u}) = Cardinality(A!Holding(r)) + 1
          BY <3>2, <4>2, FS_AddElement
        <4>4. Counted(r)' \subseteq A!Holding(r) \cup {u}
          BY <2>1, <3>1 DEF Counted
        <4>5. Cardinality(Counted(r)') \in Nat /\ Cardinality(Counted(r)') <= Cardinality(A!Holding(r) \cup {u})
          BY <4>3, <4>4, FS_Subset, FS_CardinalityType
        <4> QED
          BY <4>1, <4>2, <4>3, <4>5
      <3>3. CASE ~(u \in A!Promised(r)' /\ u \notin A!Holding(r))
        <4>1. Counted(r)' \subseteq Counted(r)
          BY <2>1, <3>1, <3>3 DEF Counted
        <4>2. IsFiniteSet(Counted(r))
          BY <1>a, FS_Subset
        <4>3. Cardinality(Counted(r)') <= Cardinality(Counted(r)) /\ Cardinality(Counted(r)') \in Nat
              /\ Cardinality(Counted(r)) \in Nat
          BY <4>1, <4>2, FS_Subset, FS_CardinalityType
        <4> QED
          BY <4>3, AccRoomCounted
      <3> QED
        BY <3>2, <3>3
    <2> QED
      BY <2>3, <2>4
  \* Otherwise a request ends or goes on, and a user comes into a role by a promise
  \* or uncounted.
  <1>d. ASSUME \A q \in Requests : accRequests'[q] = accRequests[q] \/ ~A!Writing(q)',
               accUncounted \subseteq accUncounted',
               \A r \in Roles : A!Holding(r)' \ accUncounted' \subseteq A!Holding(r) \cup A!Promised(r)
        PROVE  A!RoomKept'
    <2>1. \A r \in Roles : A!Promised(r)' \subseteq A!Promised(r)
      BY <1>d DEF A!Promised, A!Writing, A!Promise
    <2> QED
      BY <1>b, <1>d, <2>1 DEF Counted
  <1>1. ASSUME NEW q \in Requests, NEW u \in Users, NEW role \in Roles, A!ReadForCreate(q, u, role)
        PROVE  A!RoomKept'
    <2>1. accRequests'[q] = [pc |-> "insert", id |-> u, role |-> role, copy |-> None]
      BY <1>1 DEF A!ReadForCreate, A!Begin
    <2>2. \A r \in Roles : Promised(q, r)' => r = role
      BY <2>1 DEF Promised, A!Promise, A!NewUser
    <2> QED
      BY <1>1, <1>c, <2>2 DEF A!ReadForCreate
  <1>2. ASSUME NEW q \in Requests, NEW u \in Users, NEW role \in Roles, A!ReadForRole(q, u, role)
        PROVE  A!RoomKept'
    <2>1. accRequests'[q] = [pc |-> "role", id |-> u, role |-> role, copy |-> accUsers[u]]
          /\ accUsers[u] \in A!User
      BY <1>2 DEF A!ReadForRole, A!Begin
    <2>2. \A r \in Roles : Promised(q, r)' => r = role /\ accUsers[u].active
      BY <2>1 DEF Promised, A!Promise, A!User
    <2>3. \A r \in Roles : Promised(q, r)' => u \in A!Holding(r) \/ A!HasRoom(r)
      BY <1>2, <2>1, <2>2 DEF A!ReadForRole, A!Holding
    <2> QED
      BY <1>2, <1>c, <2>3 DEF A!ReadForRole
  <1>3. ASSUME NEW q \in Requests, NEW u \in Users, A!ReadProfile(q, u)
        PROVE  A!RoomKept'
    <2>1. /\ accRequests'[q] = [pc |-> "profile", id |-> u, role |-> A!Idle.role, copy |-> accUsers[u]]
          /\ A!Idle.role \in Roles /\ accUsers[u] # None
      BY <1>3 DEF A!ReadProfile, A!Begin, A!Request
    <2>2. \A r \in Roles : Promised(q, r)' => u \in A!Holding(r)
      BY <1>3, <2>1 DEF Promised, A!Promise, A!Holding
    <2> QED
      BY <1>3, <1>c, <2>1, <2>2 DEF A!ReadProfile
  <1>4. ASSUME NEW q \in Requests, NEW u \in Users, A!ReadForSchedule(q, u)
        PROVE  A!RoomKept'
    BY <1>4, <1>d DEF A!ReadForSchedule, A!Begin, A!Writing, A!Holding
  <1>5. ASSUME NEW q \in Requests, A!InsertUser(q)
        PROVE  A!RoomKept'
    <2> DEFINE u == accRequests[q].id
    <2>1. /\ accRequests[q].pc = "insert" /\ u \in Users /\ A!End(q) /\ UNCHANGED accUncounted
          /\ accUsers' = accUsers \/ accUsers' = [accUsers EXCEPT ![u] = A!NewUser(accRequests[q].role)]
      BY <1>5 DEF A!InsertUser
    <2>2. \A r \in Roles : Promised(q, r) <=> A!NewUser(accRequests[q].role).role = r
      BY <2>1 DEF Promised, A!Promise, A!Writing, A!NewUser
    <2>3. \A r \in Roles : A!Holding(r)' \subseteq A!Holding(r) \cup A!Promised(r)
      BY <2>1, <2>2 DEF A!Holding, A!Promised, Promised
    <2> QED
      BY <1>d, <2>1, <2>3 DEF A!End, A!Writing
  <1>6. ASSUME NEW q \in Requests, A!Writing(q), A!Promise(q) \in A!User,
               accUsers' = [accUsers EXCEPT ![accRequests[q].id] = A!Promise(q)],
               A!End(q), UNCHANGED accUncounted
        PROVE  A!RoomKept'
    <2>1. \A r \in Roles : A!Holding(r)' \subseteq A!Holding(r) \cup A!Promised(r)
      BY <1>6 DEF A!Holding, A!Promised, A!Writing
    <2> QED
      BY <1>6, <1>d, <2>1 DEF A!End, A!Writing
  <1>7. ASSUME NEW q \in Requests, A!SaveRole(q)
        PROVE  A!RoomKept'
    <2>1. A!Promise(q) = [accRequests[q].copy EXCEPT !.role = accRequests[q].role] /\ A!Promise(q) \in A!User
      BY <1>7, AccEdited DEF A!SaveRole, A!Promise, A!Request
    <2> QED
      BY <1>6, <1>7, <2>1 DEF A!SaveRole, A!Save, A!Writing
  <1>8. ASSUME NEW q \in Requests, A!SaveProfile(q)
        PROVE  A!RoomKept'
    <2>1. A!Promise(q) = accRequests[q].copy /\ A!Promise(q) \in A!User
      BY <1>8 DEF A!SaveProfile, A!Promise, A!Request
    <2> QED
      BY <1>6, <1>8, <2>1 DEF A!SaveProfile, A!Save, A!Writing
  \* A row keeps its role and is not made active.
  <1>9. ASSUME NEW u \in Users, accUsers[u] # None, NEW row \in A!User,
               accUsers' = [accUsers EXCEPT ![u] = row],
               row.role = accUsers[u].role, row.active => accUsers[u].active,
               \A q \in Requests : accRequests'[q] = accRequests[q] \/ ~A!Writing(q)',
               UNCHANGED accUncounted
        PROVE  A!RoomKept'
    <2>1. \A r \in Roles : A!Holding(r)' \subseteq A!Holding(r)
      BY <1>9 DEF A!Holding
    <2> QED
      BY <1>9, <1>d, <2>1
  <1>10. ASSUME NEW q \in Requests, A!WriteSchedule(q)
         PROVE  A!RoomKept'
    <2> DEFINE u == accRequests[q].id
    <2>1. /\ u \in Users /\ A!End(q) /\ UNCHANGED accUncounted
          /\ \A p \in Requests : accRequests'[p] = accRequests[p] \/ ~A!Writing(p)'
      BY <1>10 DEF A!WriteSchedule, A!End, A!Writing
    <2>2. CASE accUsers[u] = None
      BY <1>10, <1>d, <2>1, <2>2 DEF A!WriteSchedule, A!Holding
    <2>3. CASE accUsers[u] # None
      <3> DEFINE row == [accUsers[u] EXCEPT !.deletion = "grace"]
      <3>1. accUsers' = [accUsers EXCEPT ![u] = row] /\ accUsers[u] \in A!User
        BY <1>10, <2>1, <2>3 DEF A!WriteSchedule
      <3>2. row \in A!User /\ row.role = accUsers[u].role /\ row.active = accUsers[u].active
        BY <3>1, AccDated
      <3> HIDE DEF row
      <3> QED
        BY <1>9, <2>1, <2>3, <3>1, <3>2
    <2> QED
      BY <2>2, <2>3
  <1>11. ASSUME NEW u \in Users, NEW active \in BOOLEAN, A!SetActive(u, active)
         PROVE  A!RoomKept'
    BY <1>11, <1>d DEF A!SetActive, A!Holding, A!User
  <1>12. ASSUME NEW u \in Users, A!CancelDeletion(u)
         PROVE  A!RoomKept'
    <2> DEFINE row == [accUsers[u] EXCEPT !.deletion = "no"]
    <2>1. /\ accUsers' = [accUsers EXCEPT ![u] = row] /\ accUsers[u] \in A!User /\ accUsers[u] # None
          /\ UNCHANGED <<accRequests, accUncounted>>
      BY <1>12 DEF A!CancelDeletion, A!Save
    <2>2. row \in A!User /\ row.role = accUsers[u].role /\ row.active = accUsers[u].active
      BY <2>1, AccDated
    <2> HIDE DEF row
    <2> QED
      BY <1>9, <2>1, <2>2
  <1>13. ASSUME NEW u \in Users, A!PassGrace(u)
         PROVE  A!RoomKept'
    <2> DEFINE row == [accUsers[u] EXCEPT !.deletion = "due"]
    <2>1. /\ accUsers' = [accUsers EXCEPT ![u] = row] /\ accUsers[u] \in A!User /\ accUsers[u] # None
          /\ UNCHANGED <<accRequests, accUncounted>>
      BY <1>13 DEF A!PassGrace
    <2>2. row \in A!User /\ row.role = accUsers[u].role /\ row.active = accUsers[u].active
      BY <2>1, AccDated
    <2> HIDE DEF row
    <2> QED
      BY <1>9, <2>1, <2>2
  <1>14. ASSUME NEW u \in Users, A!FindDue \/ A!DeleteDue(u) \/ A!DeleteFails(u)
         PROVE  A!RoomKept'
    BY <1>14, <1>d DEF A!FindDue, A!DeleteDue, A!DeleteFails, A!Holding
  <1> QED
    BY <1>1, <1>2, <1>3, <1>4, <1>5, <1>7, <1>8, <1>10, <1>11, <1>12, <1>13, <1>14
    DEF A!Next, A!Write, A!Prune

LEMMA AccInit == A!Init => A!IInv
  <1> SUFFICES ASSUME A!Init PROVE A!IInv
    OBVIOUS
  <1> USE AccountsAssumption, AccIdle, AccNewUser DEF A!ConstantsOK, A!Init, A!Exists
  <1>0. A!TypeOK
    <2>1. accUsers \in [Users -> A!User \cup {None}]
      OBVIOUS
    <2>2. accRequests \in [Requests -> A!Request]
      OBVIOUS
    <2>3. accFate \in [Users -> {"kept", "erased", "raced"}]
      OBVIOUS
    <2>4. accTodo = {} /\ accAsked = {} /\ accLate = {} /\ accUncounted = {} /\ accJoined = FALSE
      OBVIOUS
    <2>5. accServed \in 0..MaxUserRequests
      OBVIOUS
    <2> HIDE DEF A!Init
    <2> QED
      BY ONLY <2>1, <2>2, <2>3, <2>4, <2>5 DEF A!TypeOK
  <1>1. A!RequestsOK /\ A!ListedExist /\ A!CopiesMarked /\ A!ErasedStaysErased
    BY DEF A!RequestsOK, A!ListedExist, A!CopiesMarked, A!ErasedStaysErased
  <1>4. A!MarkedAsked
    BY DEF A!MarkedAsked, A!NewUser
  <1>2. A!OwnerKept /\ A!LeavesAlone
    BY DEF A!OwnerKept, A!LeavesAlone, A!NewUser
  <1>3. A!RoomKept
    <2>1. \A r \in Roles : A!Holding(r) = {} /\ A!Promised(r) = {}
      BY DEF A!Holding, A!Promised, A!Writing, A!NewUser
    <2>2. \A r \in Roles : Counted(r) = {}
      BY <2>1 DEF Counted
    <2>3. \A r \in Roles : Limit[r] \in Nat
      OBVIOUS
    <2> QED
      BY <2>2, <2>3, AccRoomCounted, FS_EmptySet
  <1> QED
    BY <1>0, <1>1, <1>2, <1>3, <1>4 DEF A!IInv

LEMMA AccNext == A!IInv /\ [A!Next]_(A!vars) => A!IInv'
  <1>1. ASSUME A!IInv, A!Next PROVE A!IInv'
    BY <1>1, AccType, AccRequests, AccRoom, AccMarked, AccErased, AccOwner, AccLeaves DEF A!IInv
  <1>2. ASSUME A!IInv, UNCHANGED A!vars PROVE A!IInv'
    <2> USE <1>2 DEF A!IInv, A!vars
    <2>1. A!TypeOK' /\ A!RequestsOK' /\ A!ListedExist' /\ A!MarkedAsked'
      BY DEF A!TypeOK, A!RequestsOK, A!ListedExist, A!MarkedAsked, A!Exists
    <2>2. A!CopiesMarked' /\ A!OwnerKept' /\ A!LeavesAlone' /\ A!ErasedStaysErased'
      BY DEF A!CopiesMarked, A!OwnerKept, A!LeavesAlone, A!Leaving, A!ErasedStaysErased, A!Exists
    <2>3. A!RoomKept'
      BY DEF A!RoomKept, A!Holding, A!Promised, A!Writing, A!Promise, A!NewUser, A!Exists
    <2> QED
      BY <2>1, <2>2, <2>3
  <1> QED
    BY <1>1, <1>2

\* The step of the office that is a step of the users, or none of theirs.
LEMMA AccStep == [OfficeNext]_officeVars => [A!Next]_(A!vars)
  BY DEF OfficeNext, officeVars, A!vars, accVars, AccountsStep, SignupStep, CodesStep, AgendasStep,
     CatalogueStep, PlansStep, LeadsStep

LEMMA AccInvariant == OfficeSpec => []A!IInv
  <1>1. OfficeInit => A!IInv
    BY AccInit DEF OfficeInit
  <1> QED
    BY <1>1, AccNext, AccStep, PTL DEF OfficeSpec

LEMMA AccExplained == A!IInv => AccountsExplained
  <1> SUFFICES ASSUME A!IInv PROVE AccountsExplained
    OBVIOUS
  <1>1. A!LimitExplained
    <2> SUFFICES ASSUME NEW r \in Roles PROVE Cardinality(A!Holding(r) \ accUncounted) <= Limit[r]
      BY AccFinite DEF A!LimitExplained
    <2>1. IsFiniteSet(Counted(r))
      BY AccountsAssumption, AccFinite, FS_Subset DEF Counted, A!Holding, A!Promised, A!ConstantsOK
    <2>2. A!Holding(r) \ accUncounted \subseteq Counted(r)
      BY DEF Counted
    <2>3. /\ Cardinality(A!Holding(r) \ accUncounted) \in Nat /\ Cardinality(Counted(r)) \in Nat
          /\ Cardinality(A!Holding(r) \ accUncounted) <= Cardinality(Counted(r))
      BY <2>1, <2>2, FS_Subset, FS_CardinalityType
    <2>4. Cardinality(Counted(r)) <= Limit[r] /\ Limit[r] \in Nat
      BY AccRoomCounted, AccountsAssumption DEF A!IInv, A!ConstantsOK
    <2> QED
      BY <2>3, <2>4
  <1>2. A!OwnerLeavesLast
    BY DEF A!IInv, A!LeavesAlone, A!Leaving, A!OwnerLeavesLast, A!Exists
  <1> QED
    BY <1>1, <1>2 DEF AccountsExplained, A!IInv

\* Users: no role exceeds its limit, nobody but who joined or was raced outlives the
\* owner, and an erased user is back only by a raced save (UsersService, MeService,
\* AccountPruneScheduler), in every office.
THEOREM AccountsAlwaysExplained == OfficeSpec => []AccountsExplained
  BY AccInvariant, AccExplained, PTL

\* One step erases only users that were due, or late.
LEMMA AccErasures == A!IInv /\ [A!Next]_(A!vars) =>
    [\A u \in Users : A!Exists(u) /\ accUsers'[u] = None
                        => (u \in accAsked /\ accUsers[u].deletion = "due") \/ u \in accLate]_(A!vars)
  <1> SUFFICES ASSUME A!IInv, A!Next, NEW u \in Users, accUsers[u] # None, accUsers'[u] = None
               PROVE  (u \in accAsked /\ accUsers[u].deletion = "due") \/ u \in accLate
    BY DEF A!Exists
  <1> USE AccountsAssumption, AccNewUser DEF A!ConstantsOK, A!IInv, A!TypeOK, A!RequestsOK
  <1>1. ASSUME u \in accTodo
        PROVE  (u \in accAsked /\ accUsers[u].deletion = "due") \/ u \in accLate
    BY <1>1 DEF A!MarkedAsked, A!Exists
  <1>2. ~ UNCHANGED accUsers
    OBVIOUS
  <1>3. ASSUME NEW v \in Users, NEW row \in A!User, accUsers' = [accUsers EXCEPT ![v] = row]
        PROVE  FALSE
    BY <1>3
  <1>4. ASSUME NEW v \in Users, A!DeleteDue(v)
        PROVE  u \in accTodo
    BY <1>4 DEF A!DeleteDue
  <1>5. ASSUME NEW q \in Requests, A!Write(q)
        PROVE  UNCHANGED accUsers \/ \E v \in Users, row \in A!User : accUsers' = [accUsers EXCEPT ![v] = row]
    <2>1. CASE A!InsertUser(q)
      BY <2>1 DEF A!InsertUser, A!Request
    <2>2. CASE A!SaveRole(q) \/ A!SaveProfile(q)
      BY <2>2, AccEdited DEF A!SaveRole, A!SaveProfile, A!Save, A!Request
    <2>3. CASE A!WriteSchedule(q)
      BY <2>3, AccEdited DEF A!WriteSchedule, A!Exists
    <2> QED
      BY <1>5, <2>1, <2>2, <2>3 DEF A!Write
  <1>6. ASSUME NEW v \in Users, NEW active \in BOOLEAN,
               A!SetActive(v, active) \/ A!CancelDeletion(v) \/ A!PassGrace(v)
        PROVE  \E row \in A!User : accUsers' = [accUsers EXCEPT ![v] = row]
    BY <1>6, AccEdited DEF A!SetActive, A!CancelDeletion, A!Save, A!PassGrace, A!Exists
  <1>7. ASSUME NEW q \in Requests, NEW v \in Users, NEW role \in Roles,
               A!ReadForCreate(q, v, role) \/ A!ReadForRole(q, v, role) \/ A!ReadProfile(q, v)
                  \/ A!ReadForSchedule(q, v) \/ A!FindDue \/ A!DeleteFails(v)
        PROVE  UNCHANGED accUsers
    BY <1>7 DEF A!ReadForCreate, A!ReadForRole, A!ReadProfile, A!ReadForSchedule, A!Begin, A!FindDue,
       A!DeleteFails
  <1>8. ASSUME NEW q \in Requests, A!Write(q)
        PROVE  FALSE
    BY <1>2, <1>3, <1>5, <1>8
  <1>9. ASSUME NEW v \in Users, NEW active \in BOOLEAN,
               A!SetActive(v, active) \/ A!CancelDeletion(v) \/ A!PassGrace(v)
        PROVE  FALSE
    BY <1>3, <1>6, <1>9
  <1>10. ASSUME A!Prune
         PROVE  u \in accTodo
    BY <1>2, <1>4, <1>10 DEF A!Prune, A!FindDue, A!DeleteFails
  <1> QED
    BY <1>1, <1>2, <1>7, <1>8, <1>9, <1>10 DEF A!Next
-----------------------------------------------------------------------------
(* Signup *)

LEMMA SignFinite == \A T : S!Cardinality(T) = Cardinality(T)
  BY DEF S!Cardinality, Cardinality

LEMMA SignIdle ==
    /\ S!Idle \in S!Request
    /\ S!Idle.pc = "idle" /\ S!Idle.otp = None /\ S!Idle.copy = None /\ S!Idle.code = 0
  BY SignupAssumption DEF S!Idle, S!Request, S!ConstantsOK

LEMMA SignCodes ==
    ASSUME NEW o \in Otps, NEW n \in 0..MaxCodes, S!Used(o) = 1..n
    PROVE  S!NextCode(o) = n + 1
  <1>1. Cardinality(1..n) = n
    BY SignupAssumption, FS_Interval DEF S!ConstantsOK
  <1>2. S!NextCode(o) = 1 + S!Cardinality(S!Used(o))
    BY DEF S!NextCode, S!Used
  <1> QED
    BY <1>1, <1>2, SignFinite

\* What a request writes into its row, of the copy it has read.
LEMMA SignRows ==
    ASSUME NEW copy \in S!Row
    PROVE  /\ copy # None
           /\ \A code \in S!Codes :
                 /\ [copy EXCEPT !.code = code, !.attempts = 0] \in S!Row
                 /\ [copy EXCEPT !.code = code, !.attempts = 0] # None
           /\ copy.attempts < MaxAttempts =>
                 /\ [copy EXCEPT !.attempts = @ + 1] \in S!Row
                 /\ [copy EXCEPT !.attempts = @ + 1] # None
           /\ [copy EXCEPT !.consumed = TRUE] \in S!Row
           /\ [copy EXCEPT !.consumed = TRUE] # None
  <1>1. MaxAttempts \in Nat /\ 0 \in 0..MaxAttempts /\ None \notin S!Row
    BY SignupAssumption DEF S!ConstantsOK
  <1>2. ASSUME NEW code \in S!Codes
        PROVE  [copy EXCEPT !.code = code, !.attempts = 0] \in S!Row
    <2>1. 0 \in 0..MaxAttempts
      BY <1>1
    <2> QED
      BY ONLY <2>1, code \in S!Codes, copy \in S!Row DEF S!Row
  <1>3. ASSUME copy.attempts < MaxAttempts
        PROVE  [copy EXCEPT !.attempts = @ + 1] \in S!Row
    BY <1>1, <1>3 DEF S!Row
  <1>4. [copy EXCEPT !.consumed = TRUE] \in S!Row
    BY DEF S!Row
  <1> QED
    BY <1>1, <1>2, <1>3, <1>4

LEMMA SignFirst ==
    [code |-> 1, attempts |-> 0, consumed |-> FALSE] \in S!Row
  <1>1. 1 \in S!Codes /\ 0 \in 0..MaxAttempts
    BY SignupAssumption DEF S!Codes, S!ConstantsOK
  <1> QED
    BY <1>1 DEF S!Row

LEMMA SignType ==
    ASSUME S!TypeOK, S!RequestsOK, S!Next
    PROVE  S!TypeOK' /\ S!RequestsOK'
  <1> USE SignupAssumption, SignIdle DEF S!ConstantsOK, S!TypeOK, S!RequestsOK, S!Exists
  <1>1. ASSUME NEW q \in Requests, NEW o \in Otps, S!Start(q, o)
        PROVE  S!TypeOK' /\ S!RequestsOK'
    <2> DEFINE row == [code |-> 1, attempts |-> 0, consumed |-> FALSE]
    <2>1. row \in S!Row /\ row # None
      BY SignFirst
    <2> HIDE DEF row
    <2>2. signRows' = [signRows EXCEPT ![o] = row] /\ signRows[o] = None
      BY <1>1 DEF S!Start, row
    <2>3. signRequests' = [signRequests EXCEPT ![q] = [pc |-> "send", otp |-> o, copy |-> None, code |-> 1]]
      BY <1>1 DEF S!Start, S!GoTo
    <2>4. 1 \in S!Codes /\ S!Codes \subseteq 0..MaxCodes
      BY DEF S!Codes
    <2>5. signRequests' \in [Requests -> S!Request]
      BY <2>3, <2>4 DEF S!Request
    <2>6. signAge' = [signAge EXCEPT ![o][1] = "new"]
      BY <1>1 DEF S!Start, S!Generate
    <2>9. signRows' \in [Otps -> S!Row \cup {None}] /\ signAge' \in [Otps -> [S!Codes -> {"unused", "new", "cooled", "expired"}]]
      BY <2>1, <2>2, <2>4, <2>6
    <2>10. signServed' \in 0..MaxCodeRequests
      BY <1>1 DEF S!Start, S!Arrive
    <2>7. S!TypeOK'
      BY <1>1, <2>5, <2>9, <2>10 DEF S!Start
    <2>8. S!RequestsOK'
      BY <2>1, <2>2, <2>3, <2>4
    <2> QED
      BY <2>7, <2>8
  <1>2. ASSUME NEW q \in Requests, NEW o \in Otps, S!ReadForResend(q, o)
        PROVE  S!TypeOK' /\ S!RequestsOK'
    BY <1>2 DEF S!ReadForResend, S!Known, S!GoTo, S!Arrive, S!Request
  <1>3. ASSUME NEW q \in Requests, NEW o \in Otps, NEW code \in {0, signSent[o]}, S!ReadForVerify(q, o, code)
        PROVE  S!TypeOK' /\ S!RequestsOK'
    BY <1>3 DEF S!ReadForVerify, S!Known, S!GoTo, S!Arrive, S!Request
  <1>4. ASSUME NEW q \in Requests, S!SaveResend(q)
        PROVE  S!TypeOK' /\ S!RequestsOK'
    <2> DEFINE o == signRequests[q].otp
               row == [signRequests[q].copy EXCEPT !.code = S!NextCode(o), !.attempts = 0]
    <2>1. o \in Otps /\ S!NextCode(o) \in S!Codes /\ signRequests[q].copy \in S!Row
      BY <1>4 DEF S!SaveResend, S!Request
    <2>2. row \in S!Row /\ row # None
      BY <2>1, SignRows
    <2>3. /\ signRows' = [signRows EXCEPT ![o] = row]
          /\ signCrossed' \in {signCrossed, signCrossed \cup {o}}
      BY <1>4 DEF S!SaveResend, S!Save
    <2> HIDE DEF row
    <2> QED
      <3>1. signRequests' = [signRequests EXCEPT ![q] =
                                [pc |-> "send", otp |-> o, copy |-> None, code |-> S!NextCode(o)]]
        BY <1>4 DEF S!SaveResend, S!GoTo
      <3>2. signRequests' \in [Requests -> S!Request]
        BY <2>1, <3>1 DEF S!Request, S!Codes
      <3>3. signAge' \in [Otps -> [S!Codes -> {"unused", "new", "cooled", "expired"}]]
        BY <1>4, <2>1 DEF S!SaveResend, S!Generate
      <3>4. S!TypeOK'
        BY <1>4, <2>1, <2>2, <2>3, <3>2, <3>3 DEF S!SaveResend
      <3>5. S!RequestsOK'
        BY <2>1, <2>2, <2>3, <3>1
      <3> QED
        BY <3>4, <3>5
  <1>5. ASSUME NEW q \in Requests, S!SendMessage(q) \/ S!SendFails(q) \/ S!Rollback(q)
        PROVE  S!TypeOK' /\ S!RequestsOK'
    <2>1. signRequests' = [signRequests EXCEPT ![q] = S!Idle] /\ UNCHANGED <<signRows, signAge, signWorkspaces, signServed, signFailures, signOverlapped>>
      BY <1>5 DEF S!SendMessage, S!SendFails, S!Rollback, S!End
    <2>2. /\ signRequests[q].otp \in Otps /\ signRequests[q].code \in 0..MaxCodes
          /\ signSent' \in {signSent, [signSent EXCEPT ![signRequests[q].otp] = signRequests[q].code]}
          /\ signCrossed' \in {signCrossed, signCrossed \cup {signRequests[q].otp}}
      BY <1>5 DEF S!SendMessage, S!SendFails, S!Rollback, S!Request
    <2> QED
      BY <2>1, <2>2
  <1>6. ASSUME NEW q \in Requests, S!SaveFailure(q)
        PROVE  S!TypeOK' /\ S!RequestsOK'
    <2> DEFINE o == signRequests[q].otp
               row == [signRequests[q].copy EXCEPT !.attempts = @ + 1]
    <2>1. o \in Otps /\ signRequests[q].copy \in S!Row
      BY <1>6 DEF S!SaveFailure, S!Request
    <2>2. row \in S!Row /\ row # None
      BY <1>6, <2>1, SignRows DEF S!SaveFailure
    <2>3. /\ signRows' = [signRows EXCEPT ![o] = row]
          /\ signCrossed' \in {signCrossed, signCrossed \cup {o}}
      BY <1>6 DEF S!SaveFailure, S!Save
    <2> HIDE DEF row
    <2> QED
      BY <1>6, <2>1, <2>2, <2>3 DEF S!SaveFailure, S!End
  <1>7. ASSUME NEW q \in Requests, S!CheckAddress(q)
        PROVE  S!TypeOK' /\ S!RequestsOK'
    <2>1. signRequests' \in {[signRequests EXCEPT ![q] = S!Idle], [signRequests EXCEPT ![q].pc = "create"]}
      BY <1>7 DEF S!CheckAddress, S!End
    <2>2. signRequests[q].otp \in Otps /\ signRequests[q].pc = "right"
      BY <1>7 DEF S!CheckAddress
    <2>3. AddressOf[signRequests[q].otp] \in Addresses
      BY <2>2
    <2>4. UNCHANGED <<signRows, signAge, signWorkspaces, signSent, signServed, signFailures, signCrossed>>
          /\ signOverlapped' \subseteq Addresses
      BY <1>7, <2>3 DEF S!CheckAddress
    <2>5. CASE signRequests' = [signRequests EXCEPT ![q] = S!Idle]
      BY <2>4, <2>5
    <2>6. CASE signRequests' = [signRequests EXCEPT ![q].pc = "create"]
      <3>1. [signRequests[q] EXCEPT !.pc = "create"] \in S!Request
        BY DEF S!Request
      <3>2. signRequests'[q] = [signRequests[q] EXCEPT !.pc = "create"]
        BY <2>6
      <3>3. /\ signRequests'[q].pc = "create" /\ signRequests'[q].otp = signRequests[q].otp
            /\ signRequests'[q].copy = signRequests[q].copy
        BY <3>2 DEF S!Request
      <3>4. \A p \in Requests \ {q} : signRequests'[p] = signRequests[p]
        BY <2>6
      <3>5. signRequests' \in [Requests -> S!Request]
        BY <2>6, <3>1
      <3> QED
        BY <2>2, <2>4, <3>3, <3>4, <3>5
    <2> QED
      BY <2>1, <2>5, <2>6
  <1>8. ASSUME NEW q \in Requests, S!CreateWorkspace(q)
        PROVE  S!TypeOK' /\ S!RequestsOK'
    <2> DEFINE o == signRequests[q].otp
               row == [signRequests[q].copy EXCEPT !.consumed = TRUE]
    <2>1. o \in Otps /\ signRequests[q].copy \in S!Row
      BY <1>8 DEF S!CreateWorkspace, S!Request
    <2>2. row \in S!Row /\ row # None
      BY <2>1, SignRows
    <2>3. /\ signRows' = [signRows EXCEPT ![o] = row]
          /\ signCrossed' \in {signCrossed, signCrossed \cup {o}}
      BY <1>8 DEF S!CreateWorkspace, S!Save
    <2> HIDE DEF row
    <2> QED
      BY <1>8, <2>1, <2>2, <2>3 DEF S!CreateWorkspace, S!End
  <1>9. ASSUME NEW o \in Otps, S!Grow(o)
        PROVE  S!TypeOK' /\ S!RequestsOK'
    BY <1>9 DEF S!Grow, S!Row
  <1> QED
    BY <1>1, <1>2, <1>3, <1>4, <1>5, <1>6, <1>7, <1>8, <1>9 DEF S!Next, S!Step

LEMMA SignAlone ==
    ASSUME S!TypeOK, S!RequestsOK, S!CreatorsAlone, S!Next
    PROVE  S!CreatorsAlone'
  <1> USE SignupAssumption, SignIdle DEF S!ConstantsOK, S!TypeOK, S!RequestsOK, S!CreatorsAlone, S!Creates
  <1>1. ASSUME UNCHANGED <<signWorkspaces, signOverlapped>>,
               \A p \in Requests : signRequests'[p].pc = "create" => signRequests'[p] = signRequests[p]
        PROVE  S!CreatorsAlone'
    BY <1>1
  <1>2. ASSUME NEW q \in Requests, NEW o \in Otps, S!Start(q, o)
        PROVE  S!CreatorsAlone'
    BY <1>1, <1>2 DEF S!Start, S!GoTo
  <1>3. ASSUME NEW q \in Requests, NEW o \in Otps, S!ReadForResend(q, o)
        PROVE  S!CreatorsAlone'
    BY <1>1, <1>3 DEF S!ReadForResend, S!GoTo
  <1>4. ASSUME NEW q \in Requests, NEW o \in Otps, NEW code \in {0, signSent[o]}, S!ReadForVerify(q, o, code)
        PROVE  S!CreatorsAlone'
    BY <1>1, <1>4 DEF S!ReadForVerify, S!GoTo
  <1>5. ASSUME NEW q \in Requests, S!SaveResend(q)
        PROVE  S!CreatorsAlone'
    BY <1>1, <1>5 DEF S!SaveResend, S!GoTo
  <1>6. ASSUME NEW q \in Requests, S!SendMessage(q) \/ S!SendFails(q) \/ S!SaveFailure(q) \/ S!Rollback(q)
        PROVE  S!CreatorsAlone'
    BY <1>1, <1>6 DEF S!SendMessage, S!SendFails, S!SaveFailure, S!Rollback, S!End
  <1>7. ASSUME NEW q \in Requests, S!CheckAddress(q)
        PROVE  S!CreatorsAlone'
    <2> DEFINE address == AddressOf[signRequests[q].otp]
    <2>1. address \in Addresses /\ UNCHANGED signWorkspaces /\ signOverlapped \subseteq signOverlapped'
      BY <1>7 DEF S!CheckAddress
    <2>2. CASE signWorkspaces[address] # 0
      <3>1. signRequests' = [signRequests EXCEPT ![q] = S!Idle]
        BY <1>7, <2>2 DEF S!CheckAddress, S!End
      <3> QED
        BY <2>1, <3>1
    <2>3. CASE signWorkspaces[address] = 0
      <3>1. signRequests' = [signRequests EXCEPT ![q].pc = "create"]
        BY <1>7, <2>3 DEF S!CheckAddress
      <3>2. address \in signOverlapped' \/ \A p \in Requests : ~ S!Creates(p, address)
        BY <1>7 DEF S!CheckAddress
      <3>3. \A p \in Requests, a \in Addresses : S!Creates(p, a)' => S!Creates(p, a) \/ (p = q /\ a = address)
        BY <3>1 DEF S!Request
      <3> SUFFICES ASSUME NEW a \in Addresses, a \notin signOverlapped'
                   PROVE  /\ signWorkspaces[a] <= 1
                          /\ \A p \in Requests : S!Creates(p, a)' =>
                                signWorkspaces[a] = 0 /\ \A r \in Requests : S!Creates(r, a)' => r = p
        BY <2>1
      <3>4. CASE a # address
        <4>1. \A p \in Requests : S!Creates(p, a)' => S!Creates(p, a)
          BY <3>3, <3>4
        <4>2. a \in Addresses \ signOverlapped
          BY <2>1
        <4> HIDE DEF S!Creates
        <4> QED
          BY <4>1, <4>2
      <3>5. CASE a = address
        BY <2>1, <2>3, <3>2, <3>3, <3>5
      <3> QED
        BY <3>4, <3>5
    <2> QED
      BY <2>2, <2>3
  <1>8. ASSUME NEW q \in Requests, S!CreateWorkspace(q)
        PROVE  S!CreatorsAlone'
    <2> DEFINE address == AddressOf[signRequests[q].otp]
    <2>1. /\ address \in Addresses /\ S!Creates(q, address) /\ UNCHANGED signOverlapped
          /\ signWorkspaces' = [signWorkspaces EXCEPT ![address] = @ + 1]
          /\ signRequests' = [signRequests EXCEPT ![q] = S!Idle]
      BY <1>8 DEF S!CreateWorkspace, S!End
    <2> QED
      BY <2>1
  <1>9. ASSUME NEW o \in Otps, S!Grow(o)
        PROVE  S!CreatorsAlone'
    BY <1>9 DEF S!Grow
  <1> QED
    BY <1>2, <1>3, <1>4, <1>5, <1>6, <1>7, <1>8, <1>9 DEF S!Next, S!Step

LEMMA SignMoved ==
    ASSUME S!TypeOK, NEW q \in Requests, NEW r, signRequests' = [signRequests EXCEPT ![q] = r]
    PROVE  signRequests'[q] = r /\ \A p \in Requests \ {q} : signRequests'[p] = signRequests[p]
  BY DEF S!TypeOK

\* Whoever saves a row either leaves the copy's other columns as they are, or crosses it.
LEMMA SignSave ==
    ASSUME S!TypeOK, S!RequestsOK, NEW q \in Requests, NEW row, S!Save(q, row),
           signRequests[q].pc \in {"resend", "wrong", "right", "create"}
    PROVE  LET o == signRequests[q].otp
               copy == signRequests[q].copy
           IN  /\ o \in Otps /\ copy \in S!Row /\ signRows[o] \in S!Row
               /\ signRows' = [signRows EXCEPT ![o] = row]
               /\ signCrossed \subseteq signCrossed'
               /\ o \in signCrossed' \/ copy = signRows[o]
  BY SignupAssumption DEF S!ConstantsOK, S!TypeOK, S!RequestsOK, S!Exists, S!Request, S!Save

LEMMA SignFailures ==
    ASSUME S!TypeOK, S!RequestsOK, S!FailuresKept, S!Next
    PROVE  S!FailuresKept'
  <1> USE DEF S!FailuresKept, S!FailuresCounted, S!Exists
  <1>1. ASSUME UNCHANGED <<signRows, signFailures>>, signCrossed \subseteq signCrossed'
        PROVE  S!FailuresKept'
    BY <1>1
  <1>2. ASSUME NEW q \in Requests, NEW o \in Otps, S!Start(q, o)
        PROVE  S!FailuresKept'
    <2>1. /\ signRows[o] = None /\ UNCHANGED <<signFailures, signCrossed>>
          /\ signRows' = [signRows EXCEPT ![o] = [code |-> 1, attempts |-> 0, consumed |-> FALSE]]
      BY <1>2 DEF S!Start
    <2> QED
      BY <2>1 DEF S!TypeOK
  <1>3. ASSUME NEW q \in Requests, S!SaveResend(q)
        PROVE  S!FailuresKept'
    <2> DEFINE o == signRequests[q].otp
               row == [signRequests[q].copy EXCEPT !.code = S!NextCode(o), !.attempts = 0]
    <2>1. S!Save(q, row) /\ signFailures' = [signFailures EXCEPT ![o] = 0] /\ S!NextCode(o) \in S!Codes
      BY <1>3 DEF S!SaveResend
    <2>2. signRows' = [signRows EXCEPT ![o] = row] /\ signRows[o] # None /\ signCrossed \subseteq signCrossed' /\ o \in Otps
          /\ signRequests[q].copy \in S!Row
      BY <1>3, <2>1, SignSave DEF S!SaveResend, S!RequestsOK
    <2>3. row # None /\ row.attempts = 0
      <3>1. row # None
        BY <2>1, <2>2, SignRows
      <3>2. row.attempts = 0
        BY <2>2 DEF S!Row
      <3> QED
        BY <3>1, <3>2
    <2> HIDE DEF row
    <2> QED
      BY <2>1, <2>2, <2>3 DEF S!TypeOK
  <1>4. ASSUME NEW q \in Requests, S!SaveFailure(q)
        PROVE  S!FailuresKept'
    <2> DEFINE o == signRequests[q].otp
               row == [signRequests[q].copy EXCEPT !.attempts = @ + 1]
    <2>1. S!Save(q, row) /\ signFailures' = [signFailures EXCEPT ![o] = @ + 1]
      BY <1>4 DEF S!SaveFailure
    <2>2. /\ signRows' = [signRows EXCEPT ![o] = row] /\ signRows[o] # None /\ signCrossed \subseteq signCrossed'
          /\ o \in Otps /\ signRequests[q].copy \in S!Row
          /\ o \in signCrossed' \/ signRequests[q].copy = signRows[o]
      BY <1>4, <2>1, SignSave DEF S!SaveFailure, S!RequestsOK
    <2>3. row # None /\ row.attempts = signRequests[q].copy.attempts + 1
      BY <1>4, <2>1, <2>2, SignRows DEF S!Row, S!SaveFailure, S!RequestsOK
    <2> HIDE DEF row
    <2> QED
      BY <2>1, <2>2, <2>3 DEF S!TypeOK
  <1>5. ASSUME NEW q \in Requests, S!CreateWorkspace(q)
        PROVE  S!FailuresKept'
    <2> DEFINE o == signRequests[q].otp
               row == [signRequests[q].copy EXCEPT !.consumed = TRUE]
    <2>1. S!Save(q, row) /\ UNCHANGED signFailures
      BY <1>5 DEF S!CreateWorkspace
    <2>2. /\ signRows' = [signRows EXCEPT ![o] = row] /\ signRows[o] # None /\ signCrossed \subseteq signCrossed'
          /\ o \in Otps /\ signRequests[q].copy \in S!Row
          /\ o \in signCrossed' \/ signRequests[q].copy = signRows[o]
      BY <1>5, <2>1, SignSave DEF S!CreateWorkspace, S!RequestsOK
    <2>3. row # None /\ row.attempts = signRequests[q].copy.attempts
      BY <2>2, SignRows DEF S!Row
    <2> HIDE DEF row
    <2> QED
      BY <2>1, <2>2, <2>3 DEF S!TypeOK
  <1>6. ASSUME NEW q \in Requests, S!SendMessage(q) \/ S!SendFails(q) \/ S!CheckAddress(q) \/ S!Rollback(q)
        PROVE  S!FailuresKept'
    BY <1>1, <1>6 DEF S!SendMessage, S!SendFails, S!CheckAddress, S!Rollback
  <1>7. ASSUME NEW q \in Requests, NEW o \in Otps, NEW code \in {0, signSent[o]},
               S!ReadForResend(q, o) \/ S!ReadForVerify(q, o, code)
        PROVE  S!FailuresKept'
    BY <1>1, <1>7 DEF S!ReadForResend, S!ReadForVerify
  <1>8. ASSUME NEW o \in Otps, S!Grow(o)
        PROVE  S!FailuresKept'
    BY <1>1, <1>8 DEF S!Grow
  <1> QED
    BY <1>2, <1>3, <1>4, <1>5, <1>6, <1>7, <1>8 DEF S!Next, S!Step

LEMMA SignOrder ==
    ASSUME S!TypeOK, S!RequestsOK, S!CodesInOrder, S!Next
    PROVE  S!CodesInOrder'
  <1> USE DEF S!CodesInOrder, S!Exists
  \* A copy is of the row it was read from, and codes only get used.
  <1>1. ASSUME UNCHANGED <<signRows, signAge>>,
               \A p \in Requests : signRequests'[p].copy # None =>
                   \/ signRequests'[p].copy = signRows[signRequests'[p].otp]
                   \/ signRequests'[p].otp = signRequests[p].otp /\ signRequests'[p].copy = signRequests[p].copy
        PROVE  S!CodesInOrder'
    BY <1>1 DEF S!Used
  <1>2. ASSUME NEW o \in Otps, NEW n \in 0..MaxCodes, S!Used(o)' = 1..n, S!Used(o) \subseteq 1..n,
               UNCHANGED signRows \/ \E row : signRows' = [signRows EXCEPT ![o] = row] /\ row.code \in 1..n,
               \A p \in Otps \ {o} : S!Used(p)' = S!Used(p),
               \A p \in Requests : signRequests'[p].copy # None =>
                   signRequests'[p].otp = signRequests[p].otp /\ signRequests'[p].copy = signRequests[p].copy
        PROVE  S!CodesInOrder'
    <2> HIDE DEF S!Used
    <2>1. \A p \in Otps : S!Used(p) \subseteq S!Used(p)'
      BY <1>2
    <2>2. \A p \in Otps : \E m \in 0..MaxCodes : S!Used(p)' = 1..m
      BY <1>2
    <2>3. \A p \in Otps : signRows'[p] # None => signRows'[p].code \in S!Used(p)'
      BY <1>2, <2>1 DEF S!TypeOK
    <2> QED
      BY <1>2, <2>1, <2>2, <2>3
  <1>3. ASSUME NEW q \in Requests, NEW o \in Otps, S!Start(q, o)
        PROVE  S!CodesInOrder'
    <2>1. PICK n \in 0..MaxCodes : S!Used(o) = 1..n
      OBVIOUS
    <2>2. signAge' = [signAge EXCEPT ![o][1] = "new"] /\ 1 \in S!Codes /\ MaxCodes \in Nat
      BY <1>3, SignupAssumption DEF S!Start, S!Generate, S!Codes, S!ConstantsOK
    <2>3. S!Used(o)' = S!Used(o) \cup {1} /\ \A p \in Otps \ {o} : S!Used(p)' = S!Used(p)
      BY <2>2 DEF S!Used, S!TypeOK
    <2>4. \E m \in 0..MaxCodes : S!Used(o)' = 1..m /\ 1 \in 1..m /\ S!Used(o) \subseteq 1..m
      <3>1. CASE n = 0
        <4>1. S!Used(o)' = 1..1
          BY <2>1, <2>3, <3>1
        <4> QED
          BY <2>1, <2>2, <3>1, <4>1 DEF S!Codes
      <3>2. CASE n # 0
        <4>1. S!Used(o)' = 1..n /\ 1 \in 1..n
          BY <2>1, <2>3, <3>2
        <4> QED
          BY <2>1, <4>1
      <3> QED
        BY <3>1, <3>2
    <2>5. \E row : signRows' = [signRows EXCEPT ![o] = row] /\ row.code = 1
      <3> DEFINE row == [code |-> 1, attempts |-> 0, consumed |-> FALSE]
      <3>1. signRows' = [signRows EXCEPT ![o] = row]
        BY <1>3 DEF S!Start
      <3>2. row.code = 1
        OBVIOUS
      <3> HIDE DEF row
      <3> QED
        BY <3>1, <3>2
    <2>6. \A p \in Requests : signRequests'[p].copy # None =>
             signRequests'[p].otp = signRequests[p].otp /\ signRequests'[p].copy = signRequests[p].copy
      BY <1>3 DEF S!Start, S!GoTo, S!TypeOK
    <2> QED
      BY <1>2, <2>3, <2>4, <2>5, <2>6
  <1>4. ASSUME NEW q \in Requests, NEW row, S!Save(q, row), S!RequestsOK,
               signRequests[q].pc \in {"resend", "wrong", "right", "create"}, UNCHANGED signAge,
               row.code = signRequests[q].copy.code,
               \A p \in Requests : signRequests'[p].copy # None =>
                   signRequests'[p].otp = signRequests[p].otp /\ signRequests'[p].copy = signRequests[p].copy
        PROVE  S!CodesInOrder'
    <2>0. PICK o : o = signRequests[q].otp
      OBVIOUS
    <2>1. o \in Otps /\ signRows' = [signRows EXCEPT ![o] = row] /\ signRequests[q].copy # None
      BY <1>4, <2>0, SignSave DEF S!RequestsOK
    <2>2. PICK n \in 0..MaxCodes : S!Used(o) = 1..n
      BY <2>1
    <2>3. \A p \in Otps : S!Used(p)' = S!Used(p)
      BY <1>4 DEF S!Used
    <2>4. row.code \in 1..n
      BY <1>4, <2>0, <2>1, <2>2
    <2> QED
      BY <1>2, <1>4, <2>1, <2>2, <2>3, <2>4
  <1>5. ASSUME NEW q \in Requests, S!SaveResend(q)
        PROVE  S!CodesInOrder'
    <2>0. PICK o : o = signRequests[q].otp
      OBVIOUS
    <2> DEFINE row == [signRequests[q].copy EXCEPT !.code = S!NextCode(o), !.attempts = 0]
    <2>1. S!Save(q, row) /\ S!NextCode(o) \in S!Codes /\ signAge' = [signAge EXCEPT ![o][S!NextCode(o)] = "new"]
      BY <1>5, <2>0 DEF S!SaveResend, S!Generate
    <2>2. o \in Otps /\ signRows' = [signRows EXCEPT ![o] = row] /\ signRequests[q].copy \in S!Row
      BY <1>5, <2>0, <2>1, SignSave DEF S!SaveResend
    <2>3. row.code = S!NextCode(o)
      BY <2>2 DEF S!Row
    <2> HIDE DEF row
    <2>4. PICK n \in 0..MaxCodes : S!Used(o) = 1..n
      BY <2>2
    <2>5. S!NextCode(o) = n + 1 /\ n + 1 \in S!Codes
      BY <2>1, <2>2, <2>4, SignCodes
    <2>6. S!Used(o)' = S!Used(o) \cup {n + 1} /\ \A p \in Otps \ {o} : S!Used(p)' = S!Used(p)
      <3>1. signAge' = [signAge EXCEPT ![o][n + 1] = "new"]
        BY <2>1, <2>5
      <3>2. signAge \in [Otps -> [S!Codes -> {"unused", "new", "cooled", "expired"}]]
        BY DEF S!TypeOK
      <3>3. /\ \A p \in Otps \ {o} : signAge'[p] = signAge[p]
            /\ \A c \in S!Codes : signAge'[o][c] = IF c = n + 1 THEN "new" ELSE signAge[o][c]
        BY <2>2, <2>5, <3>1, <3>2
      <3> QED
        BY <2>5, <3>3 DEF S!Used
    <2>7. S!Used(o)' = 1..(n + 1) /\ n + 1 \in 0..MaxCodes /\ S!Used(o) \subseteq 1..(n + 1)
      BY <2>4, <2>5, <2>6, SignupAssumption DEF S!Codes, S!ConstantsOK
    <2>8. \A p \in Requests : signRequests'[p].copy # None =>
             signRequests'[p].otp = signRequests[p].otp /\ signRequests'[p].copy = signRequests[p].copy
      BY <1>5 DEF S!SaveResend, S!GoTo, S!TypeOK
    <2>9. \E new : signRows' = [signRows EXCEPT ![o] = new] /\ new.code \in 1..(n + 1)
      <3>1. row.code \in 1..(n + 1)
        BY <2>3, <2>5
      <3> QED
        BY <2>2, <3>1
    <2> QED
      BY <1>2, <2>2, <2>6, <2>7, <2>8, <2>9
  <1>6. ASSUME NEW q \in Requests, S!SendMessage(q) \/ S!SendFails(q) \/ S!CheckAddress(q) \/ S!Rollback(q)
        PROVE  S!CodesInOrder'
    <2>1. \/ signRequests' = [signRequests EXCEPT ![q] = S!Idle]
          \/ signRequests' = [signRequests EXCEPT ![q].pc = "create"]
      BY <1>6 DEF S!SendMessage, S!SendFails, S!CheckAddress, S!Rollback, S!End
    <2>2. \A p \in Requests : signRequests'[p].copy # None =>
             signRequests'[p].otp = signRequests[p].otp /\ signRequests'[p].copy = signRequests[p].copy
      <3>1. CASE signRequests' = [signRequests EXCEPT ![q] = S!Idle]
        BY <3>1, SignIdle, SignMoved
      <3>2. CASE signRequests' = [signRequests EXCEPT ![q].pc = "create"]
        BY <3>2 DEF S!TypeOK, S!Request
      <3> QED
        BY <2>1, <3>1, <3>2
    <2> QED
      BY <1>1, <1>6, <2>2 DEF S!SendMessage, S!SendFails, S!CheckAddress, S!Rollback
  <1>7. ASSUME NEW q \in Requests, S!SaveFailure(q)
        PROVE  S!CodesInOrder'
    <2>1. [signRequests[q].copy EXCEPT !.attempts = @ + 1].code = signRequests[q].copy.code
      BY <1>7 DEF S!SaveFailure, S!RequestsOK, S!TypeOK, S!Request, S!Row
    <2> QED
      BY <1>4, <1>7, <2>1, SignIdle DEF S!SaveFailure, S!End, S!TypeOK
  <1>8. ASSUME NEW q \in Requests, S!CreateWorkspace(q)
        PROVE  S!CodesInOrder'
    <2>1. [signRequests[q].copy EXCEPT !.consumed = TRUE].code = signRequests[q].copy.code
      BY <1>8 DEF S!CreateWorkspace, S!RequestsOK, S!TypeOK, S!Request, S!Row
    <2> QED
      BY <1>4, <1>8, <2>1, SignIdle DEF S!CreateWorkspace, S!End, S!TypeOK
  <1>9. ASSUME NEW q \in Requests, NEW o \in Otps, NEW code \in {0, signSent[o]},
               S!ReadForResend(q, o) \/ S!ReadForVerify(q, o, code)
        PROVE  S!CodesInOrder'
    <2>1. \E pc : signRequests' = [signRequests EXCEPT ![q] = [pc |-> pc, otp |-> o, copy |-> signRows[o], code |-> 0]]
      BY <1>9 DEF S!ReadForResend, S!ReadForVerify, S!GoTo
    <2>2. \A p \in Requests : signRequests'[p].copy # None =>
             \/ signRequests'[p].copy = signRows[signRequests'[p].otp]
             \/ signRequests'[p].otp = signRequests[p].otp /\ signRequests'[p].copy = signRequests[p].copy
      BY <2>1 DEF S!TypeOK
    <2> QED
      BY <1>1, <1>9, <2>2 DEF S!ReadForResend, S!ReadForVerify
  <1>10. ASSUME NEW o \in Otps, S!Grow(o)
         PROVE  S!CodesInOrder'
    <2>1. signRows[o].code \in S!Used(o) /\ UNCHANGED <<signRows, signRequests>>
      BY <1>10 DEF S!Grow
    <2>2. \A p \in Otps : S!Used(p)' = S!Used(p)
      BY <1>10, <2>1 DEF S!Grow, S!Used, S!TypeOK
    <2> HIDE DEF S!Used
    <2> QED
      BY <2>1, <2>2
  <1> QED
    BY <1>3, <1>5, <1>6, <1>7, <1>8, <1>9, <1>10 DEF S!Next, S!Step

LEMMA SignNewest ==
    ASSUME S!TypeOK, S!RequestsOK, S!CodesInOrder, S!NewestSent, S!Next
    PROVE  S!NewestSent'
  <1> USE DEF S!NewestSent, S!Sends, S!Exists
  <1>1. ASSUME UNCHANGED signSent, signCrossed \subseteq signCrossed',
               \A p \in Requests : signRequests'[p] = signRequests[p]
                  \/ (signRequests[p].pc # "send" /\ signRequests'[p].pc # "send"),
               \/ UNCHANGED signRows
               \/ \E o \in Otps : \E row :
                     /\ signRows' = [signRows EXCEPT ![o] = row]
                     /\ o \in signCrossed' \/ (signRows[o] # None /\ row.code = signRows[o].code)
        PROVE  S!NewestSent'
    <2> SUFFICES ASSUME NEW o \in Otps, o \notin signCrossed', signRows'[o] # None
                 PROVE  /\ \A q \in Requests : S!Sends(q, o)' => signRequests'[q].code <= signRows'[o].code
                        /\ \/ signRows'[o].code = signSent'[o]
                           \/ \E q \in Requests : S!Sends(q, o)' /\ signRequests'[q].code = signRows'[o].code
      OBVIOUS
    <2>1. signRows[o] # None /\ signRows'[o].code = signRows[o].code /\ o \notin signCrossed
      <3>1. CASE UNCHANGED signRows
        BY <1>1, <3>1
      <3>2. ASSUME NEW p \in Otps, NEW row, signRows' = [signRows EXCEPT ![p] = row],
                   p \in signCrossed' \/ (signRows[p] # None /\ row.code = signRows[p].code)
            PROVE  signRows[o] # None /\ signRows'[o].code = signRows[o].code /\ o \notin signCrossed
        BY <1>1, <3>2 DEF S!TypeOK
      <3>3. CASE \E p \in Otps : \E row :
                     /\ signRows' = [signRows EXCEPT ![p] = row]
                     /\ p \in signCrossed' \/ (signRows[p] # None /\ row.code = signRows[p].code)
        BY <3>2, <3>3
      <3> QED
        BY <1>1, <3>1, <3>3
    <2>2. \A q \in Requests : (S!Sends(q, o)' <=> S!Sends(q, o))
             /\ (S!Sends(q, o) => signRequests'[q].code = signRequests[q].code)
      BY <1>1
    <2> QED
      BY <1>1, <2>1, <2>2
  <1>2. ASSUME NEW q \in Requests, NEW o \in Otps, S!Start(q, o)
        PROVE  S!NewestSent'
    <2>1. /\ \A p \in Requests : ~ S!Sends(p, o)
          /\ signRequests' = [signRequests EXCEPT ![q] = [pc |-> "send", otp |-> o, copy |-> None, code |-> 1]]
          /\ signRequests[q].pc = "idle" /\ UNCHANGED <<signSent, signCrossed>>
      BY <1>2 DEF S!Start, S!GoTo, S!RequestsOK
    <2>2. /\ signRows'[o].code = 1 /\ \A p \in Otps \ {o} : signRows'[p] = signRows[p]
      BY <1>2 DEF S!Start, S!TypeOK
    <2>3. /\ signRequests'[q].pc = "send" /\ signRequests'[q].otp = o /\ signRequests'[q].code = 1
          /\ \A p \in Requests \ {q} : signRequests'[p] = signRequests[p]
      BY <2>1 DEF S!TypeOK
    <2> QED
      BY <2>1, <2>2, <2>3
  <1>3. ASSUME NEW q \in Requests, S!SaveResend(q)
        PROVE  S!NewestSent'
    <2> DEFINE o == signRequests[q].otp
               next == S!NextCode(o)
               row == [signRequests[q].copy EXCEPT !.code = next, !.attempts = 0]
    <2>1. S!Save(q, row) /\ UNCHANGED signSent /\ signRequests[q].pc = "resend"
      BY <1>3 DEF S!SaveResend
    <2>2. /\ o \in Otps /\ signRows' = [signRows EXCEPT ![o] = row] /\ signRequests[q].copy \in S!Row
          /\ signCrossed \subseteq signCrossed' /\ signRows[o] \in S!Row /\ signRows[o] # None
      BY <1>3, <2>1, SignSave DEF S!RequestsOK
    <2>3. row.code = next
      BY <2>2 DEF S!Row
    <2>4. signRequests' = [signRequests EXCEPT ![q] = [pc |-> "send", otp |-> o, copy |-> None, code |-> next]]
      BY <1>3 DEF S!SaveResend, S!GoTo
    <2> HIDE DEF row
    <2>5. next \in Int /\ signRows[o].code < next
      <3>1. PICK n \in 0..MaxCodes : S!Used(o) = 1..n
        BY <2>2 DEF S!CodesInOrder
      <3> QED
        BY <2>2, <3>1, SignCodes DEF S!CodesInOrder
    <2> HIDE DEF next, o
    <2>6. signRows'[o].code = next /\ \A p \in Otps \ {o} : signRows'[p] = signRows[p]
      BY <2>2, <2>3 DEF S!TypeOK
    <2>7. /\ signRequests'[q].pc = "send" /\ signRequests'[q].otp = o /\ signRequests'[q].code = next
          /\ \A p \in Requests \ {q} : signRequests'[p] = signRequests[p]
      BY <2>4 DEF S!TypeOK
    <2>8. \A p \in Requests : S!Sends(p, o) => signRequests[p].code \in Int
      BY DEF S!TypeOK, S!Request, S!RequestsOK, S!Codes
    <2>9. ASSUME NEW p \in Otps, p \notin signCrossed', signRows'[p] # None
          PROVE  /\ \A r \in Requests : S!Sends(r, p)' => signRequests'[r].code <= signRows'[p].code
                 /\ \/ signRows'[p].code = signSent'[p]
                    \/ \E r \in Requests : S!Sends(r, p)' /\ signRequests'[r].code = signRows'[p].code
      <3>1. CASE p = o
        <4>1. signRows[o].code \in Int
          BY <2>2 DEF S!Row, S!Codes
        <4>2. \A r \in Requests : S!Sends(r, o) => signRequests[r].code <= signRows[o].code
          BY <2>2, <2>9, <3>1
        <4> QED
          BY <2>5, <2>6, <2>7, <2>8, <2>9, <3>1, <4>1, <4>2
      <3>2. CASE p # o
        <4>1. \A r \in Requests : S!Sends(r, p)' => r # q
          BY <2>7, <3>2
        <4> QED
          BY <2>1, <2>2, <2>6, <2>7, <2>9, <3>2, <4>1
      <3> QED
        BY <3>1, <3>2
    <2> QED
      BY <2>9
  <1>4. ASSUME NEW q \in Requests, S!SendMessage(q)
        PROVE  S!NewestSent'
    <2> DEFINE o == signRequests[q].otp
               code == signRequests[q].code
    <2>1. /\ o \in Otps /\ code \in Int /\ signRequests[q].pc = "send" /\ UNCHANGED signRows
          /\ signSent' = [signSent EXCEPT ![o] = code] /\ signCrossed \subseteq signCrossed'
          /\ signSent[o] > code => o \in signCrossed'
          /\ signRequests' = [signRequests EXCEPT ![q] = S!Idle]
      BY <1>4 DEF S!SendMessage, S!End, S!RequestsOK, S!TypeOK, S!Request
    <2>2. signRequests'[q].pc = "idle" /\ \A p \in Requests \ {q} : signRequests'[p] = signRequests[p]
      BY <2>1, SignIdle DEF S!TypeOK
    <2>3. signSent'[o] = code /\ \A p \in Otps \ {o} : signSent'[p] = signSent[p]
      BY <2>1 DEF S!TypeOK
    <2>5. S!Sends(q, o)
      BY <2>1
    <2> HIDE DEF o, code
    <2>4. ASSUME NEW p \in Otps, p \notin signCrossed', signRows'[p] # None
          PROVE  /\ \A r \in Requests : S!Sends(r, p)' => signRequests'[r].code <= signRows'[p].code
                 /\ \/ signRows'[p].code = signSent'[p]
                    \/ \E r \in Requests : S!Sends(r, p)' /\ signRequests'[r].code = signRows'[p].code
      <3>1. \A r \in Requests : S!Sends(r, p)' => S!Sends(r, p) /\ signRequests'[r] = signRequests[r]
        BY <2>2
      <3>2. \A r \in Requests : S!Sends(r, p)' => signRequests'[r].code <= signRows'[p].code
        BY <2>1, <2>4, <3>1
      <3>3. CASE p = o
        <4>1. signSent[o] \in Int /\ signRows[o].code \in Int
          BY <2>1, <2>4, <3>3 DEF S!TypeOK, S!Row, S!Codes
        <4>2. code <= signRows[o].code
          BY <2>1, <2>4, <2>5, <3>3 DEF code
        <4>3. CASE signRows[o].code = signSent[o]
          BY <2>1, <2>3, <2>4, <3>2, <3>3, <4>1, <4>2, <4>3
        <4>4. CASE \E r \in Requests : S!Sends(r, o) /\ signRequests[r].code = signRows[o].code
          BY <2>1, <2>2, <2>3, <2>4, <3>2, <3>3, <4>4 DEF code
        <4> QED
          BY <2>1, <2>4, <3>3, <4>3, <4>4
      <3>4. CASE p # o
        <4>1. \A r \in Requests : S!Sends(r, p) => r # q
          BY <3>4 DEF o
        <4> QED
          BY <2>1, <2>2, <2>3, <2>4, <3>2, <3>4, <4>1
      <3> QED
        BY <3>3, <3>4
    <2> QED
      BY <2>4
  <1>5. ASSUME NEW q \in Requests, S!SendFails(q)
        PROVE  S!NewestSent'
    <2> DEFINE o == signRequests[q].otp
    <2>1. /\ o \in Otps /\ signRequests[q].pc = "send" /\ UNCHANGED <<signRows, signSent>>
          /\ signCrossed' = signCrossed \cup {o}
          /\ signRequests' = [signRequests EXCEPT ![q] = S!Idle]
      BY <1>5 DEF S!SendFails, S!End, S!RequestsOK
    <2>2. signRequests'[q].pc = "idle" /\ \A p \in Requests \ {q} : signRequests'[p] = signRequests[p]
      BY <2>1, SignIdle DEF S!TypeOK
    <2>3. \A p \in Otps \ {o}, r \in Requests : S!Sends(r, p) => r # q
      OBVIOUS
    <2> QED
      BY <2>1, <2>2, <2>3
  <1>6. ASSUME NEW q \in Requests, S!SaveFailure(q)
        PROVE  S!NewestSent'
    <2> DEFINE o == signRequests[q].otp
               row == [signRequests[q].copy EXCEPT !.attempts = @ + 1]
    <2>1. S!Save(q, row) /\ UNCHANGED signSent /\ signRequests[q].pc = "wrong" /\ signRequests' = [signRequests EXCEPT ![q] = S!Idle]
      BY <1>6 DEF S!SaveFailure, S!End
    <2>2. /\ o \in Otps /\ signRows' = [signRows EXCEPT ![o] = row] /\ signRequests[q].copy \in S!Row
          /\ signCrossed \subseteq signCrossed' /\ signRows[o] # None
          /\ o \in signCrossed' \/ signRequests[q].copy = signRows[o]
      BY <1>6, <2>1, SignSave DEF S!RequestsOK
    <2>3. row.code = signRequests[q].copy.code
      BY <2>2 DEF S!Row
    <2> HIDE DEF row
    <2>4. \A p \in Requests : signRequests'[p] = signRequests[p]
             \/ (signRequests[p].pc # "send" /\ signRequests'[p].pc # "send")
      BY <2>1, SignIdle, SignMoved
    <2>5. \E p \in Otps : \E new :
             /\ signRows' = [signRows EXCEPT ![p] = new]
             /\ p \in signCrossed' \/ (signRows[p] # None /\ new.code = signRows[p].code)
      <3>1. o \in signCrossed' \/ (signRows[o] # None /\ row.code = signRows[o].code)
        BY <2>2, <2>3
      <3> HIDE DEF o
      <3> QED
        BY <2>2, <3>1
    <2> QED
      BY <1>1, <2>1, <2>2, <2>4, <2>5
  <1>7. ASSUME NEW q \in Requests, S!CreateWorkspace(q)
        PROVE  S!NewestSent'
    <2> DEFINE o == signRequests[q].otp
               row == [signRequests[q].copy EXCEPT !.consumed = TRUE]
    <2>1. S!Save(q, row) /\ UNCHANGED signSent /\ signRequests[q].pc = "create" /\ signRequests' = [signRequests EXCEPT ![q] = S!Idle]
      BY <1>7 DEF S!CreateWorkspace, S!End
    <2>2. /\ o \in Otps /\ signRows' = [signRows EXCEPT ![o] = row] /\ signRequests[q].copy \in S!Row
          /\ signCrossed \subseteq signCrossed' /\ signRows[o] # None
          /\ o \in signCrossed' \/ signRequests[q].copy = signRows[o]
      BY <1>7, <2>1, SignSave DEF S!RequestsOK
    <2>3. row.code = signRequests[q].copy.code
      BY <2>2 DEF S!Row
    <2> HIDE DEF row
    <2>4. \A p \in Requests : signRequests'[p] = signRequests[p]
             \/ (signRequests[p].pc # "send" /\ signRequests'[p].pc # "send")
      BY <2>1, SignIdle, SignMoved
    <2>5. \E p \in Otps : \E new :
             /\ signRows' = [signRows EXCEPT ![p] = new]
             /\ p \in signCrossed' \/ (signRows[p] # None /\ new.code = signRows[p].code)
      <3>1. o \in signCrossed' \/ (signRows[o] # None /\ row.code = signRows[o].code)
        BY <2>2, <2>3
      <3> HIDE DEF o
      <3> QED
        BY <2>2, <3>1
    <2> QED
      BY <1>1, <2>1, <2>2, <2>4, <2>5
  <1>8. ASSUME NEW q \in Requests, S!CheckAddress(q) \/ S!Rollback(q)
        PROVE  S!NewestSent'
    <2>1. \/ signRequests' = [signRequests EXCEPT ![q] = S!Idle]
          \/ signRequests' = [signRequests EXCEPT ![q].pc = "create"]
      BY <1>8 DEF S!CheckAddress, S!Rollback, S!End
    <2>2. signRequests[q].pc # "send" /\ UNCHANGED <<signRows, signSent, signCrossed>>
      BY <1>8 DEF S!CheckAddress, S!Rollback
    <2>3. \A p \in Requests : signRequests'[p] = signRequests[p]
             \/ (signRequests[p].pc # "send" /\ signRequests'[p].pc # "send")
      <3>1. CASE signRequests' = [signRequests EXCEPT ![q] = S!Idle]
        BY <2>2, <3>1, SignIdle, SignMoved
      <3>2. CASE signRequests' = [signRequests EXCEPT ![q].pc = "create"]
        BY <2>2, <3>2 DEF S!TypeOK, S!Request
      <3> QED
        BY <2>1, <3>1, <3>2
    <2> QED
      BY <1>1, <2>2, <2>3
  <1>9. ASSUME NEW q \in Requests, NEW o \in Otps, NEW code \in {0, signSent[o]},
               S!ReadForResend(q, o) \/ S!ReadForVerify(q, o, code)
        PROVE  S!NewestSent'
    <2>1. \E pc \in {"resend", "right", "wrong"} :
             signRequests' = [signRequests EXCEPT ![q] = [pc |-> pc, otp |-> o, copy |-> signRows[o], code |-> 0]]
      BY <1>9 DEF S!ReadForResend, S!ReadForVerify, S!GoTo
    <2>2. signRequests[q].pc # "send" /\ UNCHANGED <<signRows, signSent, signCrossed>>
      BY <1>9 DEF S!ReadForResend, S!ReadForVerify
    <2>3. \A p \in Requests : signRequests'[p] = signRequests[p]
             \/ (signRequests[p].pc # "send" /\ signRequests'[p].pc # "send")
      <3>1. PICK pc \in {"resend", "right", "wrong"} :
               signRequests' = [signRequests EXCEPT ![q] = [pc |-> pc, otp |-> o, copy |-> signRows[o], code |-> 0]]
        BY <2>1
      <3> QED
        BY <2>2, <3>1, SignMoved
    <2> QED
      BY <1>1, <2>2, <2>3
  <1>10. ASSUME NEW o \in Otps, S!Grow(o)
         PROVE  S!NewestSent'
    BY <1>1, <1>10 DEF S!Grow
  <1> QED
    BY <1>2, <1>3, <1>4, <1>5, <1>6, <1>7, <1>8, <1>9, <1>10 DEF S!Next, S!Step

LEMMA SignInit == S!Init => S!IInv
  <1> SUFFICES ASSUME S!Init PROVE S!IInv
    OBVIOUS
  <1> USE SignupAssumption, SignIdle DEF S!ConstantsOK, S!Init, S!Exists
  <1>1. S!TypeOK
    <2>1. signRequests \in [Requests -> S!Request]
      OBVIOUS
    <2>2. signServed \in 0..MaxCodeRequests /\ 0 \in 0..MaxCodes
      OBVIOUS
    <2> QED
      BY <2>1, <2>2 DEF S!TypeOK
  <1>2. S!RequestsOK /\ S!CreatorsAlone /\ S!FailuresKept /\ S!NewestSent
    BY DEF S!RequestsOK, S!CreatorsAlone, S!Creates, S!FailuresKept, S!FailuresCounted, S!NewestSent
  <1>3. S!CodesInOrder
    <2>1. \A o \in Otps : S!Used(o) = 1..0
      BY DEF S!Used
    <2>2. 0 \in 0..MaxCodes
      OBVIOUS
    <2> QED
      BY <2>1, <2>2 DEF S!CodesInOrder
  <1> QED
    BY <1>1, <1>2, <1>3 DEF S!IInv

LEMMA SignNext == S!IInv /\ [S!Next]_(S!vars) => S!IInv'
  <1>1. ASSUME S!IInv, S!Next PROVE S!IInv'
    BY <1>1, SignType, SignAlone, SignFailures, SignOrder, SignNewest DEF S!IInv
  <1>2. ASSUME S!IInv, UNCHANGED S!vars PROVE S!IInv'
    <2> USE <1>2 DEF S!IInv, S!vars
    <2>1. S!TypeOK' /\ S!RequestsOK' /\ S!CreatorsAlone' /\ S!FailuresKept'
      BY DEF S!TypeOK, S!RequestsOK, S!CreatorsAlone, S!Creates, S!FailuresKept, S!FailuresCounted, S!Exists
    <2>2. S!CodesInOrder' /\ S!NewestSent'
      BY DEF S!CodesInOrder, S!Used, S!NewestSent, S!Sends, S!Exists
    <2> QED
      BY <2>1, <2>2
  <1> QED
    BY <1>1, <1>2

\* The step of the office that is a step of the registration, or none of its.
LEMMA SignStep == [OfficeNext]_officeVars => [S!Next]_(S!vars)
  BY DEF OfficeNext, officeVars, S!vars, signVars, AccountsStep, SignupStep, CodesStep, AgendasStep,
     CatalogueStep, PlansStep, LeadsStep

LEMMA SignInvariant == OfficeSpec => []S!IInv
  <1>1. OfficeInit => S!IInv
    BY SignInit DEF OfficeInit
  <1> QED
    BY <1>1, SignNext, SignStep, PTL DEF OfficeSpec

LEMMA SignExplained ==
    S!IInv => S!OneWorkspacePerAddress /\ S!FailuresCounted /\ S!LastCodeWorks
  BY DEF S!IInv, S!CreatorsAlone, S!OneWorkspacePerAddress, S!FailuresKept, S!NewestSent,
     S!LastCodeWorks, S!Sends

\* One step keeps a used code marked, or crosses its row.
LEMMA SignUsed == S!IInv /\ [S!Next]_(S!vars) =>
    [\A o \in Otps : S!Exists(o) /\ signRows[o].consumed
                        => signRows'[o].consumed \/ o \in signCrossed']_(S!vars)
  <1> SUFFICES ASSUME S!IInv, S!Next, NEW o \in Otps, signRows[o] # None, signRows[o].consumed
               PROVE  signRows'[o].consumed \/ o \in signCrossed'
    BY DEF S!Exists
  <1> USE DEF S!IInv
  <1>1. CASE UNCHANGED signRows
    BY <1>1
  <1>2. ASSUME NEW q \in Requests, NEW row, S!Save(q, row),
               signRequests[q].pc \in {"resend", "wrong", "right", "create"},
               signRequests[q].copy.consumed => row.consumed
        PROVE  signRows'[o].consumed \/ o \in signCrossed'
    <2> DEFINE p == signRequests[q].otp
    <2>1. signRows' = [signRows EXCEPT ![p] = row] /\ (p \in signCrossed' \/ signRequests[q].copy = signRows[p])
      BY <1>2, SignSave
    <2>2. CASE o = p
      BY <1>2, <2>1, <2>2 DEF S!TypeOK
    <2>3. CASE o # p
      BY <2>1, <2>3 DEF S!TypeOK
    <2> QED
      BY <2>2, <2>3
  <1>3. ASSUME NEW q \in Requests, S!SaveResend(q)
        PROVE  signRows'[o].consumed \/ o \in signCrossed'
    <2> DEFINE copy == signRequests[q].copy
    <2>1. copy \in S!Row
      BY <1>3 DEF S!SaveResend, S!RequestsOK, S!TypeOK, S!Request
    <2>2. [copy EXCEPT !.code = S!NextCode(signRequests[q].otp), !.attempts = 0].consumed = copy.consumed
      BY <2>1 DEF S!Row
    <2> QED
      BY <1>2, <1>3, <2>2 DEF S!SaveResend
  <1>4. ASSUME NEW q \in Requests, S!SaveFailure(q)
        PROVE  signRows'[o].consumed \/ o \in signCrossed'
    <2> DEFINE copy == signRequests[q].copy
    <2>1. copy \in S!Row
      BY <1>4 DEF S!SaveFailure, S!RequestsOK, S!TypeOK, S!Request
    <2>2. [copy EXCEPT !.attempts = @ + 1].consumed = copy.consumed
      BY <2>1 DEF S!Row
    <2> QED
      BY <1>2, <1>4, <2>2 DEF S!SaveFailure
  <1>5. ASSUME NEW q \in Requests, S!CreateWorkspace(q)
        PROVE  signRows'[o].consumed \/ o \in signCrossed'
    <2> DEFINE copy == signRequests[q].copy
    <2>1. copy \in S!Row
      BY <1>5 DEF S!CreateWorkspace, S!RequestsOK, S!TypeOK, S!Request
    <2>2. [copy EXCEPT !.consumed = TRUE].consumed
      BY <2>1 DEF S!Row
    <2> QED
      BY <1>2, <1>5, <2>2 DEF S!CreateWorkspace
  <1>6. ASSUME NEW q \in Requests, NEW p \in Otps, S!Start(q, p)
        PROVE  signRows'[o].consumed \/ o \in signCrossed'
    BY <1>6 DEF S!Start, S!Exists, S!TypeOK
  <1> QED
    BY <1>1, <1>3, <1>4, <1>5, <1>6 DEF S!Next, S!Step, S!ReadForResend, S!ReadForVerify, S!SendMessage,
       S!SendFails, S!CheckAddress, S!Rollback, S!Grow
-----------------------------------------------------------------------------
(* One-time codes *)

LEMMA OtpFinite ==
    /\ \A T : O!Cardinality(T) = Cardinality(T)
    /\ \A T : O!IsFiniteSet(T) <=> IsFiniteSet(T)
  BY DEF O!Cardinality, Cardinality, O!IsFiniteSet, IsFiniteSet

LEMMA OtpIdle ==
    /\ O!Idle \in O!Request
    /\ O!Idle.pc = "idle" /\ O!Idle.answer = 0 /\ O!Idle.token = 0
  BY CodesAssumption DEF O!Idle, O!Request, O!ConstantsOK

\* Where a request is after each way it can move.
LEMMA OtpEnded ==
    ASSUME O!TypeOK, NEW q \in Requests, O!End(q)
    PROVE  /\ otpRequests' \in [Requests -> O!Request]
           /\ otpRequests'[q].pc = "idle" /\ otpRequests'[q].answer = 0 /\ otpRequests'[q].token = 0
           /\ \A p \in Requests \ {q} : otpRequests'[p] = otpRequests[p]
  BY OtpIdle DEF O!TypeOK, O!End

LEMMA OtpArrived ==
    ASSUME O!TypeOK, NEW q \in Requests, NEW r \in O!Request, O!Arrive(q, r)
    PROVE  /\ otpRequests' \in [Requests -> O!Request] /\ otpServed' \in 0..MaxCodeRequests
           /\ otpRequests[q].pc = "idle" /\ otpRequests'[q] = r
           /\ \A p \in Requests \ {q} : otpRequests'[p] = otpRequests[p]
  BY CodesAssumption DEF O!TypeOK, O!Arrive, O!ConstantsOK

LEMMA OtpWent ==
    ASSUME O!TypeOK, NEW q \in Requests, NEW pc \in {"delete", "fail", "sign"}, O!GoTo(q, pc)
    PROVE  /\ otpRequests' \in [Requests -> O!Request]
           /\ otpRequests'[q].pc = pc
           /\ otpRequests'[q].answer = otpRequests[q].answer /\ otpRequests'[q].token = otpRequests[q].token
           /\ \A p \in Requests \ {q} : otpRequests'[p] = otpRequests[p]
  BY DEF O!TypeOK, O!GoTo, O!Request

\* What each step does to the requests and to the keys.
LEMMA OtpStore ==
    ASSUME O!TypeOK, NEW q \in Requests, O!StoreCode(q)
    PROVE  /\ otpRequests' \in [Requests -> O!Request] /\ otpServed' \in 0..MaxCodeRequests
           /\ otpRequests[q].pc = "idle"
           /\ otpRequests'[q].pc = "send" /\ otpRequests'[q].answer = otpIssued + 1 /\ otpRequests'[q].token = 0
           /\ \A p \in Requests \ {q} : otpRequests'[p] = otpRequests[p]
           /\ otpIssued' = otpIssued + 1 /\ otpStored' = otpIssued + 1 /\ otpIssued + 1 \in O!Codes
           /\ UNCHANGED <<otpAttempts, otpSent, otpTokens, otpConsumed, otpApplied, otpCrossed, otpOverlapped>>
  <1> DEFINE r == [pc |-> "send", answer |-> otpIssued + 1, token |-> 0]
  <1>1. /\ O!Arrive(q, r) /\ otpIssued' = otpIssued + 1 /\ otpStored' = otpIssued + 1 /\ otpIssued + 1 \in O!Codes
        /\ UNCHANGED <<otpAttempts, otpSent, otpTokens, otpConsumed, otpApplied, otpCrossed, otpOverlapped>>
    BY DEF O!StoreCode
  <1>2. r \in O!Request /\ r.pc = "send" /\ r.answer = otpIssued + 1 /\ r.token = 0
    BY <1>1, CodesAssumption DEF O!Request, O!Codes, O!ConstantsOK
  <1> HIDE DEF r
  <1> QED
    BY <1>1, <1>2, OtpArrived

LEMMA OtpRead ==
    ASSUME O!TypeOK, NEW q \in Requests, NEW answer \in {0, otpSent}, O!ReadAttempts(q, answer)
    PROVE  /\ otpRequests' \in [Requests -> O!Request] /\ otpServed' \in 0..MaxCodeRequests
           /\ otpRequests[q].pc = "idle"
           /\ otpRequests'[q].pc = "compare" /\ otpRequests'[q].answer = answer /\ otpRequests'[q].token = 0
           /\ \A p \in Requests \ {q} : otpRequests'[p] = otpRequests[p]
           /\ otpAttempts < MaxAttempts
           /\ UNCHANGED <<otpStored, otpAttempts, otpIssued, otpSent, otpTokens, otpConsumed, otpApplied, otpCrossed,
                          otpOverlapped>>
  <1> DEFINE r == [pc |-> "compare", answer |-> answer, token |-> 0]
  <1>1. /\ O!Arrive(q, r) /\ otpAttempts < MaxAttempts
        /\ UNCHANGED <<otpStored, otpAttempts, otpIssued, otpSent, otpTokens, otpConsumed, otpApplied, otpCrossed,
                          otpOverlapped>>
    BY DEF O!ReadAttempts
  <1>2. r \in O!Request /\ r.pc = "compare" /\ r.answer = answer /\ r.token = 0
    BY <1>1, CodesAssumption DEF O!Request, O!TypeOK, O!ConstantsOK
  <1> HIDE DEF r
  <1> QED
    BY <1>1, <1>2, OtpArrived

LEMMA OtpConsume ==
    ASSUME O!TypeOK, NEW q \in Requests, NEW t \in O!Tokens, O!Consume(q, t)
    PROVE  /\ otpRequests' \in [Requests -> O!Request] /\ otpServed' \in 0..MaxCodeRequests
           /\ otpRequests[q].pc = "idle"
           /\ otpRequests'[q].pc = "apply" /\ otpRequests'[q].answer = 0 /\ otpRequests'[q].token = t
           /\ \A p \in Requests \ {q} : otpRequests'[p] = otpRequests[p]
           /\ t \notin otpConsumed /\ otpConsumed' = otpConsumed \cup {t}
           /\ UNCHANGED <<otpStored, otpAttempts, otpIssued, otpSent, otpTokens, otpApplied, otpCrossed, otpOverlapped>>
  <1> DEFINE r == [pc |-> "apply", answer |-> 0, token |-> t]
  <1>1. /\ O!Arrive(q, r) /\ t \notin otpConsumed /\ otpConsumed' = otpConsumed \cup {t}
        /\ UNCHANGED <<otpStored, otpAttempts, otpIssued, otpSent, otpTokens, otpApplied, otpCrossed, otpOverlapped>>
    BY DEF O!Consume
  <1>2. r \in O!Request /\ r.pc = "apply" /\ r.answer = 0 /\ r.token = t
    BY <1>1, CodesAssumption DEF O!Request, O!Tokens, O!ConstantsOK
  <1> HIDE DEF r
  <1> QED
    BY <1>1, <1>2, OtpArrived

LEMMA OtpCompare ==
    ASSUME O!TypeOK, NEW q \in Requests, O!Compare(q)
    PROVE  /\ otpRequests' \in [Requests -> O!Request]
           /\ otpRequests[q].pc = "compare" /\ otpRequests'[q].pc \in {"delete", "fail"}
           /\ otpRequests'[q].answer = otpRequests[q].answer /\ otpRequests'[q].token = otpRequests[q].token
           /\ \A p \in Requests \ {q} : otpRequests'[p] = otpRequests[p]
           /\ otpRequests'[q].pc = "delete" =>
                 /\ otpStored # 0 /\ otpStored = otpRequests[q].answer
                 /\ otpRequests[q].answer \in otpOverlapped'
                       \/ \A p \in Requests : ~(otpRequests[p].pc = "delete" /\ otpRequests[p].answer = otpRequests[q].answer)
           /\ otpOverlapped' \in {otpOverlapped, otpOverlapped \cup {otpRequests[q].answer}}
           /\ otpRequests'[q].pc # "delete" => UNCHANGED otpOverlapped
           /\ UNCHANGED <<otpStored, otpAttempts, otpIssued, otpSent, otpTokens, otpConsumed, otpApplied, otpServed, otpCrossed>>
  <1> DEFINE right == otpStored # 0 /\ otpStored = otpRequests[q].answer
  <1>1. CASE right
    <2>1. O!GoTo(q, "delete") /\ otpRequests[q].pc = "compare"
      BY <1>1 DEF O!Compare
    <2> QED
      BY <1>1, <2>1, OtpWent DEF O!Compare
  <1>2. CASE ~right
    <2>1. O!GoTo(q, "fail") /\ otpRequests[q].pc = "compare"
      BY <1>2 DEF O!Compare
    <2> QED
      BY <1>2, <2>1, OtpWent DEF O!Compare
  <1> QED
    BY <1>1, <1>2

LEMMA OtpSign ==
    ASSUME O!TypeOK, O!TokensInOrder, NEW q \in Requests, O!Sign(q)
    PROVE  \E t \in O!Tokens, n \in 0..MaxCodeRequests :
              /\ otpTokens[t] = 0 /\ otpTokens' = [otpTokens EXCEPT ![t] = otpRequests[q].answer]
              /\ t = n + 1 /\ {k \in O!Tokens : otpTokens[k] # 0} = 1..n
  <1>1. PICK n \in 0..MaxCodeRequests : {k \in O!Tokens : otpTokens[k] # 0} = 1..n
    BY DEF O!TokensInOrder
  <1>2. O!Cardinality({k \in O!Tokens : otpTokens[k] # 0}) = n
    <2>1. Cardinality(1..n) = n
      BY CodesAssumption, FS_Interval DEF O!ConstantsOK
    <2> QED
      BY <1>1, <2>1, OtpFinite
  <1>3. PICK t \in O!Tokens :
           /\ t = 1 + O!Cardinality({k \in O!Tokens : otpTokens[k] # 0})
           /\ otpTokens' = [otpTokens EXCEPT ![t] = otpRequests[q].answer]
    BY DEF O!Sign
  <1>4. t = n + 1 /\ t \notin 1..n
    BY <1>2, <1>3, CodesAssumption DEF O!ConstantsOK
  <1>5. otpTokens[t] = 0
    BY <1>1, <1>4
  <1> QED
    BY <1>1, <1>3, <1>4, <1>5

LEMMA OtpNumbers ==
    /\ MaxCodes \in Nat /\ MaxCodeRequests \in Nat
    /\ \A c : c \in O!Codes <=> c \in 0..MaxCodes /\ c # 0
    /\ \A t : t \in O!Tokens <=> t \in 0..MaxCodeRequests /\ t # 0
  BY CodesAssumption DEF O!ConstantsOK, O!Codes, O!Tokens

LEMMA OtpType ==
    ASSUME O!TypeOK, O!RequestsOK, O!TokensInOrder, O!Next
    PROVE  O!TypeOK' /\ O!RequestsOK'
  <1> USE OtpNumbers
  <1>1. ASSUME NEW q \in Requests, O!StoreCode(q)
        PROVE  O!TypeOK' /\ O!RequestsOK'
    <2>1. O!TypeOK'
      BY <1>1, OtpStore DEF O!TypeOK
    <2>2. O!RequestsOK'
      BY <1>1, OtpStore DEF O!TypeOK, O!RequestsOK, O!Request
    <2> QED
      BY <2>1, <2>2
  <1>2. ASSUME NEW q \in Requests, NEW answer \in {0, otpSent}, O!ReadAttempts(q, answer)
        PROVE  O!TypeOK' /\ O!RequestsOK'
    <2>1. O!TypeOK'
      BY <1>2, OtpRead DEF O!TypeOK
    <2>2. O!RequestsOK'
      BY <1>2, OtpRead DEF O!TypeOK, O!RequestsOK, O!Request
    <2> QED
      BY <2>1, <2>2
  <1>3. ASSUME NEW q \in Requests, NEW t \in O!Tokens, O!Consume(q, t)
        PROVE  O!TypeOK' /\ O!RequestsOK'
    <2>1. O!TypeOK'
      BY <1>3, OtpConsume DEF O!TypeOK
    <2>2. O!RequestsOK'
      BY <1>3, OtpConsume DEF O!TypeOK, O!RequestsOK, O!Request
    <2> QED
      BY <2>1, <2>2
  <1>4. ASSUME NEW q \in Requests, O!SendMessage(q)
        PROVE  O!TypeOK' /\ O!RequestsOK'
    <2>1. /\ O!End(q) /\ otpSent' = otpRequests[q].answer /\ otpCrossed' \in {otpCrossed, otpCrossed \cup O!Codes}
          /\ UNCHANGED <<otpStored, otpAttempts, otpIssued, otpTokens, otpConsumed, otpApplied, otpServed, otpOverlapped>>
      BY <1>4 DEF O!SendMessage
    <2>2. O!TypeOK'
      BY <2>1, OtpEnded DEF O!TypeOK, O!Request
    <2>3. O!RequestsOK'
      BY <2>1, OtpEnded DEF O!TypeOK, O!RequestsOK, O!Request
    <2> QED
      BY <2>2, <2>3
  <1>5. ASSUME NEW q \in Requests, O!SendFails(q) \/ O!CountFailure(q)
        PROVE  O!TypeOK' /\ O!RequestsOK'
    <2>1. /\ O!End(q) /\ otpAttempts' \in {otpAttempts, otpAttempts + 1} /\ otpCrossed' \in {otpCrossed, otpCrossed \cup O!Codes}
          /\ UNCHANGED <<otpStored, otpSent, otpIssued, otpTokens, otpConsumed, otpApplied, otpServed, otpOverlapped>>
      BY <1>5 DEF O!SendFails, O!CountFailure
    <2>2. O!TypeOK'
      BY <2>1, OtpEnded DEF O!TypeOK
    <2>3. O!RequestsOK'
      BY <2>1, OtpEnded DEF O!TypeOK, O!RequestsOK
    <2> QED
      BY <2>2, <2>3
  <1>6. ASSUME NEW q \in Requests, O!Compare(q)
        PROVE  O!TypeOK' /\ O!RequestsOK'
    <2>1. otpOverlapped' \subseteq O!Codes
      BY <1>6, OtpCompare DEF O!TypeOK
    <2>2. O!TypeOK'
      BY <1>6, <2>1, OtpCompare DEF O!TypeOK
    <2>3. O!RequestsOK'
      BY <1>6, OtpCompare DEF O!TypeOK, O!RequestsOK
    <2> QED
      BY <2>2, <2>3
  <1>7. ASSUME NEW q \in Requests, O!DeleteCode(q)
        PROVE  O!TypeOK' /\ O!RequestsOK'
    <2>1. /\ O!GoTo(q, "sign") /\ otpRequests[q].pc = "delete" /\ otpStored' = 0 /\ otpAttempts' = 0
          /\ otpCrossed' \in {otpCrossed, otpCrossed \cup {otpStored}}
          /\ otpCrossed' = otpCrossed \/ otpStored > otpRequests[q].answer
          /\ UNCHANGED <<otpIssued, otpSent, otpTokens, otpConsumed, otpApplied, otpServed, otpOverlapped>>
      BY <1>7 DEF O!DeleteCode
    <2>4. otpCrossed' \subseteq O!Codes
      BY <2>1 DEF O!TypeOK, O!Request
    <2>2. O!TypeOK'
      BY <2>1, <2>4, OtpWent DEF O!TypeOK
    <2>3. O!RequestsOK'
      BY <2>1, OtpWent DEF O!TypeOK, O!RequestsOK
    <2> QED
      BY <2>2, <2>3
  <1>8. ASSUME NEW q \in Requests, O!Sign(q)
        PROVE  O!TypeOK' /\ O!RequestsOK'
    <2>1. PICK t \in O!Tokens : otpTokens' = [otpTokens EXCEPT ![t] = otpRequests[q].answer]
      BY <1>8, OtpSign
    <2>2. O!End(q)
          /\ UNCHANGED <<otpStored, otpAttempts, otpIssued, otpSent, otpConsumed, otpApplied, otpServed, otpCrossed, otpOverlapped>>
      BY <1>8 DEF O!Sign
    <2>3. O!TypeOK'
      BY <2>1, <2>2, OtpEnded DEF O!TypeOK, O!Request
    <2>4. O!RequestsOK'
      BY <2>1, <2>2, OtpEnded DEF O!TypeOK, O!RequestsOK
    <2> QED
      BY <2>3, <2>4
  <1>9. ASSUME NEW q \in Requests, NEW written \in BOOLEAN, O!Apply(q, written)
        PROVE  O!TypeOK' /\ O!RequestsOK'
    <2>1. /\ O!End(q) /\ otpRequests[q].pc = "apply"
          /\ otpApplied' \in {otpApplied, [otpApplied EXCEPT ![otpRequests[q].token] = @ + 1]}
          /\ UNCHANGED <<otpStored, otpAttempts, otpIssued, otpSent, otpTokens, otpConsumed, otpServed, otpCrossed, otpOverlapped>>
      BY <1>9 DEF O!Apply
    <2>2. O!TypeOK'
      BY <2>1, OtpEnded DEF O!TypeOK
    <2>3. O!RequestsOK'
      BY <2>1, OtpEnded DEF O!TypeOK, O!RequestsOK
    <2> QED
      BY <2>2, <2>3
  <1>10. ASSUME O!ExpireCode \/ O!ExpireAttempts
         PROVE  O!TypeOK' /\ O!RequestsOK'
    BY <1>10 DEF O!ExpireCode, O!ExpireAttempts, O!TypeOK, O!RequestsOK
  <1> QED
    BY <1>1, <1>2, <1>3, <1>4, <1>5, <1>6, <1>7, <1>8, <1>9, <1>10 DEF O!Next, O!Step

LEMMA OtpTokens ==
    ASSUME O!TypeOK, O!RequestsOK, O!TokensInOrder, O!Next
    PROVE  O!TokensInOrder'
  <1>1. CASE UNCHANGED otpTokens
    BY <1>1 DEF O!TokensInOrder
  <1>2. ASSUME NEW q \in Requests, O!Sign(q)
        PROVE  O!TokensInOrder'
    <2>1. PICK t \in O!Tokens, n \in 0..MaxCodeRequests :
              /\ otpTokens[t] = 0 /\ otpTokens' = [otpTokens EXCEPT ![t] = otpRequests[q].answer]
              /\ t = n + 1 /\ {k \in O!Tokens : otpTokens[k] # 0} = 1..n
      BY <1>2, OtpSign
    <2>2. otpRequests[q].answer # 0
      BY <1>2 DEF O!Sign, O!RequestsOK
    <2>3. {k \in O!Tokens : otpTokens'[k] # 0} = {k \in O!Tokens : otpTokens[k] # 0} \cup {t}
      BY <2>1, <2>2 DEF O!TypeOK
    <2>4. {k \in O!Tokens : otpTokens'[k] # 0} = 1..(n + 1)
      BY <2>1, <2>3
    <2>5. n + 1 \in 0..MaxCodeRequests
      BY <2>1, CodesAssumption DEF O!Tokens, O!ConstantsOK
    <2> QED
      BY <2>4, <2>5 DEF O!TokensInOrder
  <1> QED
    BY <1>1, <1>2 DEF O!Next, O!Step, O!StoreCode, O!SendMessage, O!SendFails, O!Compare, O!CountFailure,
       O!DeleteCode, O!Apply, O!ReadAttempts, O!Consume, O!ExpireCode, O!ExpireAttempts

\* A request that stops failing leaves room for its failure.
LEMMA OtpFailing ==
    ASSUME NEW T, T \subseteq Requests, NEW q \in T
    PROVE  /\ Cardinality(T) \in Nat /\ Cardinality(T \ {q}) \in Nat /\ Cardinality(Requests) \in Nat
           /\ Cardinality(T \ {q}) = Cardinality(T) - 1 /\ Cardinality(T) <= Cardinality(Requests)
  <1>1. IsFiniteSet(Requests) /\ IsFiniteSet(T)
    BY CodesAssumption, OtpFinite, FS_Subset DEF O!ConstantsOK
  <1> QED
    BY <1>1, FS_Subset, FS_CardinalityType, FS_RemoveElement

LEMMA OtpFailures ==
    ASSUME O!TypeOK, O!FailuresKept, O!Next
    PROVE  O!FailuresKept'
  <1> USE CodesAssumption DEF O!ConstantsOK
  <1>0. /\ IsFiniteSet(Requests) /\ Cardinality(Requests) \in Nat
        /\ otpAttempts + Cardinality(O!Failing) <= MaxAttempts - 1 + Cardinality(Requests)
        /\ O!FailuresKept' <=> otpAttempts' + Cardinality(O!Failing') <= MaxAttempts - 1 + Cardinality(Requests)
    BY OtpFinite, FS_CardinalityType DEF O!FailuresKept
  <1>1. ASSUME NEW T, T \subseteq Requests
        PROVE  IsFiniteSet(T) /\ Cardinality(T) \in Nat /\ Cardinality(T) <= Cardinality(Requests)
    BY <1>0, <1>1, FS_Subset, FS_CardinalityType
  <1>2. O!Failing \subseteq Requests /\ O!Failing' \subseteq Requests /\ otpAttempts \in Nat
    BY DEF O!Failing, O!TypeOK
  <1>3. ASSUME otpAttempts' \in {0, otpAttempts}, O!Failing' \subseteq O!Failing
        PROVE  O!FailuresKept'
    <2>1. Cardinality(O!Failing') <= Cardinality(O!Failing)
      BY <1>1, <1>2, <1>3, FS_Subset
    <2> QED
      BY <1>0, <1>1, <1>2, <1>3, <2>1
  <1>4. ASSUME NEW q \in Requests, O!StoreCode(q)
        PROVE  O!FailuresKept'
    <2>1. O!Failing' \subseteq O!Failing
      BY <1>4, OtpStore DEF O!Failing
    <2> QED
      BY <1>3, <1>4, <2>1, OtpStore
  <1>5. ASSUME NEW q \in Requests, NEW answer \in {0, otpSent}, O!ReadAttempts(q, answer)
        PROVE  O!FailuresKept'
    <2>1. otpAttempts' = otpAttempts /\ otpAttempts < MaxAttempts
      BY <1>5, OtpRead
    <2> QED
      BY <1>0, <1>1, <1>2, <2>1
  <1>6. ASSUME NEW q \in Requests, NEW t \in O!Tokens, O!Consume(q, t)
        PROVE  O!FailuresKept'
    <2>1. O!Failing' \subseteq O!Failing
      BY <1>6, OtpConsume DEF O!Failing
    <2> QED
      BY <1>3, <1>6, <2>1, OtpConsume
  <1>7. ASSUME NEW q \in Requests, O!Compare(q)
        PROVE  O!FailuresKept'
    <2>1. O!Failing' \subseteq O!Failing
      BY <1>7, OtpCompare DEF O!Failing
    <2> QED
      BY <1>3, <1>7, <2>1, OtpCompare
  <1>8. ASSUME NEW q \in Requests, NEW written \in BOOLEAN,
               O!SendMessage(q) \/ O!SendFails(q) \/ O!Sign(q) \/ O!Apply(q, written)
        PROVE  O!FailuresKept'
    <2>1. O!End(q) /\ UNCHANGED otpAttempts
      BY <1>8 DEF O!SendMessage, O!SendFails, O!Sign, O!Apply
    <2>2. O!Failing' \subseteq O!Failing
      BY <2>1, OtpEnded DEF O!Failing
    <2> QED
      BY <1>3, <2>1, <2>2
  <1>9. ASSUME NEW q \in Requests, O!DeleteCode(q)
        PROVE  O!FailuresKept'
    <2>1. O!GoTo(q, "sign") /\ otpAttempts' = 0
      BY <1>9 DEF O!DeleteCode
    <2>2. O!Failing' \subseteq O!Failing
      BY <2>1, OtpWent DEF O!Failing
    <2> QED
      BY <1>3, <2>1, <2>2
  <1>10. ASSUME NEW q \in Requests, O!CountFailure(q)
         PROVE  O!FailuresKept'
    <2>1. O!End(q) /\ otpAttempts' = otpAttempts + 1 /\ q \in O!Failing
      BY <1>10 DEF O!CountFailure, O!Failing
    <2>2. O!Failing' = O!Failing \ {q}
      BY <2>1, OtpEnded DEF O!Failing
    <2> QED
      BY <1>0, <1>2, <2>1, <2>2, OtpFailing
  <1>11. ASSUME O!ExpireCode \/ O!ExpireAttempts
         PROVE  O!FailuresKept'
    <2>1. otpAttempts' \in {0, otpAttempts} /\ O!Failing' = O!Failing
      BY <1>11 DEF O!ExpireCode, O!ExpireAttempts, O!Failing
    <2> QED
      BY <1>3, <2>1
  <1> QED
    BY <1>4, <1>5, <1>6, <1>7, <1>8, <1>9, <1>10, <1>11 DEF O!Next, O!Step
LEMMA OtpAlone ==
    ASSUME O!TypeOK, O!RequestsOK, O!TokensInOrder, O!TokensAlone, O!Next
    PROVE  O!TokensAlone'
  <1> USE OtpNumbers
  \* A request that gives up its code, or never had one, disturbs nothing.
  <1>1. ASSUME UNCHANGED otpTokens, otpOverlapped \subseteq otpOverlapped',
               \/ otpStored' \in {otpStored, 0}
               \/ /\ \A p \in Requests : otpRequests[p].answer < otpStored'
                  /\ \A t \in O!Tokens : otpTokens[t] < otpStored',
               \A p \in Requests : otpRequests'[p] = otpRequests[p] \/ otpRequests'[p].pc \notin {"delete", "sign"}
        PROVE  O!TokensAlone'
    <2>1. \A p \in Requests : otpRequests'[p].pc = "sign" =>
             /\ otpRequests'[p] = otpRequests[p] /\ otpRequests[p].answer # 0
             /\ otpRequests[p].answer \in Int /\ otpStored # otpRequests[p].answer
      BY <1>1 DEF O!TokensAlone, O!TypeOK, O!Request, O!RequestsOK
    <2>2. \A p \in Requests : otpRequests'[p].pc = "sign" => otpStored' # otpRequests'[p].answer
      BY <1>1, <2>1
    <2>3. \A t \in O!Tokens : otpTokens[t] # 0 => otpStored' # otpTokens[t]
      <3>1. \A t \in O!Tokens : otpTokens[t] \in Int /\ (otpTokens[t] # 0 => otpStored # otpTokens[t])
        BY DEF O!TokensAlone, O!TypeOK
      <3> QED
        BY <1>1, <3>1
    <2>4. \A p \in Requests : \A c : O!Holds(p, c)' => O!Holds(p, c)
      BY <1>1 DEF O!Holds
    <2> HIDE DEF O!Holds
    <2> QED
      BY <1>1, <2>2, <2>3, <2>4 DEF O!TokensAlone
  <1>2. ASSUME NEW q \in Requests, O!StoreCode(q)
        PROVE  O!TokensAlone'
    <2>1. /\ \A p \in Requests : otpRequests[p].answer < otpStored'
          /\ \A t \in O!Tokens : otpTokens[t] < otpStored'
      BY <1>2, OtpStore DEF O!RequestsOK, O!TypeOK, O!Request
    <2>2. \A p \in Requests : otpRequests'[p] = otpRequests[p] \/ otpRequests'[p].pc \notin {"delete", "sign"}
      BY <1>2, OtpStore
    <2> QED
      BY <1>1, <1>2, <2>1, <2>2, OtpStore
  <1>3. ASSUME NEW q \in Requests, NEW answer \in {0, otpSent}, O!ReadAttempts(q, answer)
        PROVE  O!TokensAlone'
    <2>1. \A p \in Requests : otpRequests'[p] = otpRequests[p] \/ otpRequests'[p].pc \notin {"delete", "sign"}
      BY <1>3, OtpRead
    <2> QED
      BY <1>1, <1>3, <2>1, OtpRead
  <1>4. ASSUME NEW q \in Requests, NEW t \in O!Tokens, O!Consume(q, t)
        PROVE  O!TokensAlone'
    <2>1. \A p \in Requests : otpRequests'[p] = otpRequests[p] \/ otpRequests'[p].pc \notin {"delete", "sign"}
      BY <1>4, OtpConsume
    <2> QED
      BY <1>1, <1>4, <2>1, OtpConsume
  <1>5. ASSUME NEW q \in Requests, NEW written \in BOOLEAN,
               O!SendMessage(q) \/ O!SendFails(q) \/ O!CountFailure(q) \/ O!Apply(q, written)
        PROVE  O!TokensAlone'
    <2>1. O!End(q) /\ UNCHANGED <<otpTokens, otpOverlapped, otpStored>>
      BY <1>5 DEF O!SendMessage, O!SendFails, O!CountFailure, O!Apply
    <2>2. \A p \in Requests : otpRequests'[p] = otpRequests[p] \/ otpRequests'[p].pc \notin {"delete", "sign"}
      BY <2>1, OtpEnded
    <2> QED
      BY <1>1, <2>1, <2>2
  <1>6. ASSUME NEW q \in Requests, O!Compare(q)
        PROVE  O!TokensAlone'
    <2> DEFINE code == otpRequests[q].answer
    <2>1. /\ otpRequests[q].pc = "compare" /\ otpRequests'[q].pc \in {"delete", "fail"}
          /\ otpRequests'[q].answer = otpRequests[q].answer
          /\ \A p \in Requests \ {q} : otpRequests'[p] = otpRequests[p]
          /\ otpOverlapped \subseteq otpOverlapped'
          /\ UNCHANGED <<otpStored, otpTokens>>
      BY <1>6, OtpCompare
    <2>2. CASE otpRequests'[q].pc = "fail"
      BY <1>1, <2>1, <2>2
    <2>3. CASE otpRequests'[q].pc = "delete"
      <3>1. /\ otpStored # 0 /\ otpStored = code
            /\ \/ code \in otpOverlapped'
               \/ \A p \in Requests : ~(otpRequests[p].pc = "delete" /\ otpRequests[p].answer = code)
        BY <1>6, <2>3, OtpCompare
      <3>2. \A p \in Requests : otpRequests'[p].pc = "sign" => otpStored' # otpRequests'[p].answer
        BY <2>1, <2>3 DEF O!TokensAlone
      <3>3. \A t \in O!Tokens : otpTokens'[t] # 0 => otpStored' # otpTokens'[t]
        BY <2>1 DEF O!TokensAlone
      <3>4. ASSUME NEW c \in O!Codes \ otpOverlapped'
            PROVE  /\ \A p, r \in Requests : O!Holds(p, c)' /\ O!Holds(r, c)' => p = r
                   /\ \A p \in Requests, t \in O!Tokens : ~(O!Holds(p, c)' /\ otpTokens'[t] = c)
                   /\ \A t, u \in O!Tokens : otpTokens'[t] = c /\ otpTokens'[u] = c => t = u
        <4>1. c \in O!Codes \ otpOverlapped
          BY <2>1
        <4>2. CASE c # code
          <5>1. \A p \in Requests : O!Holds(p, c)' => O!Holds(p, c)
            BY <2>1, <4>2 DEF O!Holds
          <5> QED
            BY <2>1, <4>1, <5>1 DEF O!TokensAlone
        <4>3. CASE c = code
          <5>1. \A p \in Requests : ~ O!Holds(p, c)
            BY <3>1, <3>4, <4>3 DEF O!Holds, O!TokensAlone
          <5>2. \A p \in Requests : O!Holds(p, c)' => p = q
            BY <2>1, <5>1 DEF O!Holds
          <5>3. \A t \in O!Tokens : otpTokens[t] # c
            BY <3>1, <4>3 DEF O!TokensAlone
          <5> QED
            BY <2>1, <5>2, <5>3
        <4> QED
          BY <4>2, <4>3
      <3> QED
        BY <3>2, <3>3, <3>4 DEF O!TokensAlone
    <2> QED
      BY <2>1, <2>2, <2>3
  <1>7. ASSUME NEW q \in Requests, O!DeleteCode(q)
        PROVE  O!TokensAlone'
    <2>1. O!GoTo(q, "sign") /\ otpRequests[q].pc = "delete" /\ otpStored' = 0 /\ UNCHANGED <<otpTokens, otpOverlapped>>
      BY <1>7 DEF O!DeleteCode
    <2>2. /\ otpRequests'[q].pc = "sign" /\ otpRequests'[q].answer = otpRequests[q].answer
          /\ \A p \in Requests \ {q} : otpRequests'[p] = otpRequests[p]
      BY <2>1, OtpWent
    <2>3. \A p \in Requests : otpRequests'[p].pc = "sign" => otpRequests'[p].answer # 0
      BY <2>1, <2>2 DEF O!RequestsOK
    <2>4. \A p \in Requests : \A c : O!Holds(p, c)' => O!Holds(p, c)
      BY <2>1, <2>2 DEF O!Holds
    <2> QED
      BY <2>1, <2>3, <2>4 DEF O!TokensAlone
  <1>8. ASSUME NEW q \in Requests, O!Sign(q)
        PROVE  O!TokensAlone'
    <2>1. PICK t \in O!Tokens : otpTokens[t] = 0 /\ otpTokens' = [otpTokens EXCEPT ![t] = otpRequests[q].answer]
      BY <1>8, OtpSign
    <2>2. /\ O!End(q) /\ otpRequests[q].pc = "sign" /\ UNCHANGED <<otpStored, otpOverlapped>>
      BY <1>8 DEF O!Sign
    <2>3. otpRequests'[q].pc = "idle" /\ \A p \in Requests \ {q} : otpRequests'[p] = otpRequests[p]
      BY <2>2, OtpEnded
    <2>4. otpTokens'[t] = otpRequests[q].answer /\ \A u \in O!Tokens \ {t} : otpTokens'[u] = otpTokens[u]
      BY <2>1 DEF O!TypeOK
    <2>5. \A p \in Requests : \A c : O!Holds(p, c)' => O!Holds(p, c) /\ p # q
      BY <2>3 DEF O!Holds
    <2>6. \A p \in Requests : otpRequests'[p].pc = "sign" => otpStored' # otpRequests'[p].answer
      BY <2>2, <2>3 DEF O!TokensAlone
    <2>7. \A u \in O!Tokens : otpTokens'[u] # 0 => otpStored' # otpTokens'[u]
      BY <2>2, <2>4 DEF O!TokensAlone
    <2>8. O!Holds(q, otpRequests[q].answer)
      BY <2>2 DEF O!Holds
    <2>9. ASSUME NEW c \in O!Codes \ otpOverlapped'
          PROVE  /\ \A p, r \in Requests : O!Holds(p, c)' /\ O!Holds(r, c)' => p = r
                 /\ \A p \in Requests, u \in O!Tokens : ~(O!Holds(p, c)' /\ otpTokens'[u] = c)
                 /\ \A u, v \in O!Tokens : otpTokens'[u] = c /\ otpTokens'[v] = c => u = v
      <3>1. CASE c = otpRequests[q].answer
        <4>1. \A p \in Requests : ~ O!Holds(p, c)'
          BY <2>2, <2>5, <2>8, <2>9, <3>1 DEF O!TokensAlone
        <4>2. \A u \in O!Tokens : otpTokens'[u] = c => u = t
          BY <2>2, <2>4, <2>8, <2>9, <3>1 DEF O!TokensAlone
        <4> QED
          BY <4>1, <4>2
      <3>2. CASE c # otpRequests[q].answer
        <4>1. \A u \in O!Tokens : otpTokens'[u] = c => otpTokens[u] = c
          BY <2>4, <3>2
        <4> QED
          BY <2>2, <2>5, <2>9, <4>1 DEF O!TokensAlone
      <3> QED
        BY <3>1, <3>2
    <2> QED
      BY <2>6, <2>7, <2>9 DEF O!TokensAlone
  <1>9. ASSUME O!ExpireCode \/ O!ExpireAttempts
        PROVE  O!TokensAlone'
    BY <1>1, <1>9 DEF O!ExpireCode, O!ExpireAttempts
  <1> QED
    BY <1>2, <1>3, <1>4, <1>5, <1>6, <1>7, <1>8, <1>9 DEF O!Next, O!Step

LEMMA OtpApplied ==
    ASSUME O!TypeOK, O!RequestsOK, O!AppliedAlone, O!Next
    PROVE  O!AppliedAlone'
  <1> USE OtpNumbers
  <1>1. ASSUME UNCHANGED <<otpConsumed, otpApplied>>,
               \A p \in Requests : otpRequests'[p].token # 0 => otpRequests'[p].token = otpRequests[p].token
        PROVE  O!AppliedAlone'
    BY <1>1 DEF O!AppliedAlone
  <1>2. ASSUME NEW q \in Requests, O!StoreCode(q)
        PROVE  O!AppliedAlone'
    BY <1>1, <1>2, OtpStore
  <1>3. ASSUME NEW q \in Requests, NEW answer \in {0, otpSent}, O!ReadAttempts(q, answer)
        PROVE  O!AppliedAlone'
    BY <1>1, <1>3, OtpRead
  <1>4. ASSUME NEW q \in Requests, NEW t \in O!Tokens, O!Consume(q, t)
        PROVE  O!AppliedAlone'
    <2>1. /\ otpRequests'[q].token = t /\ \A p \in Requests \ {q} : otpRequests'[p] = otpRequests[p]
          /\ t \notin otpConsumed /\ otpConsumed' = otpConsumed \cup {t} /\ UNCHANGED otpApplied
      BY <1>4, OtpConsume
    <2> SUFFICES ASSUME NEW u \in O!Tokens
                 PROVE  /\ otpApplied[u] <= 1
                        /\ u \notin otpConsumed' => otpApplied[u] = 0
                        /\ \A p \in Requests : otpRequests'[p].token = u => u \in otpConsumed' /\ otpApplied[u] = 0
                        /\ \A p, r \in Requests : otpRequests'[p].token = u /\ otpRequests'[r].token = u => p = r
      BY <2>1 DEF O!AppliedAlone
    <2> QED
      BY <2>1 DEF O!AppliedAlone
  <1>5. ASSUME NEW q \in Requests, O!SendMessage(q) \/ O!SendFails(q) \/ O!CountFailure(q) \/ O!Sign(q)
        PROVE  O!AppliedAlone'
    <2>1. O!End(q) /\ UNCHANGED <<otpConsumed, otpApplied>>
      BY <1>5 DEF O!SendMessage, O!SendFails, O!CountFailure, O!Sign
    <2> QED
      BY <1>1, <2>1, OtpEnded
  <1>6. ASSUME NEW q \in Requests, O!Compare(q)
        PROVE  O!AppliedAlone'
    BY <1>1, <1>6, OtpCompare
  <1>7. ASSUME NEW q \in Requests, O!DeleteCode(q)
        PROVE  O!AppliedAlone'
    <2>1. O!GoTo(q, "sign") /\ UNCHANGED <<otpConsumed, otpApplied>>
      BY <1>7 DEF O!DeleteCode
    <2> QED
      BY <1>1, <2>1, OtpWent
  <1>8. ASSUME NEW q \in Requests, NEW written \in BOOLEAN, O!Apply(q, written)
        PROVE  O!AppliedAlone'
    <2> DEFINE t == otpRequests[q].token
    <2>1. /\ O!End(q) /\ UNCHANGED otpConsumed /\ t \in O!Tokens
          /\ otpApplied' = otpApplied \/ otpApplied' = [otpApplied EXCEPT ![t] = @ + 1]
      BY <1>8 DEF O!Apply, O!RequestsOK, O!TypeOK, O!Request
    <2>2. otpRequests'[q].token = 0 /\ \A p \in Requests \ {q} : otpRequests'[p] = otpRequests[p]
      BY <2>1, OtpEnded
    <2>3. /\ \A u \in O!Tokens : u # t => otpApplied'[u] = otpApplied[u]
          /\ otpApplied'[t] <= 1 /\ t \in otpConsumed
      BY <2>1 DEF O!TypeOK, O!AppliedAlone
    <2>4. \A p \in Requests : otpRequests'[p].token # t
      BY <2>1, <2>2 DEF O!AppliedAlone
    <2> HIDE DEF t
    <2> QED
      BY <2>1, <2>2, <2>3, <2>4 DEF O!AppliedAlone
  <1>9. ASSUME O!ExpireCode \/ O!ExpireAttempts
        PROVE  O!AppliedAlone'
    BY <1>9 DEF O!ExpireCode, O!ExpireAttempts, O!AppliedAlone
  <1> QED
    BY <1>2, <1>3, <1>4, <1>5, <1>6, <1>7, <1>8, <1>9 DEF O!Next, O!Step

LEMMA OtpLive ==
    ASSUME O!TypeOK, O!RequestsOK, O!TokensInOrder, O!MessagesLive, O!Next
    PROVE  O!MessagesLive'
  <1> USE OtpNumbers
  \* What was live stays so when no message leaves.
  <1>1. ASSUME UNCHANGED otpSent,
               \A c \in O!Codes : O!Live(c) => O!Live(c)',
               \A p \in Requests : \/ otpRequests[p].pc = "send" /\ otpRequests'[p] = otpRequests[p]
                                   \/ otpRequests[p].pc # "send" /\ otpRequests'[p].pc # "send"
        PROVE  O!MessagesLive'
    BY <1>1 DEF O!MessagesLive
  <1>2. ASSUME otpStored' = otpStored, otpCrossed \subseteq otpCrossed', UNCHANGED otpTokens,
               \A p \in Requests : otpRequests[p].pc = "sign" => otpRequests'[p] = otpRequests[p]
        PROVE  \A c \in O!Codes : O!Live(c) => O!Live(c)'
    BY <1>2 DEF O!Live
  <1>3. ASSUME NEW q \in Requests, O!StoreCode(q)
        PROVE  O!MessagesLive'
    <2>1. PICK new \in O!Codes : new = otpIssued + 1
      BY <1>3, OtpStore
    <2>2. /\ otpRequests[q].pc = "idle" /\ otpRequests'[q].pc = "send" /\ otpRequests'[q].answer = new
          /\ \A p \in Requests \ {q} : otpRequests'[p] = otpRequests[p]
          /\ otpStored' = new /\ UNCHANGED otpSent
      BY <1>3, <2>1, OtpStore
    <2>3. \A p \in Requests : otpRequests[p].answer < new
      BY <2>1 DEF O!RequestsOK, O!TypeOK, O!Request
    <2>4. O!Live(new)'
      BY <2>2 DEF O!Live
    <2>5. ASSUME NEW c \in O!Codes, NEW p \in Requests, otpRequests'[p].pc = "send", otpRequests'[p].answer = c
          PROVE  \/ O!Live(c)'
                 \/ \E r \in Requests : otpRequests'[r].pc = "send" /\ otpRequests'[r].answer > c
      <3>1. CASE p = q
        BY <2>2, <2>4, <2>5, <3>1
      <3>2. CASE p # q
        <4>1. c < new
          BY <2>2, <2>3, <2>5, <3>2
        <4> QED
          BY <2>2, <4>1
      <3> QED
        BY <3>1, <3>2
    <2> QED
      BY <2>2, <2>5 DEF O!MessagesLive
  <1>4. ASSUME NEW q \in Requests, O!SendMessage(q)
        PROVE  O!MessagesLive'
    <2>0. PICK code : code = otpRequests[q].answer
      OBVIOUS
    <2>1. /\ O!End(q) /\ otpRequests[q].pc = "send" /\ otpSent' = code /\ otpCrossed \subseteq otpCrossed'
          /\ otpSent > code => O!Codes \subseteq otpCrossed'
          /\ UNCHANGED <<otpStored, otpTokens>>
      BY <1>4, <2>0 DEF O!SendMessage
    <2>2. otpRequests'[q].pc = "idle" /\ \A p \in Requests \ {q} : otpRequests'[p] = otpRequests[p]
      BY <2>1, OtpEnded
    <2>3. \A c \in O!Codes : O!Live(c) => O!Live(c)'
      BY <1>2, <2>1, <2>2
    <2>5. code \in O!Codes /\ code \in Int /\ otpSent \in Int /\ \A c \in O!Codes : c \in Int
      BY <2>0, <2>1 DEF O!RequestsOK, O!TypeOK, O!Request
    <2>6. CASE otpSent > code
      <3>1. \A c \in O!Codes : O!Live(c)'
        BY <2>1, <2>6 DEF O!Live
      <3> QED
        BY <3>1 DEF O!MessagesLive
    <2>7. CASE ~(otpSent > code)
      <3>1. \/ O!Live(code)'
            \/ \E p \in Requests : otpRequests'[p].pc = "send"
        <4>1. CASE O!Live(code)
          BY <2>3, <2>5, <4>1
        <4>2. ASSUME NEW p \in Requests, otpRequests[p].pc = "send", otpRequests[p].answer > code
              PROVE  otpRequests'[p].pc = "send"
          BY <2>0, <2>2, <2>5, <4>2
        <4> QED
          BY <2>0, <2>1, <2>5, <2>7, <4>1, <4>2 DEF O!MessagesLive
      <3>2. ASSUME NEW c \in O!Codes, NEW p \in Requests, otpRequests'[p].pc = "send", otpRequests'[p].answer = c
            PROVE  \/ O!Live(c)' \/ code > c
                   \/ \E r \in Requests : otpRequests'[r].pc = "send" /\ otpRequests'[r].answer > c
        <4>1. p # q /\ otpRequests[p].pc = "send" /\ otpRequests[p].answer = c
          BY <2>2, <3>2
        <4>2. CASE O!Live(c)
          BY <2>3, <4>2
        <4>3. CASE otpSent > c
          BY <2>5, <2>7, <4>3
        <4>4. ASSUME NEW r \in Requests, otpRequests[r].pc = "send", otpRequests[r].answer > c
              PROVE  code > c \/ (otpRequests'[r].pc = "send" /\ otpRequests'[r].answer > c)
          BY <2>0, <2>2, <4>4
        <4> QED
          BY <4>1, <4>2, <4>3, <4>4 DEF O!MessagesLive
      <3> QED
        BY <2>1, <3>1, <3>2 DEF O!MessagesLive
    <2> QED
      BY <2>6, <2>7
  <1>5. ASSUME NEW q \in Requests, O!SendFails(q)
        PROVE  O!MessagesLive'
    <2>1. O!Codes \subseteq otpCrossed'
      BY <1>5 DEF O!SendFails
    <2>2. \A c \in O!Codes : O!Live(c)'
      BY <2>1 DEF O!Live
    <2> QED
      BY <2>2 DEF O!MessagesLive
  <1>6. ASSUME NEW q \in Requests, NEW answer \in {0, otpSent}, O!ReadAttempts(q, answer)
        PROVE  O!MessagesLive'
    <2>1. /\ otpRequests[q].pc = "idle" /\ otpRequests'[q].pc = "compare"
          /\ \A p \in Requests \ {q} : otpRequests'[p] = otpRequests[p]
          /\ UNCHANGED <<otpStored, otpSent, otpTokens, otpCrossed>>
      BY <1>6, OtpRead
    <2>2. \A c \in O!Codes : O!Live(c) => O!Live(c)'
      BY <1>2, <2>1
    <2> QED
      BY <1>1, <2>1, <2>2
  <1>7. ASSUME NEW q \in Requests, NEW t \in O!Tokens, O!Consume(q, t)
        PROVE  O!MessagesLive'
    <2>1. /\ otpRequests[q].pc = "idle" /\ otpRequests'[q].pc = "apply"
          /\ \A p \in Requests \ {q} : otpRequests'[p] = otpRequests[p]
          /\ UNCHANGED <<otpStored, otpSent, otpTokens, otpCrossed>>
      BY <1>7, OtpConsume
    <2>2. \A c \in O!Codes : O!Live(c) => O!Live(c)'
      BY <1>2, <2>1
    <2> QED
      BY <1>1, <2>1, <2>2
  <1>8. ASSUME NEW q \in Requests, O!Compare(q)
        PROVE  O!MessagesLive'
    <2>1. /\ otpRequests[q].pc = "compare" /\ otpRequests'[q].pc \in {"delete", "fail"}
          /\ \A p \in Requests \ {q} : otpRequests'[p] = otpRequests[p]
          /\ UNCHANGED <<otpStored, otpSent, otpTokens, otpCrossed>>
      BY <1>8, OtpCompare
    <2>2. \A c \in O!Codes : O!Live(c) => O!Live(c)'
      BY <1>2, <2>1
    <2> QED
      BY <1>1, <2>1, <2>2
  <1>9. ASSUME NEW q \in Requests, NEW written \in BOOLEAN, O!CountFailure(q) \/ O!Apply(q, written)
        PROVE  O!MessagesLive'
    <2>1. O!End(q) /\ otpRequests[q].pc \in {"fail", "apply"} /\ UNCHANGED <<otpStored, otpSent, otpTokens, otpCrossed>>
      BY <1>9 DEF O!CountFailure, O!Apply
    <2>2. otpRequests'[q].pc = "idle" /\ \A p \in Requests \ {q} : otpRequests'[p] = otpRequests[p]
      BY <2>1, OtpEnded
    <2>3. \A c \in O!Codes : O!Live(c) => O!Live(c)'
      BY <1>2, <2>1, <2>2
    <2> QED
      BY <1>1, <2>1, <2>2, <2>3
  <1>10. ASSUME NEW q \in Requests, O!DeleteCode(q)
         PROVE  O!MessagesLive'
    <2>1. /\ O!GoTo(q, "sign") /\ otpRequests[q].pc = "delete" /\ UNCHANGED <<otpSent, otpTokens>>
          /\ otpCrossed \subseteq otpCrossed'
          /\ otpStored > otpRequests[q].answer => otpStored \in otpCrossed'
      BY <1>10 DEF O!DeleteCode
    <2>2. /\ otpRequests'[q].pc = "sign" /\ otpRequests'[q].answer = otpRequests[q].answer
          /\ \A p \in Requests \ {q} : otpRequests'[p] = otpRequests[p]
      BY <2>1, OtpWent
    <2>3. otpRequests[q].answer \in Int /\ otpStored \in Int /\ otpIssued \in Int /\ otpRequests[q].answer <= otpIssued
      BY DEF O!TypeOK, O!Request, O!RequestsOK
    <2>4. \A c \in O!Codes : O!Live(c) => O!Live(c)'
      <3> SUFFICES ASSUME NEW c \in O!Codes, O!Live(c)
                   PROVE  O!Live(c)'
        OBVIOUS
      <3>1. CASE otpStored = c
        <4>1. otpStored = otpIssued
          BY <3>1 DEF O!RequestsOK
        <4>2. c \in otpCrossed' \/ otpRequests[q].answer = c
          BY <2>1, <2>3, <3>1, <4>1
        <4> QED
          BY <2>2, <4>2 DEF O!Live
      <3>2. CASE otpStored # c
        BY <2>1, <2>2, <3>2 DEF O!Live
      <3> QED
        BY <3>1, <3>2
    <2> QED
      BY <1>1, <2>1, <2>2, <2>4
  <1>11. ASSUME NEW q \in Requests, O!Sign(q)
         PROVE  O!MessagesLive'
    <2>1. PICK t \in O!Tokens : otpTokens[t] = 0 /\ otpTokens' = [otpTokens EXCEPT ![t] = otpRequests[q].answer]
      BY <1>11, OtpSign
    <2>2. O!End(q) /\ otpRequests[q].pc = "sign" /\ UNCHANGED <<otpStored, otpSent, otpCrossed>>
      BY <1>11 DEF O!Sign
    <2>3. otpRequests'[q].pc = "idle" /\ \A p \in Requests \ {q} : otpRequests'[p] = otpRequests[p]
      BY <2>2, OtpEnded
    <2>4. otpTokens'[t] = otpRequests[q].answer /\ \A u \in O!Tokens \ {t} : otpTokens'[u] = otpTokens[u]
      BY <2>1 DEF O!TypeOK
    <2>5. \A c \in O!Codes : O!Live(c) => O!Live(c)'
      <3> SUFFICES ASSUME NEW c \in O!Codes, O!Live(c)
                   PROVE  O!Live(c)'
        OBVIOUS
      <3>1. CASE otpStored = c \/ c \in otpCrossed
        BY <2>2, <3>1 DEF O!Live
      <3>2. ASSUME NEW u \in O!Tokens, otpTokens[u] = c
            PROVE  O!Live(c)'
        <4>1. otpTokens'[u] = c
          BY <2>1, <2>4, <3>2
        <4> QED
          BY <4>1 DEF O!Live
      <3>3. ASSUME NEW p \in Requests, otpRequests[p].pc = "sign", otpRequests[p].answer = c
            PROVE  O!Live(c)'
        BY <2>3, <2>4, <3>3 DEF O!Live
      <3> QED
        BY <3>1, <3>2, <3>3 DEF O!Live
    <2> QED
      BY <1>1, <2>2, <2>3, <2>5
  <1>12. ASSUME O!ExpireCode \/ O!ExpireAttempts
         PROVE  O!MessagesLive'
    <2>1. /\ UNCHANGED <<otpSent, otpTokens, otpRequests>> /\ otpCrossed \subseteq otpCrossed'
          /\ otpStored' = otpStored \/ otpStored \in otpCrossed'
      BY <1>12 DEF O!ExpireCode, O!ExpireAttempts
    <2>2. \A c \in O!Codes : O!Live(c) => O!Live(c)'
      BY <2>1 DEF O!Live
    <2> QED
      BY <1>1, <2>1, <2>2
  <1> QED
    BY <1>3, <1>4, <1>5, <1>6, <1>7, <1>8, <1>9, <1>10, <1>11, <1>12 DEF O!Next, O!Step

LEMMA OtpInit == O!Init => O!IInv
  <1> SUFFICES ASSUME O!Init PROVE O!IInv
    OBVIOUS
  <1> USE OtpNumbers, OtpIdle DEF O!Init
  <1>1. O!TypeOK
    BY DEF O!TypeOK
  <1>2. O!RequestsOK /\ O!TokensAlone /\ O!AppliedAlone /\ O!MessagesLive
    BY DEF O!RequestsOK, O!TokensAlone, O!Holds, O!AppliedAlone, O!MessagesLive
  <1>3. O!FailuresKept
    <2>1. O!Failing = {}
      BY DEF O!Failing
    <2>2. Cardinality({}) = 0 /\ Cardinality(Requests) \in Nat /\ MaxAttempts \in Nat \ {0}
      BY CodesAssumption, OtpFinite, FS_EmptySet, FS_CardinalityType DEF O!ConstantsOK
    <2> QED
      BY <2>1, <2>2, OtpFinite DEF O!FailuresKept
  <1>4. O!TokensInOrder
    <2>1. {k \in O!Tokens : otpTokens[k] # 0} = 1..0 /\ 0 \in 0..MaxCodeRequests
      OBVIOUS
    <2> QED
      BY <2>1 DEF O!TokensInOrder
  <1> QED
    BY <1>1, <1>2, <1>3, <1>4 DEF O!IInv

LEMMA OtpNext == O!IInv /\ [O!Next]_(O!vars) => O!IInv'
  <1>1. ASSUME O!IInv, O!Next PROVE O!IInv'
    BY <1>1, OtpType, OtpTokens, OtpFailures, OtpAlone, OtpApplied, OtpLive DEF O!IInv
  <1>2. ASSUME O!IInv, UNCHANGED O!vars PROVE O!IInv'
    <2> USE <1>2 DEF O!IInv, O!vars
    <2>1. O!TypeOK' /\ O!RequestsOK' /\ O!TokensInOrder' /\ O!FailuresKept'
      BY DEF O!TypeOK, O!RequestsOK, O!TokensInOrder, O!FailuresKept, O!Failing
    <2>2. O!TokensAlone' /\ O!AppliedAlone'
      BY DEF O!TokensAlone, O!Holds, O!AppliedAlone
    <2>3. O!MessagesLive'
      BY DEF O!MessagesLive, O!Live
    <2> QED
      BY <2>1, <2>2, <2>3
  <1> QED
    BY <1>1, <1>2

\* The step of the office that is a step of the codes, or none of theirs.
LEMMA OtpStep == [OfficeNext]_officeVars => [O!Next]_(O!vars)
  BY DEF OfficeNext, officeVars, O!vars, otpVars, AccountsStep, SignupStep, CodesStep, AgendasStep,
     CatalogueStep, PlansStep, LeadsStep

LEMMA OtpInvariant == OfficeSpec => []O!IInv
  <1>1. OfficeInit => O!IInv
    BY OtpInit DEF OfficeInit
  <1> QED
    BY <1>1, OtpNext, OtpStep, PTL DEF OfficeSpec

\* A set whose members are all the same has one at most.
LEMMA AtMostOne ==
    ASSUME NEW T, \A x, y \in T : x = y
    PROVE  IsFiniteSet(T) /\ Cardinality(T) \in Nat /\ Cardinality(T) <= 1
  <1>1. CASE T = {}
    BY <1>1, FS_EmptySet
  <1>2. ASSUME NEW x \in T
        PROVE  IsFiniteSet(T) /\ Cardinality(T) \in Nat /\ Cardinality(T) <= 1
    <2>1. T = {x}
      OBVIOUS
    <2> QED
      BY <2>1, FS_Singleton
  <1> QED
    BY <1>1, <1>2

LEMMA OtpExplained ==
    O!IInv => O!FailuresLimited /\ O!OneTokenPerCode /\ O!TokenAppliedOnce /\ O!LastCodeWorks
  <1> SUFFICES ASSUME O!IInv
               PROVE  O!FailuresLimited /\ O!OneTokenPerCode /\ O!TokenAppliedOnce /\ O!LastCodeWorks
    OBVIOUS
  <1> USE DEF O!IInv
  <1>1. O!FailuresLimited
    <2>1. IsFiniteSet(Requests) /\ O!Failing \subseteq Requests
      BY CodesAssumption, OtpFinite DEF O!ConstantsOK, O!Failing
    <2>2. Cardinality(O!Failing) \in Nat /\ Cardinality(Requests) \in Nat
      BY <2>1, FS_Subset, FS_CardinalityType
    <2>3. otpAttempts \in Nat /\ MaxAttempts \in Nat
      BY CodesAssumption DEF O!TypeOK, O!ConstantsOK
    <2> QED
      BY <2>2, <2>3, OtpFinite DEF O!FailuresLimited, O!FailuresKept
  <1>2. O!OneTokenPerCode
    <2> SUFFICES ASSUME NEW c \in O!Codes \ otpOverlapped
                 PROVE  Cardinality({t \in O!Tokens : otpTokens[t] = c}) <= 1
      BY OtpFinite DEF O!OneTokenPerCode
    <2>1. \A t, u \in {t \in O!Tokens : otpTokens[t] = c} : t = u
      BY DEF O!TokensAlone
    <2> QED
      BY <2>1, AtMostOne
  <1>3. O!TokenAppliedOnce
    <2> SUFFICES ASSUME NEW t \in O!Tokens
                 PROVE  otpApplied[t] + Cardinality({q \in Requests : otpRequests[q].token = t}) <= 1
      BY OtpFinite DEF O!TokenAppliedOnce
    <2> DEFINE T == {q \in Requests : otpRequests[q].token = t}
    <2>1. \A p, q \in T : p = q
      BY DEF O!AppliedAlone
    <2>2. Cardinality(T) \in Nat /\ Cardinality(T) <= 1
      BY <2>1, AtMostOne
    <2>3. otpApplied[t] \in Nat /\ otpApplied[t] <= 1 /\ (T # {} => otpApplied[t] = 0)
      BY DEF O!AppliedAlone, O!TypeOK
    <2>4. CASE T = {}
      <3>1. Cardinality(T) = 0
        BY <2>4, FS_EmptySet
      <3> QED
        BY <2>3, <3>1
    <2>5. CASE T # {}
      BY <2>2, <2>3, <2>5
    <2> QED
      BY <2>4, <2>5
  <1>4. O!LastCodeWorks
    <2>1. otpSent # 0 => otpSent \in O!Codes
      BY OtpNumbers DEF O!TypeOK
    <2> QED
      BY <2>1 DEF O!MessagesLive, O!Live, O!LastCodeWorks
  <1> QED
    BY <1>1, <1>2, <1>3, <1>4

\* Signup codes and one-time codes: one workspace per address, one token per code, one
\* change per token, every failure counted within its limit, and the last code valid, but
\* for the overlaps each part names (SignupService, OtpService), in every office.
THEOREM CodesAlwaysExplained == OfficeSpec => []CodesExplained
  <1>1. S!IInv /\ O!IInv => CodesExplained
    BY SignExplained, OtpExplained DEF CodesExplained
  <1> QED
    BY <1>1, SignInvariant, OtpInvariant, PTL

-----------------------------------------------------------------------------
(* Agendas *)

LEMMA AgIdle ==
    /\ G!Idle \in G!Request
    /\ G!Idle.pc = "idle" /\ G!Idle.id = None /\ G!Idle.copy = None /\ G!Idle.row = None
  BY AgendasAssumption DEF G!Idle, G!Request, G!ConstantsOK

LEMMA AgMoved ==
    ASSUME G!TypeOK, NEW q \in Requests, NEW r \in G!Request, agRequests' = [agRequests EXCEPT ![q] = r]
    PROVE  /\ agRequests' \in [Requests -> G!Request] /\ agRequests'[q] = r
           /\ \A p \in Requests \ {q} : agRequests'[p] = agRequests[p]
  BY DEF G!TypeOK

\* Two appointments overlap whichever is named first.
LEMMA AgOverlap ==
    ASSUME NEW x \in G!Appointment, NEW y \in G!Appointment
    PROVE  G!Overlap(x, y) <=> G!Overlap(y, x)
  BY DEF G!Overlap

\* What each step does to the requests and to the table.
LEMMA AgCheck ==
    ASSUME G!TypeOK, NEW q \in Requests, NEW i \in Appointments, NEW t \in G!Instants, NEW l \in Lengths,
           G!CheckConflict(q, i, [start |-> t, length |-> l, booked |-> TRUE])
    PROVE  \E new \in G!Appointment :
              /\ agRequests' \in [Requests -> G!Request] /\ agRequests[q].pc = "idle" /\ ~agRemoved
              /\ agServed' \in 0..MaxBookings
              /\ agRequests'[q].pc = "insert" /\ agRequests'[q].id = i /\ agRequests'[q].row = new /\ new.booked
              /\ \A p \in Requests \ {q} : agRequests'[p] = agRequests[p]
              /\ agAppointments[i] = None /\ \A p \in Requests : agRequests[p].id # i
              /\ ~ G!Conflict(new)
              /\ agUnchecked' = agUnchecked \cup {agRequests[p].id : p \in {p \in Requests : agRequests[p].pc = "insert"}}
              /\ UNCHANGED <<agHours, agRemoved, agAppointments, agCrossed>>
  <1> DEFINE new == [start |-> t, length |-> l, booked |-> TRUE]
             r == [pc |-> "insert", id |-> i, copy |-> None, row |-> new]
  <1>1. new \in G!Appointment /\ new.booked
    BY DEF G!Appointment
  <1>2. G!CheckConflict(q, i, new)
    OBVIOUS
  <1> HIDE DEF new
  <1>3. r \in G!Request /\ r.pc = "insert" /\ r.id = i /\ r.row = new
    BY <1>1 DEF G!Request
  <1>4. /\ agRequests' = [agRequests EXCEPT ![q] = r] /\ agRequests[q].pc = "idle" /\ ~agRemoved
        /\ agServed' = agServed + 1 /\ agServed < MaxBookings
        /\ agAppointments[i] = None /\ \A p \in Requests : agRequests[p].id # i
        /\ ~ G!Conflict(new)
        /\ agUnchecked' = agUnchecked \cup {agRequests[p].id : p \in {p \in Requests : agRequests[p].pc = "insert"}}
        /\ UNCHANGED <<agHours, agRemoved, agAppointments, agCrossed>>
    BY <1>2 DEF G!CheckConflict, G!Arrive, G!Exists
  <1> HIDE DEF r
  <1>5. agServed' \in 0..MaxBookings
    BY <1>4, AgendasAssumption DEF G!TypeOK, G!ConstantsOK
  <1> QED
    BY <1>1, <1>3, <1>4, <1>5, AgMoved

LEMMA AgRead ==
    ASSUME G!TypeOK, NEW q \in Requests, NEW i \in Appointments,
           \/ G!ReadForCancel(q, i)
           \/ \E t \in G!Instants \cup {agAppointments[i].start}, booked \in BOOLEAN : G!ReadForUpdate(q, i, t, booked)
    PROVE  /\ agRequests' \in [Requests -> G!Request] /\ agRequests[q].pc = "idle" /\ ~agRemoved
           /\ agServed' \in 0..MaxBookings
           /\ agRequests'[q].pc = "save" /\ agRequests'[q].id = i
           /\ agRequests'[q].copy # None /\ agRequests'[q].row # None
           /\ \A p \in Requests \ {q} : agRequests'[p] = agRequests[p]
           /\ agAppointments[i] # None
           /\ UNCHANGED <<agHours, agRemoved, agAppointments, agUnchecked, agCrossed>>
  <1>1. PICK row \in G!Appointment :
           /\ agAppointments[i] \in G!Appointment
           /\ G!Arrive(q, [pc |-> "save", id |-> i, copy |-> agAppointments[i], row |-> row])
           /\ UNCHANGED <<agHours, agRemoved, agAppointments, agUnchecked, agCrossed>>
    <2>1. CASE G!ReadForCancel(q, i)
      <3> DEFINE row == [agAppointments[i] EXCEPT !.booked = FALSE]
      <3>1. agAppointments[i] \in G!Appointment
        BY <2>1 DEF G!ReadForCancel, G!Exists, G!TypeOK
      <3>2. row \in G!Appointment
        BY <3>1 DEF G!Appointment
      <3>3. G!Arrive(q, [pc |-> "save", id |-> i, copy |-> agAppointments[i], row |-> row])
        BY <2>1 DEF G!ReadForCancel
      <3> HIDE DEF row
      <3> QED
        BY <2>1, <3>1, <3>2, <3>3 DEF G!ReadForCancel
    <2>2. ASSUME NEW t \in G!Instants \cup {agAppointments[i].start}, NEW booked \in BOOLEAN, G!ReadForUpdate(q, i, t, booked)
          PROVE  \E row \in G!Appointment :
                    /\ agAppointments[i] \in G!Appointment
                    /\ G!Arrive(q, [pc |-> "save", id |-> i, copy |-> agAppointments[i], row |-> row])
                    /\ UNCHANGED <<agHours, agRemoved, agAppointments, agUnchecked, agCrossed>>
      <3> DEFINE row == [agAppointments[i] EXCEPT !.start = t, !.booked = booked]
      <3>1. agAppointments[i] \in G!Appointment
        BY <2>2 DEF G!ReadForUpdate, G!Exists, G!TypeOK
      <3>2. row \in G!Appointment
        BY <3>1 DEF G!Appointment
      <3>3. G!Arrive(q, [pc |-> "save", id |-> i, copy |-> agAppointments[i], row |-> row])
        BY <2>2 DEF G!ReadForUpdate
      <3> HIDE DEF row
      <3> QED
        BY <2>2, <3>1, <3>2, <3>3 DEF G!ReadForUpdate
    <2> QED
      BY <2>1, <2>2
  <1> DEFINE r == [pc |-> "save", id |-> i, copy |-> agAppointments[i], row |-> row]
  <1>2. r \in G!Request /\ r.pc = "save" /\ r.id = i /\ r.copy # None /\ r.row # None /\ agAppointments[i] # None
    BY <1>1, AgendasAssumption DEF G!Request, G!ConstantsOK
  <1>3. /\ agRequests' = [agRequests EXCEPT ![q] = r] /\ agRequests[q].pc = "idle" /\ ~agRemoved
        /\ agServed' = agServed + 1 /\ agServed < MaxBookings
    BY <1>1 DEF G!Arrive
  <1> HIDE DEF r
  <1>5. agServed' \in 0..MaxBookings
    BY <1>3, AgendasAssumption DEF G!TypeOK, G!ConstantsOK
  <1> QED
    BY <1>1, <1>2, <1>3, <1>5, AgMoved

\* An insert or a save puts its row into the table, unless the agenda is gone.
LEMMA AgWrite ==
    ASSUME G!TypeOK, G!RequestsOK, NEW q \in Requests, G!InsertAppointment(q) \/ G!SaveAppointment(q)
    PROVE  \E i \in Appointments, row \in G!Appointment :
              /\ i = agRequests[q].id /\ row = agRequests[q].row /\ agRequests[q].pc \in {"insert", "save"}
              /\ agRequests' \in [Requests -> G!Request] /\ agRequests'[q].pc = "idle" /\ agRequests'[q].id = None
              /\ \A p \in Requests \ {q} : agRequests'[p] = agRequests[p]
              /\ agRemoved => UNCHANGED agAppointments
              /\ ~agRemoved => agAppointments' = [agAppointments EXCEPT ![i] = row]
              /\ agUnchecked \subseteq agUnchecked' /\ agUnchecked' \subseteq agUnchecked \cup {i}
              /\ agCrossed \subseteq agCrossed' /\ agCrossed' \subseteq agCrossed \cup {i}
              /\ UNCHANGED <<agHours, agRemoved, agServed>>
  <1>1. /\ agRequests' = [agRequests EXCEPT ![q] = G!Idle] /\ agRequests[q].pc \in {"insert", "save"}
        /\ agAppointments' = IF agRemoved THEN agAppointments
                             ELSE [agAppointments EXCEPT ![agRequests[q].id] = agRequests[q].row]
        /\ agUnchecked' \in {agUnchecked, agUnchecked \cup {agRequests[q].id}}
        /\ agCrossed' \in {agCrossed, agCrossed \cup {agRequests[q].id}}
        /\ UNCHANGED <<agHours, agRemoved, agServed>>
    BY DEF G!InsertAppointment, G!SaveAppointment, G!End
  <1>2. agRequests[q].id \in Appointments /\ agRequests[q].row \in G!Appointment
    BY <1>1 DEF G!RequestsOK, G!TypeOK, G!Request
  <1>3. /\ agRequests' \in [Requests -> G!Request] /\ agRequests'[q] = G!Idle
        /\ \A p \in Requests \ {q} : agRequests'[p] = agRequests[p]
    BY <1>1, AgIdle, AgMoved
  <1> QED
    BY <1>1, <1>2, <1>3, AgIdle

LEMMA AgType ==
    ASSUME G!TypeOK, G!RequestsOK, G!Next
    PROVE  G!TypeOK' /\ G!RequestsOK'
  <1>1. ASSUME NEW q \in Requests, NEW i \in Appointments, NEW t \in G!Instants, NEW l \in Lengths,
               G!CheckConflict(q, i, [start |-> t, length |-> l, booked |-> TRUE])
        PROVE  G!TypeOK' /\ G!RequestsOK'
    <2>1. PICK new \in G!Appointment :
              /\ agRequests' \in [Requests -> G!Request] /\ agRequests[q].pc = "idle" /\ ~agRemoved
              /\ agServed' \in 0..MaxBookings
              /\ agRequests'[q].pc = "insert" /\ agRequests'[q].id = i /\ agRequests'[q].row = new /\ new.booked
              /\ \A p \in Requests \ {q} : agRequests'[p] = agRequests[p]
              /\ agAppointments[i] = None /\ \A p \in Requests : agRequests[p].id # i
              /\ agUnchecked' = agUnchecked \cup {agRequests[p].id : p \in {p \in Requests : agRequests[p].pc = "insert"}}
              /\ UNCHANGED <<agHours, agRemoved, agAppointments, agCrossed>>
      BY <1>1, AgCheck
    <2>2. agUnchecked' \subseteq Appointments
      BY <2>1 DEF G!TypeOK, G!RequestsOK
    <2>3. G!TypeOK'
      BY <2>1, <2>2 DEF G!TypeOK
    <2>4. new # None
      BY AgendasAssumption DEF G!ConstantsOK
    <2>5. G!RequestsOK'
      BY <2>1, <2>4 DEF G!RequestsOK, G!Exists
    <2> QED
      BY <2>3, <2>5
  <1>2. ASSUME NEW q \in Requests, NEW i \in Appointments,
               \/ G!ReadForCancel(q, i)
               \/ \E t \in G!Instants \cup {agAppointments[i].start}, booked \in BOOLEAN : G!ReadForUpdate(q, i, t, booked)
        PROVE  G!TypeOK' /\ G!RequestsOK'
    <2>1. G!TypeOK'
      BY <1>2, AgRead DEF G!TypeOK
    <2>2. G!RequestsOK'
      BY <1>2, AgRead DEF G!RequestsOK, G!Exists
    <2> QED
      BY <2>1, <2>2
  <1>3. ASSUME NEW q \in Requests, G!InsertAppointment(q) \/ G!SaveAppointment(q)
        PROVE  G!TypeOK' /\ G!RequestsOK'
    <2>1. PICK i \in Appointments, row \in G!Appointment :
              /\ i = agRequests[q].id /\ row = agRequests[q].row /\ agRequests[q].pc \in {"insert", "save"}
              /\ agRequests' \in [Requests -> G!Request] /\ agRequests'[q].pc = "idle" /\ agRequests'[q].id = None
              /\ \A p \in Requests \ {q} : agRequests'[p] = agRequests[p]
              /\ agRemoved => UNCHANGED agAppointments
              /\ ~agRemoved => agAppointments' = [agAppointments EXCEPT ![i] = row]
              /\ agUnchecked' \subseteq agUnchecked \cup {i} /\ agCrossed' \subseteq agCrossed \cup {i}
              /\ UNCHANGED <<agHours, agRemoved, agServed>>
      BY <1>3, AgWrite
    <2>2. agAppointments' \in [Appointments -> G!Appointment \cup {None}]
      BY <2>1 DEF G!TypeOK
    <2>3. G!TypeOK'
      BY <2>1, <2>2 DEF G!TypeOK
    <2>4. ASSUME NEW p \in Requests, agRequests'[p].pc = "insert"
          PROVE  agAppointments'[agRequests'[p].id] = None
      <3>1. /\ p # q /\ agRequests'[p] = agRequests[p] /\ agAppointments[agRequests[p].id] = None
            /\ agRequests[p].id \in Appointments /\ i # agRequests[p].id
        BY <2>1, <2>4 DEF G!RequestsOK, G!Exists
      <3> QED
        BY <2>1, <3>1 DEF G!TypeOK
    <2>5. None \notin Appointments
      BY AgendasAssumption DEF G!ConstantsOK
    <2>6. G!RequestsOK'
      BY <2>1, <2>4, <2>5 DEF G!RequestsOK, G!Exists
    <2> QED
      BY <2>3, <2>6
  <1>4. ASSUME NEW open \in Hours, G!SetHours(open)
        PROVE  G!TypeOK' /\ G!RequestsOK'
    BY <1>4 DEF G!SetHours, G!TypeOK, G!RequestsOK, G!Exists
  <1>5. ASSUME G!RemoveAgenda
        PROVE  G!TypeOK' /\ G!RequestsOK'
    BY <1>5 DEF G!RemoveAgenda, G!TypeOK, G!RequestsOK, G!Exists
  <1> QED
    BY <1>1, <1>2, <1>3, <1>4, <1>5 DEF G!Next

LEMMA AgChecked ==
    ASSUME G!TypeOK, G!RequestsOK, G!InsertsChecked, G!NoDoubleBooking, G!Next
    PROVE  G!InsertsChecked' /\ G!NoDoubleBooking'
  <1> USE DEF G!Exists, G!Booked
  \* Nothing new is booked and nothing new is about to be.
  <1>1. ASSUME agUnchecked \subseteq agUnchecked',
               \A i \in Appointments : i \in G!Booked' => i \in G!Booked /\ agAppointments'[i] = agAppointments[i],
               \A p \in Requests : agRequests'[p].pc = "insert" => agRequests'[p] = agRequests[p]
        PROVE  G!InsertsChecked' /\ G!NoDoubleBooking'
    <2>1. G!Booked' \subseteq Appointments
      OBVIOUS
    <2> HIDE DEF G!Booked
    <2>2. G!NoDoubleBooking'
      BY <1>1, <2>1 DEF G!NoDoubleBooking, G!Overlap
    <2>3. G!InsertsChecked'
      BY <1>1, <2>1 DEF G!InsertsChecked, G!Overlap
    <2> QED
      BY <2>2, <2>3
  <1>2. ASSUME NEW q \in Requests, NEW i \in Appointments, NEW t \in G!Instants, NEW l \in Lengths,
               G!CheckConflict(q, i, [start |-> t, length |-> l, booked |-> TRUE])
        PROVE  G!InsertsChecked' /\ G!NoDoubleBooking'
    <2>1. PICK new \in G!Appointment :
              /\ agRequests[q].pc = "idle"
              /\ agRequests'[q].pc = "insert" /\ agRequests'[q].id = i /\ agRequests'[q].row = new
              /\ \A p \in Requests \ {q} : agRequests'[p] = agRequests[p]
              /\ ~ G!Conflict(new)
              /\ agUnchecked' = agUnchecked \cup {agRequests[p].id : p \in {p \in Requests : agRequests[p].pc = "insert"}}
              /\ UNCHANGED agAppointments
      BY <1>2, AgCheck
    <2>2. G!Booked' = G!Booked /\ agUnchecked \subseteq agUnchecked'
      BY <2>1
    <2>3. \A p \in Requests : agRequests[p].pc = "insert" => agRequests[p].id \in agUnchecked'
      BY <2>1
    <2>4. \A j \in G!Booked : ~ G!Overlap(agAppointments[j], new)
      BY <2>1 DEF G!Conflict
    <2> HIDE DEF G!Booked
    <2>5. G!NoDoubleBooking'
      BY <2>1, <2>2 DEF G!NoDoubleBooking, G!Overlap
    <2>6. G!InsertsChecked'
      <3> SUFFICES ASSUME NEW p \in Requests, agRequests'[p].pc = "insert"
                   PROVE  /\ \A j \in G!Booked : G!Overlap(agAppointments[j], agRequests'[p].row)
                                 => j \in agUnchecked' \/ agRequests'[p].id \in agUnchecked'
                          /\ \A r \in Requests : r # p /\ agRequests'[r].pc = "insert"
                                 => agRequests'[r].id \in agUnchecked' \/ agRequests'[p].id \in agUnchecked'
        BY <2>1, <2>2 DEF G!InsertsChecked, G!Overlap
      <3>1. CASE p = q
        BY <2>1, <2>3, <2>4, <3>1
      <3>2. CASE p # q
        BY <2>1, <2>3, <3>2
      <3> QED
        BY <3>1, <3>2
    <2> QED
      BY <2>5, <2>6
  <1>3. ASSUME NEW q \in Requests, NEW i \in Appointments,
               \/ G!ReadForCancel(q, i)
               \/ \E t \in G!Instants \cup {agAppointments[i].start}, booked \in BOOLEAN : G!ReadForUpdate(q, i, t, booked)
        PROVE  G!InsertsChecked' /\ G!NoDoubleBooking'
    <2>1. /\ UNCHANGED <<agAppointments, agUnchecked>>
          /\ \A p \in Requests : agRequests'[p].pc = "insert" => agRequests'[p] = agRequests[p]
      BY <1>3, AgRead
    <2> QED
      BY <1>1, <2>1
  <1>4. ASSUME NEW q \in Requests, G!InsertAppointment(q)
        PROVE  G!InsertsChecked' /\ G!NoDoubleBooking'
    <2>1. PICK i \in Appointments, row \in G!Appointment :
              /\ i = agRequests[q].id /\ row = agRequests[q].row
              /\ agRequests'[q].pc = "idle"
              /\ \A p \in Requests \ {q} : agRequests'[p] = agRequests[p]
              /\ agRemoved => UNCHANGED agAppointments
              /\ ~agRemoved => agAppointments' = [agAppointments EXCEPT ![i] = row]
              /\ agUnchecked \subseteq agUnchecked'
      BY <1>4, AgWrite
    <2>2. agRequests[q].pc = "insert"
      BY <1>4 DEF G!InsertAppointment
    <2>3. CASE agRemoved
      BY <1>1, <2>1, <2>3
    <2>4. CASE ~agRemoved
      <3>1. agAppointments'[i] = row /\ \A j \in Appointments \ {i} : agAppointments'[j] = agAppointments[j]
        BY <2>1, <2>4 DEF G!TypeOK
      <3>2. \A j \in G!Booked' : j \in Appointments /\ (j = i \/ (j \in G!Booked /\ agAppointments'[j] = agAppointments[j]))
        BY <3>1
      <3>3. \A j \in G!Booked : agAppointments[j] \in G!Appointment
        BY DEF G!TypeOK
      <3> HIDE DEF G!Booked
      <3>4. \A j \in G!Booked : G!Overlap(agAppointments[j], row) => j \in agUnchecked' \/ i \in agUnchecked'
        BY <2>1, <2>2 DEF G!InsertsChecked
      <3>5. G!NoDoubleBooking'
        <4> SUFFICES ASSUME NEW j \in G!Booked', NEW k \in G!Booked', j # k,
                            G!Overlap(agAppointments'[j], agAppointments'[k])
                     PROVE  j \in agUnchecked' \/ k \in agUnchecked'
          BY DEF G!NoDoubleBooking, G!Overlap
        <4>1. CASE j = i
          <5>1. k \in G!Booked /\ G!Overlap(row, agAppointments[k])
            BY <3>1, <3>2, <4>1
          <5> QED
            BY <3>3, <3>4, <4>1, <5>1, AgOverlap
        <4>2. CASE k = i
          <5>1. j \in G!Booked /\ G!Overlap(agAppointments[j], row)
            BY <3>1, <3>2, <4>2
          <5> QED
            BY <3>4, <4>2, <5>1
        <4>3. CASE j # i /\ k # i
          BY <2>1, <3>2, <4>3 DEF G!NoDoubleBooking
        <4> QED
          BY <4>1, <4>2, <4>3
      <3>6. G!InsertsChecked'
        <4> SUFFICES ASSUME NEW p \in Requests, agRequests'[p].pc = "insert"
                     PROVE  /\ \A j \in G!Booked' : G!Overlap(agAppointments'[j], agRequests'[p].row)
                                   => j \in agUnchecked' \/ agRequests'[p].id \in agUnchecked'
                            /\ \A r \in Requests : r # p /\ agRequests'[r].pc = "insert"
                                   => agRequests'[r].id \in agUnchecked' \/ agRequests'[p].id \in agUnchecked'
          BY DEF G!InsertsChecked, G!Overlap
        <4>1. p # q /\ agRequests'[p] = agRequests[p]
          BY <2>1
        <4>2. agRequests[p].id \in agUnchecked \/ i \in agUnchecked
          BY <2>1, <2>2, <4>1 DEF G!InsertsChecked
        <4>3. \A j \in G!Booked' : G!Overlap(agAppointments'[j], agRequests'[p].row)
                                   => j \in agUnchecked' \/ agRequests'[p].id \in agUnchecked'
          BY <2>1, <3>2, <4>1, <4>2 DEF G!InsertsChecked
        <4>4. \A r \in Requests : r # p /\ agRequests'[r].pc = "insert"
                                   => agRequests'[r].id \in agUnchecked' \/ agRequests'[p].id \in agUnchecked'
          BY <2>1, <4>1 DEF G!InsertsChecked
        <4> QED
          BY <4>3, <4>4
      <3> QED
        BY <3>5, <3>6
    <2> QED
      BY <2>3, <2>4
  <1>5. ASSUME NEW q \in Requests, G!SaveAppointment(q)
        PROVE  G!InsertsChecked' /\ G!NoDoubleBooking'
    <2>1. PICK i \in Appointments, row \in G!Appointment :
              /\ i = agRequests[q].id /\ row = agRequests[q].row
              /\ agRequests'[q].pc = "idle"
              /\ \A p \in Requests \ {q} : agRequests'[p] = agRequests[p]
              /\ agRemoved => UNCHANGED agAppointments
              /\ ~agRemoved => agAppointments' = [agAppointments EXCEPT ![i] = row]
              /\ agUnchecked \subseteq agUnchecked'
      BY <1>5, AgWrite
    <2>2. row.booked => i \in agUnchecked' \/ agAppointments[i] = row
      BY <1>5, <2>1 DEF G!SaveAppointment
    <2>3. \A p \in Requests : agRequests'[p].pc = "insert" => p # q /\ agRequests'[p] = agRequests[p]
      BY <2>1
    <2>4. CASE agRemoved
      BY <1>1, <2>1, <2>3, <2>4
    <2>5. CASE ~agRemoved
      <3>1. agAppointments'[i] = row /\ \A j \in Appointments \ {i} : agAppointments'[j] = agAppointments[j]
        BY <2>1, <2>5 DEF G!TypeOK
      <3>2. \A j \in G!Booked' : j \in agUnchecked' \/ (j \in G!Booked /\ agAppointments'[j] = agAppointments[j])
        BY <2>2, <3>1
      <3> HIDE DEF G!Booked
      <3>3. G!NoDoubleBooking'
        BY <2>1, <3>2 DEF G!NoDoubleBooking, G!Overlap
      <3>4. G!InsertsChecked'
        <4> SUFFICES ASSUME NEW p \in Requests, agRequests'[p].pc = "insert"
                     PROVE  /\ \A j \in G!Booked' : G!Overlap(agAppointments'[j], agRequests'[p].row)
                                   => j \in agUnchecked' \/ agRequests'[p].id \in agUnchecked'
                            /\ \A r \in Requests : r # p /\ agRequests'[r].pc = "insert"
                                   => agRequests'[r].id \in agUnchecked' \/ agRequests'[p].id \in agUnchecked'
          BY DEF G!InsertsChecked, G!Overlap
        <4>1. agRequests'[p] = agRequests[p]
          BY <2>3
        <4>3. \A j \in G!Booked' : G!Overlap(agAppointments'[j], agRequests'[p].row)
                                   => j \in agUnchecked' \/ agRequests'[p].id \in agUnchecked'
          BY <2>1, <3>2, <4>1 DEF G!InsertsChecked
        <4>4. \A r \in Requests : r # p /\ agRequests'[r].pc = "insert"
                                   => agRequests'[r].id \in agUnchecked' \/ agRequests'[p].id \in agUnchecked'
          BY <2>1, <2>3, <4>1 DEF G!InsertsChecked
        <4> QED
          BY <4>3, <4>4
      <3> QED
        BY <3>3, <3>4
    <2> QED
      BY <2>4, <2>5
  <1>6. ASSUME NEW open \in Hours, G!SetHours(open)
        PROVE  G!InsertsChecked' /\ G!NoDoubleBooking'
    BY <1>1, <1>6 DEF G!SetHours
  <1>7. ASSUME G!RemoveAgenda
        PROVE  G!InsertsChecked' /\ G!NoDoubleBooking'
    BY <1>1, <1>7 DEF G!RemoveAgenda
  <1> QED
    BY <1>2, <1>3, <1>4, <1>5, <1>6, <1>7 DEF G!Next

\* Division by the slots of a day.
LEMMA AgDivision ==
    ASSUME NEW d \in Nat \ {0}, NEW k \in Int, NEW r \in 0..d - 1, NEW n \in Int, n = k * d + r
    PROVE  n \div d = k /\ n % d = r
  OBVIOUS

\* The slot of a local day that an instant falls in.
LEMMA AgLocal ==
    ASSUME NEW n \in Int, NEW k \in Int, NEW r \in 0..DayLength - 1,
           n + DayLength - Offset = k * DayLength + r
    PROVE  G!LocalSlot(n) = r
  <1> DEFINE m == n + DayLength - Offset
  <1>1. DayLength \in Nat \ {0} /\ m \in Int /\ m = k * DayLength + r
    BY AgendasAssumption DEF G!ConstantsOK
  <1> HIDE DEF m
  <1>2. m % DayLength = r
    BY <1>1, AgDivision
  <1> QED
    BY <1>2 DEF m, G!LocalSlot

LEMMA AgFree ==
    ASSUME G!TypeOK
    PROVE  G!OfferedSlotFree
  <1> SUFFICES ASSUME NEW day \in Days, NEW slot \in agHours, ~ G!Busy(slot, day), NEW i \in G!Booked,
                      G!Overlap(agAppointments[i], [start |-> day * DayLength + Offset + slot, length |-> 1]),
                      G!UtcDay(agAppointments[i].start) = day,
                      ~(G!LocalSlot(agAppointments[i].start) + agAppointments[i].length >= DayLength)
               PROVE  FALSE
    BY DEF G!OfferedSlotFree, G!AvailableSlots
  <1> DEFINE n == agAppointments[i].start
             length == agAppointments[i].length
             base == day * DayLength
  <1>1. /\ DayLength \in Nat \ {0} /\ Offset \in 0..DayLength - 1 /\ day \in Nat
        /\ slot \in 0..DayLength - 1 /\ length \in Nat \ {0} /\ n \in Int
    <2>1. agAppointments[i] \in G!Appointment
      BY DEF G!Booked, G!Exists, G!TypeOK
    <2>2. /\ DayLength \in Nat \ {0} /\ Offset \in 0..DayLength - 1 /\ day \in Nat
          /\ slot \in 0..DayLength - 1
      BY AgendasAssumption DEF G!ConstantsOK, G!TypeOK
    <2>3. length \in Nat \ {0} /\ n \in G!Instants
      BY <2>1, AgendasAssumption DEF G!ConstantsOK, G!Appointment
    <2>4. \A t \in G!Instants : t \in Int
      BY <2>2, AgendasAssumption DEF G!Instants, G!ConstantsOK
    <2> QED
      BY <2>2, <2>3, <2>4
  <1>2. /\ n < base + Offset + slot + 1 /\ base + Offset + slot < n + length
        /\ n \div DayLength = day
        /\ G!LocalSlot(n) + length < DayLength
        /\ ~(slot < G!LocalSlot(n + length) /\ slot + 1 > G!LocalSlot(n))
    <2>1. n < base + Offset + slot + 1 /\ base + Offset + slot < n + length
      BY DEF G!Overlap
    <2>2. n \div DayLength = day
      BY DEF G!UtcDay
    <2>3. G!LocalSlot(n) + length < DayLength
      <3>1. G!LocalSlot(n) \in Int
        BY <1>1 DEF G!LocalSlot
      <3> QED
        BY <1>1, <3>1
    <2>4. ~(slot < G!LocalSlot(n + length) /\ slot + 1 > G!LocalSlot(n))
      BY <2>2 DEF G!Busy, G!UtcDay
    <2> QED
      BY <2>1, <2>2, <2>3, <2>4
  <1> HIDE DEF n, length
  <1>3. PICK s \in 0..DayLength - 1 : n = base + s
    <2>1. n % DayLength \in 0..DayLength - 1 /\ n = (n \div DayLength) * DayLength + (n % DayLength)
      BY <1>1
    <2>2. n = base + (n % DayLength)
      BY <1>2, <2>1
    <2> QED
      BY <2>1, <2>2
  <1>4. base \in Int /\ (day + 1) * DayLength = base + DayLength
    BY <1>1
  <1>5. s < Offset + slot + 1 /\ Offset + slot < s + length
    <2> HIDE DEF base
    <2> QED
      BY <1>1, <1>2, <1>3, <1>4
  <1>6. CASE s >= Offset
    <2>1. n + DayLength - Offset = (day + 1) * DayLength + (s - Offset) /\ s - Offset \in 0..DayLength - 1
      <3> HIDE DEF base
      <3> QED
        BY <1>1, <1>3, <1>4, <1>6
    <2>2. G!LocalSlot(n) = s - Offset
      <3>1. day + 1 \in Int
        BY <1>1
      <3> QED
        BY <1>1, <2>1, <3>1, AgLocal
    <2>3. s - Offset + length \in 0..DayLength - 1
      BY <1>1, <1>2, <1>6, <2>2
    <2>4. n + length + DayLength - Offset = (day + 1) * DayLength + (s - Offset + length)
      <3> HIDE DEF base
      <3> QED
        BY <1>1, <1>3, <1>4
    <2>5. G!LocalSlot(n + length) = s - Offset + length
      <3>1. day + 1 \in Int /\ n + length \in Int
        BY <1>1
      <3> QED
        BY <2>3, <2>4, <3>1, AgLocal
    <2> QED
      BY <1>1, <1>2, <1>5, <2>2, <2>5
  <1>7. CASE s < Offset
    <2>1. n + DayLength - Offset = base + (s + DayLength - Offset) /\ s + DayLength - Offset \in 0..DayLength - 1
      <3> HIDE DEF base
      <3> QED
        BY <1>1, <1>3, <1>4, <1>7
    <2>2. G!LocalSlot(n) = s + DayLength - Offset
      <3>1. day \in Int
        BY <1>1
      <3> QED
        BY <1>1, <2>1, <3>1, AgLocal
    <2> QED
      BY <1>1, <1>2, <1>5, <1>7, <2>2
  <1> QED
    BY <1>1, <1>6, <1>7

LEMMA AgInit == G!Init => G!IInv
  <1> SUFFICES ASSUME G!Init PROVE G!IInv
    OBVIOUS
  <1> USE AgIdle, AgendasAssumption DEF G!ConstantsOK, G!Init
  <1>1. G!TypeOK
    <2>1. agRequests \in [Requests -> G!Request] /\ agServed \in 0..MaxBookings
      OBVIOUS
    <2> QED
      BY <2>1 DEF G!TypeOK
  <1>2. G!RequestsOK /\ G!InsertsChecked /\ G!NoDoubleBooking
    BY DEF G!RequestsOK, G!InsertsChecked, G!NoDoubleBooking, G!Booked, G!Exists
  <1> QED
    BY <1>1, <1>2 DEF G!IInv

LEMMA AgNext == G!IInv /\ [G!Next]_(G!vars) => G!IInv'
  <1>1. ASSUME G!IInv, G!Next PROVE G!IInv'
    BY <1>1, AgType, AgChecked DEF G!IInv
  <1>2. ASSUME G!IInv, UNCHANGED G!vars PROVE G!IInv'
    <2> USE <1>2 DEF G!IInv, G!vars
    <2>1. G!TypeOK' /\ G!RequestsOK'
      BY DEF G!TypeOK, G!RequestsOK, G!Exists
    <2>2. G!InsertsChecked' /\ G!NoDoubleBooking'
      BY DEF G!InsertsChecked, G!NoDoubleBooking, G!Booked, G!Exists, G!Overlap
    <2> QED
      BY <2>1, <2>2
  <1> QED
    BY <1>1, <1>2

\* The step of the office that is a step of the agendas, or none of theirs.
LEMMA AgStep == [OfficeNext]_officeVars => [G!Next]_(G!vars)
  BY DEF OfficeNext, officeVars, G!vars, agVars, AccountsStep, SignupStep, CodesStep, AgendasStep,
     CatalogueStep, PlansStep, LeadsStep

LEMMA AgInvariant == OfficeSpec => []G!IInv
  <1>1. OfficeInit => G!IInv
    BY AgInit DEF OfficeInit
  <1> QED
    BY <1>1, AgNext, AgStep, PTL DEF OfficeSpec

\* Agendas: two booked appointments overlap, and an offered slot is taken, only in the
\* cases each part names (AgendasService), in every office, for every length of a day,
\* offset of its midnight and opening hours.
THEOREM BookingsAlwaysExplained == OfficeSpec => []BookingsExplained
  <1>1. G!IInv => BookingsExplained
    BY AgFree DEF G!IInv, BookingsExplained
  <1> QED
    BY <1>1, AgInvariant, PTL

\* One step books a cancelled appointment again only by crossing it.
LEMMA AgCancelled == G!IInv /\ [G!Next]_(G!vars) =>
    [\A i \in Appointments : G!Exists(i) /\ ~agAppointments[i].booked /\ agAppointments'[i] # None
                            => ~agAppointments'[i].booked \/ i \in agCrossed']_(G!vars)
  <1> SUFFICES ASSUME G!IInv, G!Next, NEW i \in Appointments, agAppointments[i] # None,
                      ~agAppointments[i].booked, agAppointments'[i] # None
               PROVE  ~agAppointments'[i].booked \/ i \in agCrossed'
    BY DEF G!Exists
  <1> USE DEF G!IInv
  <1>1. CASE UNCHANGED agAppointments
    BY <1>1
  <1>2. ASSUME NEW q \in Requests, G!InsertAppointment(q)
        PROVE  ~agAppointments'[i].booked \/ i \in agCrossed'
    <2>1. agRequests[q].pc = "insert" /\ agRequests[q].id # i
      BY <1>2 DEF G!InsertAppointment, G!RequestsOK, G!Exists
    <2>2. agAppointments'[i] = agAppointments[i]
      BY <1>2, <2>1 DEF G!InsertAppointment, G!TypeOK
    <2> QED
      BY <2>2
  <1>3. ASSUME NEW q \in Requests, G!SaveAppointment(q)
        PROVE  ~agAppointments'[i].booked \/ i \in agCrossed'
    <2>1. CASE agRequests[q].id = i
      <3>1. /\ agAppointments'[i] = agRequests[q].row \/ agAppointments'[i] = agAppointments[i]
            /\ \/ i \in agCrossed'
               \/ agAppointments[i] = agRequests[q].copy /\ ~(agRequests[q].row.booked /\ ~agRequests[q].copy.booked)
        BY <1>3, <2>1 DEF G!SaveAppointment, G!TypeOK
      <3> QED
        BY <3>1
    <2>2. CASE agRequests[q].id # i
      <3>1. agAppointments'[i] = agAppointments[i]
        BY <1>3, <2>2 DEF G!SaveAppointment, G!TypeOK
      <3> QED
        BY <3>1
    <2> QED
      BY <2>1, <2>2
  <1>4. ASSUME G!RemoveAgenda
        PROVE  FALSE
    BY <1>4 DEF G!RemoveAgenda
  <1> QED
    BY <1>1, <1>2, <1>3, <1>4 DEF G!Next, G!CheckConflict, G!ReadForCancel, G!ReadForUpdate, G!SetHours

-----------------------------------------------------------------------------
(* Leads *)

\* A change names a field and a value of it.
LEMMA LdChange ==
    ASSUME NEW change \in L!Change
    PROVE  /\ change.field = "contact" => change.value \in Contacts
           /\ change.field = "assignee" => change.value \in Assignees
           /\ change.field \in {"add", "drop"} => change.value \in LeadLabels
           /\ change.field = "status" => change.value \in LeadStatuses
           /\ change.field = "stage" => change.value \in LeadStages
           /\ change.field \in {"contact", "assignee", "add", "drop", "status", "stage", "none"}
  BY DEF L!Change

LEMMA LdIdle ==
    /\ L!Idle \in L!Request /\ L!Nothing \in L!Change /\ L!Nothing.field = "none"
    /\ L!Idle.pc = "idle" /\ L!Idle.change = L!Nothing /\ L!Idle.loaded = "none"
  <1>1. L!Nothing \in L!Change
    BY DEF L!Nothing, L!Change
  <1> QED
    BY <1>1 DEF L!Idle, L!Nothing, L!Request

\* A change writes its field and leaves the others.
LEMMA LdApply ==
    ASSUME NEW row \in L!Lead, NEW change \in L!Change
    PROVE  /\ L!Apply(row, change) \in L!Lead
           /\ L!Apply(row, change).trash = row.trash
           /\ change.field = "none" => L!Apply(row, change) = row
           /\ change.field # "contact" => L!Apply(row, change).contact = row.contact
           /\ change.field # "assignee" => L!Apply(row, change).assignee = row.assignee
           /\ change.field # "status" => L!Apply(row, change).status = row.status
           /\ change.field # "stage" => L!Apply(row, change).stage = row.stage
           /\ change.field \notin {"add", "drop"} => L!Apply(row, change).labels = row.labels
           /\ change.field = "contact" => L!Apply(row, change).contact = change.value
           /\ change.field = "assignee" => L!Apply(row, change).assignee = change.value
           /\ change.field = "status" => L!Apply(row, change).status = change.value
           /\ change.field = "stage" => L!Apply(row, change).stage = change.value
           /\ change.field = "add" => L!Apply(row, change).labels = row.labels \cup {change.value}
           /\ change.field = "drop" => L!Apply(row, change).labels = row.labels \ {change.value}
  <1>1. CASE change.field = "contact"
    BY <1>1, LdChange DEF L!Apply, L!Lead
  <1>2. CASE change.field = "assignee"
    BY <1>2, LdChange DEF L!Apply, L!Lead
  <1>3. CASE change.field = "status"
    BY <1>3, LdChange DEF L!Apply, L!Lead
  <1>4. CASE change.field = "stage"
    BY <1>4, LdChange DEF L!Apply, L!Lead
  <1>5. CASE change.field = "add"
    BY <1>5, LdChange DEF L!Apply, L!Lead
  <1>6. CASE change.field = "drop"
    BY <1>6, LdChange DEF L!Apply, L!Lead
  <1>7. CASE change.field = "none"
    BY <1>7 DEF L!Apply, L!Lead
  <1> QED
    BY <1>1, <1>2, <1>3, <1>4, <1>5, <1>6, <1>7, LdChange

\* What AnswersKept says of one lead: its row, and the row had every request been atomic.
LeadAgrees(row, wanted, l, dropped) ==
    /\ row.status = wanted.status /\ row.stage = wanted.stage
    /\ row.labels = wanted.labels /\ row.trash = wanted.trash
    /\ <<l, "contact">> \notin dropped => row.contact = wanted.contact
    /\ <<l, "assignee">> \notin dropped => row.assignee = wanted.assignee

LEMMA LdAgrees ==
    L!AnswersKept <=> \A l \in Leads : leadLeads[l] # NoLead /\ l \notin leadCrossed
                                       => LeadAgrees(leadLeads[l], leadWant[l], l, leadIgnored)
  BY DEF L!AnswersKept, L!Exists, LeadAgrees

\* Two rows that agree still do after the same change.
LEMMA LdBoth ==
    ASSUME NEW row \in L!Lead, NEW wanted \in L!Lead, NEW change \in L!Change, NEW l, NEW dropped,
           LeadAgrees(row, wanted, l, dropped)
    PROVE  LeadAgrees(L!Apply(row, change), L!Apply(wanted, change), l, dropped)
  <1>1. CASE change.field = "contact"
    BY <1>1, LdApply DEF LeadAgrees
  <1>2. CASE change.field = "assignee"
    BY <1>2, LdApply DEF LeadAgrees
  <1>3. CASE change.field = "status"
    BY <1>3, LdApply DEF LeadAgrees
  <1>4. CASE change.field = "stage"
    BY <1>4, LdApply DEF LeadAgrees
  <1>5. CASE change.field = "add"
    <2>1. /\ L!Apply(row, change).labels = row.labels \cup {change.value}
          /\ L!Apply(wanted, change).labels = wanted.labels \cup {change.value}
      BY <1>5, LdApply
    <2>2. /\ L!Apply(row, change).status = row.status /\ L!Apply(wanted, change).status = wanted.status
          /\ L!Apply(row, change).stage = row.stage /\ L!Apply(wanted, change).stage = wanted.stage
          /\ L!Apply(row, change).trash = row.trash /\ L!Apply(wanted, change).trash = wanted.trash
          /\ L!Apply(row, change).contact = row.contact /\ L!Apply(wanted, change).contact = wanted.contact
          /\ L!Apply(row, change).assignee = row.assignee /\ L!Apply(wanted, change).assignee = wanted.assignee
      BY <1>5, LdApply
    <2> QED
      BY <2>1, <2>2 DEF LeadAgrees
  <1>6. CASE change.field = "drop"
    <2>1. /\ L!Apply(row, change).labels = row.labels \ {change.value}
          /\ L!Apply(wanted, change).labels = wanted.labels \ {change.value}
      BY <1>6, LdApply
    <2>2. /\ L!Apply(row, change).status = row.status /\ L!Apply(wanted, change).status = wanted.status
          /\ L!Apply(row, change).stage = row.stage /\ L!Apply(wanted, change).stage = wanted.stage
          /\ L!Apply(row, change).trash = row.trash /\ L!Apply(wanted, change).trash = wanted.trash
          /\ L!Apply(row, change).contact = row.contact /\ L!Apply(wanted, change).contact = wanted.contact
          /\ L!Apply(row, change).assignee = row.assignee /\ L!Apply(wanted, change).assignee = wanted.assignee
      BY <1>6, LdApply
    <2> QED
      BY <2>1, <2>2 DEF LeadAgrees
  <1>7. CASE change.field = "none"
    BY <1>7, LdApply DEF LeadAgrees
  <1> QED
    BY <1>1, <1>2, <1>3, <1>4, <1>5, <1>6, <1>7, LdChange

LEMMA LdMoved ==
    ASSUME L!TypeOK, NEW q \in Requests, NEW r \in L!Request, leadRequests' = [leadRequests EXCEPT ![q] = r]
    PROVE  /\ leadRequests' \in [Requests -> L!Request] /\ leadRequests'[q] = r
           /\ \A p \in Requests \ {q} : leadRequests'[p] = leadRequests[p]
  BY DEF L!TypeOK

\* Reads begin a request on a row that is there.
LEMMA LdRead ==
    ASSUME L!TypeOK, NEW q \in Requests,
           \/ \E l \in Leads, change \in L!Change :
                 \/ change.field \in {"contact", "assignee", "none"} /\ L!ReadLead(q, l, change)
                 \/ change.field \in {"add", "drop"} /\ L!ReadForLabels(q, l, change)
                 \/ change.field \in {"status", "stage"} /\ L!ReadForWrite(q, l, change)
           \/ \E l \in Leads : L!ReadForPurge(q, l)
           \/ \E c \in Contacts : L!ReadContact(q, c)
    PROVE  \E r \in L!Request :
              /\ leadRequests' = [leadRequests EXCEPT ![q] = r] /\ leadRequests[q].pc = "idle"
              /\ leadServed' \in 0..MaxLeadRequests
              /\ r.pc \in {"save", "write", "purge", "contact"}
              /\ r.pc # "contact" => r.id \in Leads /\ leadLeads[r.id] # NoLead
              /\ r.pc = "purge" => leadLeads[r.id].trash # "no"
              /\ r.pc = "save" => r.copy # NoLead /\ r.loaded # "none"
              /\ r.pc = "contact" => r.contact \in Contacts
              /\ UNCHANGED <<leadLeads, leadContacts, leadWant, leadIgnored, leadCrossed, leadPurged>>
  <1> USE LdIdle DEF L!Arrive, L!Found, L!Exists
  <1>0. ASSUME leadServed < MaxLeadRequests, leadServed' = leadServed + 1
        PROVE  leadServed' \in 0..MaxLeadRequests
    BY <1>0, LeadsAssumption DEF L!TypeOK, L!ConstantsOK
  <1>1. ASSUME NEW l \in Leads, NEW change \in L!Change, L!ReadLead(q, l, change) \/ L!ReadForLabels(q, l, change)
        PROVE  \E r \in L!Request :
                  /\ leadRequests' = [leadRequests EXCEPT ![q] = r] /\ leadRequests[q].pc = "idle"
                  /\ leadServed' \in 0..MaxLeadRequests
                  /\ r.pc = "save" /\ r.id \in Leads /\ leadLeads[r.id] # NoLead
                  /\ r.copy # NoLead /\ r.loaded # "none"
                  /\ UNCHANGED <<leadLeads, leadContacts, leadWant, leadIgnored, leadCrossed, leadPurged>>
    <2>1. PICK loaded \in {"all", "labels"} :
              leadRequests' = [leadRequests EXCEPT ![q] =
                 [L!Idle EXCEPT !.pc = "save", !.id = l, !.copy = leadLeads[l], !.change = change, !.loaded = loaded]]
      BY <1>1 DEF L!ReadLead, L!ReadForLabels
    <2> DEFINE r == [L!Idle EXCEPT !.pc = "save", !.id = l, !.copy = leadLeads[l], !.change = change, !.loaded = loaded]
    <2>2. /\ r \in L!Request /\ r.pc = "save" /\ r.id = l /\ r.copy = leadLeads[l] /\ r.loaded = loaded
      BY DEF L!Request, L!TypeOK
    <2>3. /\ leadRequests[q].pc = "idle" /\ leadServed < MaxLeadRequests /\ leadServed' = leadServed + 1
          /\ leadLeads[l] # NoLead
          /\ UNCHANGED <<leadLeads, leadContacts, leadWant, leadIgnored, leadCrossed, leadPurged>>
      BY <1>1 DEF L!ReadLead, L!ReadForLabels
    <2>4. leadRequests' = [leadRequests EXCEPT ![q] = r]
      BY <2>1
    <2> HIDE DEF r
    <2> QED
      BY <1>0, <2>2, <2>3, <2>4
  <1>2. ASSUME NEW l \in Leads, NEW change \in L!Change, L!ReadForWrite(q, l, change)
        PROVE  \E r \in L!Request :
                  /\ leadRequests' = [leadRequests EXCEPT ![q] = r] /\ leadRequests[q].pc = "idle"
                  /\ leadServed' \in 0..MaxLeadRequests
                  /\ r.pc = "write" /\ r.id \in Leads /\ leadLeads[r.id] # NoLead
                  /\ UNCHANGED <<leadLeads, leadContacts, leadWant, leadIgnored, leadCrossed, leadPurged>>
    <2> DEFINE r == [L!Idle EXCEPT !.pc = "write", !.id = l, !.copy = leadLeads[l], !.change = change]
    <2>2. /\ r \in L!Request /\ r.pc = "write" /\ r.id = l
      BY DEF L!Request, L!TypeOK
    <2>3. /\ leadRequests' = [leadRequests EXCEPT ![q] = r] /\ leadRequests[q].pc = "idle"
          /\ leadServed < MaxLeadRequests /\ leadServed' = leadServed + 1 /\ leadLeads[l] # NoLead
          /\ UNCHANGED <<leadLeads, leadContacts, leadWant, leadIgnored, leadCrossed, leadPurged>>
      BY <1>2 DEF L!ReadForWrite
    <2> HIDE DEF r
    <2> QED
      BY <1>0, <2>2, <2>3
  <1>3. ASSUME NEW l \in Leads, L!ReadForPurge(q, l)
        PROVE  \E r \in L!Request :
                  /\ leadRequests' = [leadRequests EXCEPT ![q] = r] /\ leadRequests[q].pc = "idle"
                  /\ leadServed' \in 0..MaxLeadRequests
                  /\ r.pc = "purge" /\ r.id \in Leads /\ leadLeads[r.id] # NoLead /\ leadLeads[r.id].trash # "no"
                  /\ UNCHANGED <<leadLeads, leadContacts, leadWant, leadIgnored, leadCrossed, leadPurged>>
    <2> DEFINE r == [L!Idle EXCEPT !.pc = "purge", !.id = l]
    <2>2. /\ r \in L!Request /\ r.pc = "purge" /\ r.id = l
      BY DEF L!Request, L!TypeOK
    <2>3. /\ leadRequests' = [leadRequests EXCEPT ![q] = r] /\ leadRequests[q].pc = "idle"
          /\ leadServed < MaxLeadRequests /\ leadServed' = leadServed + 1 /\ leadLeads[l] # NoLead /\ leadLeads[l].trash # "no"
          /\ UNCHANGED <<leadLeads, leadContacts, leadWant, leadIgnored, leadCrossed, leadPurged>>
      BY <1>3 DEF L!ReadForPurge
    <2> HIDE DEF r
    <2> QED
      BY <1>0, <2>2, <2>3
  <1>4. ASSUME NEW c \in Contacts, L!ReadContact(q, c)
        PROVE  \E r \in L!Request :
                  /\ leadRequests' = [leadRequests EXCEPT ![q] = r] /\ leadRequests[q].pc = "idle"
                  /\ leadServed' \in 0..MaxLeadRequests
                  /\ r.pc = "contact" /\ r.contact \in Contacts
                  /\ UNCHANGED <<leadLeads, leadContacts, leadWant, leadIgnored, leadCrossed, leadPurged>>
    <2> DEFINE r == [L!Idle EXCEPT !.pc = "contact", !.contact = c, !.leads = L!LeadsOf(c)]
    <2>2. /\ r \in L!Request /\ r.pc = "contact" /\ r.contact = c
      BY DEF L!Request, L!LeadsOf
    <2>3. /\ leadRequests' = [leadRequests EXCEPT ![q] = r] /\ leadRequests[q].pc = "idle"
          /\ leadServed < MaxLeadRequests /\ leadServed' = leadServed + 1
          /\ UNCHANGED <<leadLeads, leadContacts, leadWant, leadIgnored, leadCrossed, leadPurged>>
      BY <1>4 DEF L!ReadContact
    <2> HIDE DEF r
    <2> QED
      BY <1>0, <2>2, <2>3
  <1> QED
    BY <1>1, <1>2, <1>3, <1>4

\* What a step must show for each part of the invariant.
LEMMA LdRequests ==
    ASSUME L!RequestsOK,
           \A p \in Requests : leadRequests'[p] = leadRequests[p] \/ leadRequests'[p].pc = "idle",
           \A l \in Leads : leadWant[l] # NoLead => leadWant'[l] # NoLead,
           \A l \in Leads : leadLeads'[l] # NoLead => leadLeads[l] # NoLead \/ leadWant'[l] # NoLead
    PROVE  L!RequestsOK'
  BY DEF L!RequestsOK, L!Exists

LEMMA LdPurges ==
    ASSUME L!PurgesMarked, leadPurged \subseteq leadPurged', leadCrossed \subseteq leadCrossed',
           \A p \in Requests : leadRequests'[p] = leadRequests[p] \/ leadRequests'[p].pc # "purge",
           \A l \in Leads :
               \/ leadLeads'[l] = NoLead
               \/ leadLeads[l] # NoLead /\ (leadLeads[l].trash # "no" => leadLeads'[l].trash # "no")
               \/ l \in leadPurged' \/ l \in leadCrossed'
               \/ \A p \in Requests : ~(leadRequests[p].pc = "purge" /\ leadRequests[p].id = l)
    PROVE  L!PurgesMarked'
  BY DEF L!PurgesMarked, L!Exists

LEMMA LdAnswers ==
    ASSUME L!AnswersKept, leadIgnored \subseteq leadIgnored', leadCrossed \subseteq leadCrossed',
           \A l \in Leads :
               \/ leadLeads'[l] = NoLead \/ l \in leadCrossed'
               \/ leadLeads'[l] = leadLeads[l] /\ leadWant'[l] = leadWant[l]
               \/ LeadAgrees(leadLeads'[l], leadWant'[l], l, leadIgnored')
    PROVE  L!AnswersKept'
  <1> SUFFICES ASSUME NEW l \in Leads, leadLeads'[l] # NoLead, l \notin leadCrossed'
               PROVE  LeadAgrees(leadLeads'[l], leadWant'[l], l, leadIgnored')
    BY DEF L!AnswersKept, L!Exists, LeadAgrees
  <1>1. CASE leadLeads'[l] = leadLeads[l] /\ leadWant'[l] = leadWant[l]
    <2>1. LeadAgrees(leadLeads[l], leadWant[l], l, leadIgnored)
      BY <1>1, LdAgrees
    <2> QED
      BY <1>1, <2>1 DEF LeadAgrees
  <1> QED
    BY <1>1

LEMMA LdEnd ==
    ASSUME L!TypeOK, NEW q \in Requests, L!End(q)
    PROVE  /\ leadRequests' \in [Requests -> L!Request] /\ leadRequests'[q].pc = "idle"
           /\ \A p \in Requests \ {q} : leadRequests'[p] = leadRequests[p]
  BY LdIdle, LdMoved DEF L!End

\* The reads.
LEMMA LdReads ==
    ASSUME L!IInv, NEW q \in Requests,
           \/ \E l \in Leads, change \in L!Change :
                 \/ change.field \in {"contact", "assignee", "none"} /\ L!ReadLead(q, l, change)
                 \/ change.field \in {"add", "drop"} /\ L!ReadForLabels(q, l, change)
                 \/ change.field \in {"status", "stage"} /\ L!ReadForWrite(q, l, change)
           \/ \E l \in Leads : L!ReadForPurge(q, l)
           \/ \E c \in Contacts : L!ReadContact(q, c)
    PROVE  L!IInv'
  <1> USE DEF L!IInv
  <1>1. PICK r \in L!Request :
              /\ leadRequests' = [leadRequests EXCEPT ![q] = r] /\ leadRequests[q].pc = "idle"
              /\ leadServed' \in 0..MaxLeadRequests
              /\ r.pc \in {"save", "write", "purge", "contact"}
              /\ r.pc # "contact" => r.id \in Leads /\ leadLeads[r.id] # NoLead
              /\ r.pc = "purge" => leadLeads[r.id].trash # "no"
              /\ r.pc = "save" => r.copy # NoLead /\ r.loaded # "none"
              /\ r.pc = "contact" => r.contact \in Contacts
              /\ UNCHANGED <<leadLeads, leadContacts, leadWant, leadIgnored, leadCrossed, leadPurged>>
    BY LdRead
  <1>2. /\ leadRequests' \in [Requests -> L!Request] /\ leadRequests'[q] = r
        /\ \A p \in Requests \ {q} : leadRequests'[p] = leadRequests[p]
    BY <1>1, LdMoved
  <1>3. L!TypeOK'
    BY <1>1, <1>2 DEF L!TypeOK
  <1>4. L!RequestsOK'
    BY <1>1, <1>2 DEF L!RequestsOK, L!Exists
  <1>5. L!PurgesMarked'
    BY <1>1, <1>2 DEF L!PurgesMarked, L!Exists
  <1>6. L!AnswersKept'
    BY <1>1, LdAnswers
  <1> QED
    BY <1>3, <1>4, <1>5, <1>6

\* A lead is created whole.
LEMMA LdCreate ==
    ASSUME L!IInv, NEW l \in Leads, NEW c \in Contacts \cup {None}, NEW u \in Assignees \cup {None},
           NEW s \in LeadStages, L!Create(l, c, u, s)
    PROVE  L!IInv'
  <1> USE DEF L!IInv
  <1> DEFINE row == [contact |-> c, assignee |-> u, status |-> "active",
                     stage |-> s, labels |-> {}, trash |-> "no"]
  <1>1. row \in L!Lead /\ row # NoLead
    BY LeadsAssumption DEF L!Lead, L!ConstantsOK
  <1>2. /\ leadLeads' = [leadLeads EXCEPT ![l] = row] /\ leadWant' = [leadWant EXCEPT ![l] = row]
        /\ leadWant[l] = NoLead /\ leadServed < MaxLeadRequests /\ leadServed' = leadServed + 1
        /\ UNCHANGED <<leadContacts, leadRequests, leadIgnored, leadCrossed, leadPurged>>
    BY DEF L!Create, L!Count
  <1> HIDE DEF row
  <1>3. /\ leadLeads' \in [Leads -> L!Lead \cup {NoLead}] /\ leadWant' \in [Leads -> L!Lead \cup {NoLead}]
        /\ leadLeads'[l] = row /\ leadWant'[l] = row
        /\ \A m \in Leads \ {l} : leadLeads'[m] = leadLeads[m] /\ leadWant'[m] = leadWant[m]
    BY <1>1, <1>2 DEF L!TypeOK
  <1>4. leadServed' \in 0..MaxLeadRequests
    BY <1>2, LeadsAssumption DEF L!TypeOK, L!ConstantsOK
  <1>5. L!TypeOK'
    BY <1>2, <1>3, <1>4 DEF L!TypeOK
  <1>6. L!RequestsOK'
    BY <1>1, <1>2, <1>3, LdRequests
  <1>7. L!PurgesMarked'
    <2>1. \A p \in Requests : ~(leadRequests[p].pc = "purge" /\ leadRequests[p].id = l)
      BY <1>2 DEF L!RequestsOK
    <2>2. \A m \in Leads \ {l} : leadLeads'[m] = leadLeads[m]
      BY <1>3
    <2> QED
      BY <1>2, <2>1, <2>2, LdPurges
  <1>8. L!AnswersKept'
    <2>1. LeadAgrees(row, row, l, leadIgnored)
      BY DEF LeadAgrees
    <2> QED
      BY <1>2, <1>3, <2>1, LdAnswers
  <1> QED
    BY <1>5, <1>6, <1>7, <1>8

\* What a save puts into the row.
LEMMA LdSaved ==
    ASSUME L!IInv, NEW q \in Requests, L!Save(q)
    PROVE  \E saved \in L!Lead, l \in Leads, change \in L!Change :
              /\ l = leadRequests[q].id /\ change = leadRequests[q].change /\ leadRequests[q].pc = "save"
              /\ leadWant[l] # NoLead
              /\ \/ UNCHANGED <<leadLeads, leadWant, leadIgnored, leadCrossed>>
                 \/ /\ leadLeads' = [leadLeads EXCEPT ![l] = saved]
                    /\ leadWant' = [leadWant EXCEPT ![l] = L!Apply(leadWant[l], change)]
                    /\ saved.trash = leadRequests[q].copy.trash
                    /\ leadIgnored \subseteq leadIgnored' /\ leadIgnored' \subseteq leadIgnored \cup {<<l, "contact">>, <<l, "assignee">>}
                    /\ leadCrossed \subseteq leadCrossed' /\ leadCrossed' \subseteq leadCrossed \cup {l}
                    /\ \/ l \in leadCrossed'
                       \/ /\ leadLeads[l] = leadRequests[q].copy /\ leadRequests[q].copy # NoLead
                          /\ \/ saved = L!Apply(leadLeads[l], change)
                             \/ /\ saved = leadLeads[l]
                                /\ change.field \in {"contact", "assignee"} /\ <<l, change.field>> \in leadIgnored'
              /\ L!End(q) /\ UNCHANGED <<leadContacts, leadServed, leadPurged>>
  <1> USE DEF L!IInv
  <1> DEFINE l == leadRequests[q].id
             change == leadRequests[q].change
             copy == leadRequests[q].copy
             loaded == leadRequests[q].loaded
             wins == L!RelationWins(copy, change, loaded)
             base == IF wins THEN copy ELSE L!Apply(copy, change)
             labels == IF loaded # "none" \/ leadLeads[l] = NoLead THEN base.labels ELSE leadLeads[l].labels
             saved == [base EXCEPT !.labels = labels]
  <1>1. /\ leadRequests[q].pc = "save" /\ L!End(q) /\ UNCHANGED <<leadContacts, leadServed, leadPurged>>
        /\ \/ UNCHANGED <<leadLeads, leadWant, leadIgnored, leadCrossed>>
           \/ /\ leadLeads' = [leadLeads EXCEPT ![l] = saved]
              /\ leadWant' = [leadWant EXCEPT ![l] = IF leadWant[l] = NoLead THEN saved ELSE L!Apply(leadWant[l], change)]
              /\ leadIgnored' = IF wins THEN leadIgnored \cup {<<l, change.field>>} ELSE leadIgnored
              /\ leadCrossed' = IF leadLeads[l] = copy THEN leadCrossed ELSE leadCrossed \cup {l}
    BY DEF L!Save, L!Exists
  <1>2. /\ l \in Leads /\ leadWant[l] # NoLead /\ copy # NoLead
        /\ loaded = "none" => change.field = "none"
    BY <1>1 DEF L!RequestsOK
  <1>3. change \in L!Change /\ copy \in L!Lead
    BY <1>2 DEF L!TypeOK, L!Request
  <1>4. wins => loaded = "all" /\ change.field \in {"contact", "assignee"}
    BY DEF L!RelationWins
  <1> HIDE DEF l, change, copy, loaded, wins
  <1>5. base \in L!Lead /\ base.trash = copy.trash
    BY <1>3, LdApply
  <1>6. leadLeads[l] \in L!Lead \cup {NoLead}
    BY <1>2 DEF L!TypeOK
  <1>7. ASSUME leadLeads[l] = copy
        PROVE  labels = base.labels
    <2>1. CASE loaded = "none" /\ leadLeads[l] # NoLead
      <3>1. base = copy
        BY <1>2, <1>3, <1>4, <2>1, LdApply
      <3> QED
        BY <1>7, <3>1
    <2>2. CASE ~(loaded = "none" /\ leadLeads[l] # NoLead)
      BY <2>2
    <2> QED
      BY <2>1, <2>2
  <1>8. labels \in SUBSET LeadLabels
    BY <1>5, <1>6 DEF L!Lead
  <1> HIDE DEF labels
  <1>9. saved \in L!Lead /\ saved.trash = copy.trash /\ (labels = base.labels => saved = base)
    BY <1>5, <1>8 DEF L!Lead
  <1>10. wins => base = copy
    OBVIOUS
  <1>11. ~wins => base = L!Apply(copy, change)
    OBVIOUS
  <1> HIDE DEF base
  <1> HIDE DEF saved
  <1>12. CASE UNCHANGED <<leadLeads, leadWant, leadIgnored, leadCrossed>>
    BY <1>1, <1>2, <1>3, <1>9, <1>12 DEF l, change
  <1>13. CASE /\ leadLeads' = [leadLeads EXCEPT ![l] = saved]
              /\ leadWant' = [leadWant EXCEPT ![l] = IF leadWant[l] = NoLead THEN saved ELSE L!Apply(leadWant[l], change)]
              /\ leadIgnored' = IF wins THEN leadIgnored \cup {<<l, change.field>>} ELSE leadIgnored
              /\ leadCrossed' = IF leadLeads[l] = copy THEN leadCrossed ELSE leadCrossed \cup {l}
    <2>1. leadWant' = [leadWant EXCEPT ![l] = L!Apply(leadWant[l], change)]
      BY <1>2, <1>13
    <2>2. /\ leadIgnored \subseteq leadIgnored'
          /\ leadIgnored' \subseteq leadIgnored \cup {<<l, "contact">>, <<l, "assignee">>}
      BY <1>4, <1>13
    <2>3. leadCrossed \subseteq leadCrossed' /\ leadCrossed' \subseteq leadCrossed \cup {l}
      BY <1>13
    <2>4. CASE leadLeads[l] = copy
      <3>1. saved = base
        BY <1>7, <1>9, <2>4
      <3>2. \/ saved = L!Apply(leadLeads[l], change)
            \/ /\ saved = leadLeads[l]
               /\ change.field \in {"contact", "assignee"} /\ <<l, change.field>> \in leadIgnored'
        BY <1>4, <1>10, <1>11, <1>13, <2>4, <3>1
      <3> QED
        BY <1>1, <1>2, <1>3, <1>9, <1>13, <2>1, <2>2, <2>3, <2>4, <3>2 DEF l, change, copy
    <2>5. CASE leadLeads[l] # copy
      <3>1. l \in leadCrossed'
        BY <1>13, <2>5
      <3> QED
        BY <1>1, <1>2, <1>3, <1>9, <1>13, <2>1, <2>2, <2>3, <3>1 DEF l, change, copy
    <2> QED
      BY <2>4, <2>5
  <1> QED
    BY <1>1, <1>12, <1>13

LEMMA LdSave ==
    ASSUME L!IInv, NEW q \in Requests, L!Save(q)
    PROVE  L!IInv'
  <1> USE DEF L!IInv
  <1>1. PICK saved \in L!Lead, l \in Leads, change \in L!Change :
              /\ leadWant[l] # NoLead
              /\ \/ UNCHANGED <<leadLeads, leadWant, leadIgnored, leadCrossed>>
                 \/ /\ leadLeads' = [leadLeads EXCEPT ![l] = saved]
                    /\ leadWant' = [leadWant EXCEPT ![l] = L!Apply(leadWant[l], change)]
                    /\ saved.trash = leadRequests[q].copy.trash
                    /\ leadIgnored \subseteq leadIgnored' /\ leadIgnored' \subseteq leadIgnored \cup {<<l, "contact">>, <<l, "assignee">>}
                    /\ leadCrossed \subseteq leadCrossed' /\ leadCrossed' \subseteq leadCrossed \cup {l}
                    /\ \/ l \in leadCrossed'
                       \/ /\ leadLeads[l] = leadRequests[q].copy /\ leadRequests[q].copy # NoLead
                          /\ \/ saved = L!Apply(leadLeads[l], change)
                             \/ /\ saved = leadLeads[l]
                                /\ change.field \in {"contact", "assignee"} /\ <<l, change.field>> \in leadIgnored'
              /\ L!End(q) /\ UNCHANGED <<leadContacts, leadServed, leadPurged>>
    BY LdSaved
  <1>2. /\ leadRequests' \in [Requests -> L!Request] /\ leadRequests'[q].pc = "idle"
        /\ \A p \in Requests \ {q} : leadRequests'[p] = leadRequests[p]
    BY <1>1, LdEnd
  <1>3. CASE UNCHANGED <<leadLeads, leadWant, leadIgnored, leadCrossed>>
    <2>1. L!TypeOK'
      BY <1>1, <1>2, <1>3 DEF L!TypeOK
    <2>2. L!RequestsOK' /\ L!PurgesMarked' /\ L!AnswersKept'
      BY <1>1, <1>2, <1>3, LdRequests, LdPurges, LdAnswers
    <2> QED
      BY <2>1, <2>2
  <1>4. CASE /\ leadLeads' = [leadLeads EXCEPT ![l] = saved]
             /\ leadWant' = [leadWant EXCEPT ![l] = L!Apply(leadWant[l], change)]
             /\ saved.trash = leadRequests[q].copy.trash
             /\ leadIgnored \subseteq leadIgnored' /\ leadIgnored' \subseteq leadIgnored \cup {<<l, "contact">>, <<l, "assignee">>}
             /\ leadCrossed \subseteq leadCrossed' /\ leadCrossed' \subseteq leadCrossed \cup {l}
             /\ \/ l \in leadCrossed'
                \/ /\ leadLeads[l] = leadRequests[q].copy /\ leadRequests[q].copy # NoLead
                   /\ \/ saved = L!Apply(leadLeads[l], change)
                      \/ /\ saved = leadLeads[l]
                         /\ change.field \in {"contact", "assignee"} /\ <<l, change.field>> \in leadIgnored'
    <2>1. leadWant[l] \in L!Lead /\ L!Apply(leadWant[l], change) \in L!Lead
      BY <1>1, LdApply DEF L!TypeOK
    <2>2. /\ leadLeads' \in [Leads -> L!Lead \cup {NoLead}] /\ leadWant' \in [Leads -> L!Lead \cup {NoLead}]
          /\ leadLeads'[l] = saved /\ leadWant'[l] = L!Apply(leadWant[l], change)
          /\ \A m \in Leads \ {l} : leadLeads'[m] = leadLeads[m] /\ leadWant'[m] = leadWant[m]
      BY <1>4, <2>1 DEF L!TypeOK
    <2>3. NoLead \notin L!Lead
      BY LeadsAssumption DEF L!ConstantsOK
    <2>4. L!TypeOK'
      <3>1. leadIgnored' \subseteq Leads \X {"contact", "assignee"} /\ leadCrossed' \subseteq Leads
        BY <1>4 DEF L!TypeOK
      <3> QED
        BY <1>1, <1>2, <2>2, <3>1 DEF L!TypeOK
    <2>5. L!RequestsOK'
      BY <1>2, <2>1, <2>2, <2>3, LdRequests
    <2>6. L!PurgesMarked'
      <3>1. \/ l \in leadCrossed'
            \/ leadLeads[l] # NoLead /\ (leadLeads[l].trash # "no" => leadLeads'[l].trash # "no")
        BY <1>4, <2>2
      <3> QED
        BY <1>1, <1>2, <1>4, <2>2, <3>1, LdPurges
    <2>7. L!AnswersKept'
      <3>1. ASSUME l \notin leadCrossed'
            PROVE  LeadAgrees(leadLeads'[l], leadWant'[l], l, leadIgnored')
        <4>1. /\ leadLeads[l] = leadRequests[q].copy /\ leadRequests[q].copy # NoLead
              /\ leadLeads[l] \in L!Lead /\ l \notin leadCrossed
          BY <1>4, <3>1 DEF L!TypeOK
        <4>2. LeadAgrees(leadLeads[l], leadWant[l], l, leadIgnored')
          <5>1. LeadAgrees(leadLeads[l], leadWant[l], l, leadIgnored)
            BY <4>1, LdAgrees
          <5> QED
            BY <1>4, <5>1 DEF LeadAgrees
        <4>3. CASE saved = L!Apply(leadLeads[l], change)
          BY <2>1, <2>2, <4>1, <4>2, <4>3, LdBoth
        <4>4. CASE /\ saved = leadLeads[l]
                   /\ change.field \in {"contact", "assignee"} /\ <<l, change.field>> \in leadIgnored'
          <5>1. CASE change.field = "contact"
            BY <2>1, <2>2, <4>2, <4>4, <5>1, LdApply DEF LeadAgrees
          <5>2. CASE change.field = "assignee"
            BY <2>1, <2>2, <4>2, <4>4, <5>2, LdApply DEF LeadAgrees
          <5> QED
            BY <4>4, <5>1, <5>2
        <4> QED
          BY <1>4, <3>1, <4>3, <4>4
      <3> QED
        BY <1>4, <2>2, <3>1, LdAnswers
    <2> QED
      BY <2>4, <2>5, <2>6, <2>7
  <1> QED
    BY <1>1, <1>3, <1>4

\* One UPDATE writes the row's field, and the request may go on with its event.
LEMMA LdWrite ==
    ASSUME L!IInv, NEW q \in Requests, L!Write(q)
    PROVE  L!IInv'
  <1> USE DEF L!IInv
  <1> DEFINE l == leadRequests[q].id
             change == leadRequests[q].change
  <1>1. /\ leadRequests[q].pc = "write"
        /\ UNCHANGED <<leadContacts, leadServed, leadIgnored, leadCrossed, leadPurged>>
        /\ \/ leadLeads[l] = NoLead /\ UNCHANGED <<leadLeads, leadWant>>
           \/ /\ leadLeads[l] # NoLead
              /\ leadLeads' = [leadLeads EXCEPT ![l] = L!Apply(leadLeads[l], change)]
              /\ leadWant' = [leadWant EXCEPT ![l] = L!Apply(leadWant[l], change)]
    BY DEF L!Write, L!Exists
  <1>2. l \in Leads /\ leadWant[l] # NoLead /\ change \in L!Change
    BY <1>1 DEF L!RequestsOK, L!TypeOK, L!Request
  <1> HIDE DEF l, change
  <1>3. /\ leadRequests' \in [Requests -> L!Request]
        /\ \A p \in Requests \ {q} : leadRequests'[p] = leadRequests[p]
        /\ \/ leadRequests'[q].pc = "idle"
           \/ leadRequests'[q].pc = "event" /\ leadRequests'[q].id = l
    <2>1. CASE L!End(q)
      BY <2>1, LdEnd
    <2>2. CASE L!GoTo(q, "event")
      <3> DEFINE r == [leadRequests[q] EXCEPT !.pc = "event"]
      <3>1. r \in L!Request /\ r.pc = "event" /\ r.id = l
        BY DEF L!TypeOK, L!Request, l
      <3>2. leadRequests' = [leadRequests EXCEPT ![q] = r]
        BY <2>2 DEF L!GoTo
      <3> HIDE DEF r
      <3> QED
        BY <3>1, <3>2, LdMoved
    <2> QED
      BY <2>1, <2>2 DEF L!Write
  <1>4. CASE leadLeads[l] = NoLead /\ UNCHANGED <<leadLeads, leadWant>>
    <2>1. L!TypeOK'
      BY <1>1, <1>3, <1>4 DEF L!TypeOK
    <2>2. L!RequestsOK'
      BY <1>1, <1>2, <1>3, <1>4 DEF L!RequestsOK, L!Exists
    <2>3. L!PurgesMarked' /\ L!AnswersKept'
      <3>1. \A p \in Requests : leadRequests'[p] = leadRequests[p] \/ leadRequests'[p].pc # "purge"
        BY <1>3
      <3> QED
        BY <1>1, <1>4, <3>1, LdPurges, LdAnswers
    <2> QED
      BY <2>1, <2>2, <2>3
  <1>5. CASE /\ leadLeads[l] # NoLead
             /\ leadLeads' = [leadLeads EXCEPT ![l] = L!Apply(leadLeads[l], change)]
             /\ leadWant' = [leadWant EXCEPT ![l] = L!Apply(leadWant[l], change)]
    <2>1. /\ leadLeads[l] \in L!Lead /\ L!Apply(leadLeads[l], change) \in L!Lead
          /\ leadWant[l] \in L!Lead /\ L!Apply(leadWant[l], change) \in L!Lead
          /\ L!Apply(leadLeads[l], change).trash = leadLeads[l].trash
      BY <1>2, <1>5, LdApply DEF L!TypeOK
    <2>2. /\ leadLeads' \in [Leads -> L!Lead \cup {NoLead}] /\ leadWant' \in [Leads -> L!Lead \cup {NoLead}]
          /\ leadLeads'[l] = L!Apply(leadLeads[l], change) /\ leadWant'[l] = L!Apply(leadWant[l], change)
          /\ \A m \in Leads \ {l} : leadLeads'[m] = leadLeads[m] /\ leadWant'[m] = leadWant[m]
      BY <1>2, <1>5, <2>1 DEF L!TypeOK
    <2>3. NoLead \notin L!Lead
      BY LeadsAssumption DEF L!ConstantsOK
    <2>4. L!TypeOK'
      BY <1>1, <1>3, <2>2 DEF L!TypeOK
    <2>5. L!RequestsOK'
      BY <1>2, <1>3, <2>1, <2>2, <2>3 DEF L!RequestsOK, L!Exists
    <2>6. L!PurgesMarked'
      <3>1. \A p \in Requests : leadRequests'[p] = leadRequests[p] \/ leadRequests'[p].pc # "purge"
        BY <1>3
      <3> QED
        BY <1>1, <1>5, <2>1, <2>2, <3>1, LdPurges
    <2>7. L!AnswersKept'
      <3>1. l \notin leadCrossed => LeadAgrees(leadLeads'[l], leadWant'[l], l, leadIgnored)
        BY <1>2, <1>5, <2>1, <2>2, LdAgrees, LdBoth
      <3> QED
        BY <1>1, <2>2, <3>1, LdAnswers
    <2> QED
      BY <2>4, <2>5, <2>6, <2>7
  <1> QED
    BY <1>1, <1>4, <1>5

\* The score of a lead that a write announced.
LEMMA LdScore ==
    ASSUME L!IInv, NEW q \in Requests, L!ReadForScore(q)
    PROVE  L!IInv'
  <1> USE DEF L!IInv
  <1> DEFINE l == leadRequests[q].id
             r == [L!Idle EXCEPT !.pc = "save", !.id = l, !.copy = leadLeads[l]]
  <1>1. /\ leadRequests[q].pc = "event"
        /\ L!End(q) \/ (leadLeads[l] # NoLead /\ leadRequests' = [leadRequests EXCEPT ![q] = r])
        /\ UNCHANGED <<leadLeads, leadContacts, leadServed, leadWant, leadIgnored, leadCrossed, leadPurged>>
    <2>1. CASE L!Found(l)
      BY <2>1 DEF L!ReadForScore, L!Found, L!Exists
    <2>2. CASE ~L!Found(l)
      <3>1. /\ leadRequests[q].pc = "event" /\ L!End(q)
            /\ UNCHANGED <<leadLeads, leadContacts, leadServed, leadWant, leadIgnored, leadCrossed, leadPurged>>
        <4> HIDE DEF r
        <4> QED
          BY <2>2 DEF L!ReadForScore
      <3> QED
        BY <3>1
    <2> QED
      BY <2>1, <2>2
  <1>2. l \in Leads /\ leadWant[l] # NoLead
    BY <1>1 DEF L!RequestsOK
  <1>3. /\ r \in L!Request /\ r.pc = "save" /\ r.id = l /\ r.copy = leadLeads[l]
        /\ r.loaded = "none" /\ r.change.field = "none"
    BY <1>2, LdIdle DEF L!Request, L!TypeOK
  <1> HIDE DEF l
  <1> HIDE DEF r
  <1>4. /\ leadRequests' \in [Requests -> L!Request]
        /\ \A p \in Requests \ {q} : leadRequests'[p] = leadRequests[p]
        /\ leadRequests'[q].pc = "idle" \/ (leadLeads[l] # NoLead /\ leadRequests'[q] = r)
    BY <1>1, <1>3, LdEnd, LdMoved
  <1>5. L!TypeOK'
    BY <1>1, <1>4 DEF L!TypeOK
  <1>6. L!RequestsOK'
    BY <1>1, <1>2, <1>3, <1>4 DEF L!RequestsOK, L!Exists
  <1>7. \A p \in Requests : leadRequests'[p] = leadRequests[p] \/ leadRequests'[p].pc # "purge"
    BY <1>3, <1>4
  <1>8. L!PurgesMarked' /\ L!AnswersKept'
    BY <1>1, <1>7, LdPurges, LdAnswers
  <1> QED
    BY <1>5, <1>6, <1>8

\* The deletion of one lead of the trash, and of all that are due.
LEMMA LdPurge ==
    ASSUME L!IInv, (\E q \in Requests : L!Purge(q)) \/ L!PurgeOlder
    PROVE  L!IInv'
  <1> USE DEF L!IInv
  <1>1. /\ UNCHANGED <<leadContacts, leadServed, leadWant, leadIgnored, leadCrossed, leadPurged>>
        /\ leadRequests' \in [Requests -> L!Request]
        /\ \A p \in Requests : leadRequests'[p] = leadRequests[p] \/ leadRequests'[p].pc = "idle"
        /\ leadLeads' \in [Leads -> L!Lead \cup {NoLead}]
        /\ \A l \in Leads : leadLeads'[l] \in {leadLeads[l], NoLead}
    <2>1. ASSUME NEW q \in Requests, L!Purge(q)
          PROVE  /\ UNCHANGED <<leadContacts, leadServed, leadWant, leadIgnored, leadCrossed, leadPurged>>
                 /\ leadRequests' \in [Requests -> L!Request]
                 /\ \A p \in Requests : leadRequests'[p] = leadRequests[p] \/ leadRequests'[p].pc = "idle"
                 /\ leadLeads' \in [Leads -> L!Lead \cup {NoLead}]
                 /\ \A l \in Leads : leadLeads'[l] \in {leadLeads[l], NoLead}
      <3>1. L!End(q)
        BY <2>1 DEF L!Purge
      <3>2. leadLeads' \in [Leads -> L!Lead \cup {NoLead}] /\ \A l \in Leads : leadLeads'[l] \in {leadLeads[l], NoLead}
        BY <2>1 DEF L!Purge, L!TypeOK
      <3>3. /\ leadRequests' \in [Requests -> L!Request]
            /\ \A p \in Requests : leadRequests'[p] = leadRequests[p] \/ leadRequests'[p].pc = "idle"
        BY <3>1, LdEnd
      <3> QED
        BY <2>1, <3>2, <3>3 DEF L!Purge
    <2>2. CASE L!PurgeOlder
      BY <2>2 DEF L!PurgeOlder, L!TypeOK
    <2> QED
      BY <2>1, <2>2
  <1>2. L!TypeOK'
    BY <1>1 DEF L!TypeOK
  <1>3. L!RequestsOK'
    BY <1>1, LdRequests
  <1>4. \A p \in Requests : leadRequests'[p] = leadRequests[p] \/ leadRequests'[p].pc # "purge"
    BY <1>1
  <1>5. L!PurgesMarked' /\ L!AnswersKept'
    BY <1>1, <1>4, LdPurges, LdAnswers
  <1> QED
    BY <1>2, <1>3, <1>5

\* The trash: a lead goes in, comes out, or its days there run out.
LEMMA LdTrash ==
    ASSUME L!IInv, NEW l \in Leads, L!SoftDelete(l) \/ L!Restore(l) \/ L!PassRetention(l)
    PROVE  L!IInv'
  <1> USE DEF L!IInv
  <1>1. PICK trash \in {"no", "kept", "due"} :
           /\ leadLeads[l] # NoLead
           /\ leadLeads' = [leadLeads EXCEPT ![l].trash = trash] /\ leadWant' = [leadWant EXCEPT ![l].trash = trash]
           /\ leadServed' = leadServed \/ (leadServed < MaxLeadRequests /\ leadServed' = leadServed + 1)
           /\ leadPurged \subseteq leadPurged' /\ leadPurged' \subseteq leadPurged \cup {l}
           /\ \/ trash # "no" \/ l \in leadPurged'
              \/ \A p \in Requests : ~(leadRequests[p].pc = "purge" /\ leadRequests[p].id = l)
           /\ UNCHANGED <<leadContacts, leadRequests, leadIgnored, leadCrossed>>
    <2>1. CASE L!SoftDelete(l)
      BY <2>1 DEF L!SoftDelete, L!SetTrash, L!Count, L!Found, L!Exists
    <2>2. CASE L!PassRetention(l)
      <3>1. /\ leadLeads[l] # NoLead
            /\ leadLeads' = [leadLeads EXCEPT ![l].trash = "due"] /\ leadWant' = [leadWant EXCEPT ![l].trash = "due"]
            /\ UNCHANGED <<leadContacts, leadRequests, leadServed, leadIgnored, leadCrossed, leadPurged>>
        BY <2>2 DEF L!PassRetention, L!SetTrash, L!Exists
      <3>2. leadPurged \subseteq leadPurged' /\ leadPurged' \subseteq leadPurged \cup {l}
        BY <3>1
      <3> QED
        BY <3>1, <3>2
    <2>3. CASE L!Restore(l)
      <3>1. /\ leadLeads[l] # NoLead
            /\ leadLeads' = [leadLeads EXCEPT ![l].trash = "no"] /\ leadWant' = [leadWant EXCEPT ![l].trash = "no"]
            /\ leadServed < MaxLeadRequests /\ leadServed' = leadServed + 1
            /\ UNCHANGED <<leadContacts, leadRequests, leadIgnored, leadCrossed>>
        BY <2>3 DEF L!Restore, L!SetTrash, L!Count, L!Exists
      <3>2. \/ leadPurged' = leadPurged \cup {l}
            \/ leadPurged' = leadPurged /\ ~ \E p \in Requests : leadRequests[p].pc = "purge" /\ leadRequests[p].id = l
        BY <2>3 DEF L!Restore
      <3> QED
        BY <3>1, <3>2
    <2> QED
      BY <2>1, <2>2, <2>3
  <1> DEFINE row == [leadLeads[l] EXCEPT !.trash = trash]
             wanted == [leadWant[l] EXCEPT !.trash = trash]
  <1>2. leadLeads[l] \in L!Lead /\ leadWant[l] \in L!Lead
    BY <1>1 DEF L!RequestsOK, L!Exists, L!TypeOK
  <1>3. /\ row \in L!Lead /\ wanted \in L!Lead /\ row.trash = trash /\ wanted.trash = trash
        /\ row.status = leadLeads[l].status /\ row.stage = leadLeads[l].stage /\ row.labels = leadLeads[l].labels
        /\ row.contact = leadLeads[l].contact /\ row.assignee = leadLeads[l].assignee
        /\ wanted.status = leadWant[l].status /\ wanted.stage = leadWant[l].stage
        /\ wanted.labels = leadWant[l].labels
        /\ wanted.contact = leadWant[l].contact /\ wanted.assignee = leadWant[l].assignee
    BY <1>2 DEF L!Lead
  <1>4. leadLeads' = [leadLeads EXCEPT ![l] = row] /\ leadWant' = [leadWant EXCEPT ![l] = wanted]
    BY <1>1
  <1> HIDE DEF row, wanted
  <1>5. /\ leadLeads' \in [Leads -> L!Lead \cup {NoLead}] /\ leadWant' \in [Leads -> L!Lead \cup {NoLead}]
        /\ leadLeads'[l] = row /\ leadWant'[l] = wanted
        /\ \A m \in Leads \ {l} : leadLeads'[m] = leadLeads[m] /\ leadWant'[m] = leadWant[m]
    BY <1>3, <1>4 DEF L!TypeOK
  <1>6. leadServed' \in 0..MaxLeadRequests
    BY <1>1, LeadsAssumption DEF L!TypeOK, L!ConstantsOK
  <1>7. L!TypeOK'
    BY <1>1, <1>5, <1>6 DEF L!TypeOK
  <1>8. NoLead \notin L!Lead
    BY LeadsAssumption DEF L!ConstantsOK
  <1>9. L!RequestsOK'
    BY <1>1, <1>3, <1>5, <1>8, LdRequests
  <1>10. L!PurgesMarked'
    <2>1. \/ leadLeads[l] # NoLead /\ (leadLeads[l].trash # "no" => leadLeads'[l].trash # "no")
          \/ l \in leadPurged'
          \/ \A p \in Requests : ~(leadRequests[p].pc = "purge" /\ leadRequests[p].id = l)
      BY <1>1, <1>3, <1>5
    <2> QED
      BY <1>1, <1>5, <2>1, LdPurges
  <1>11. L!AnswersKept'
    <2>1. l \notin leadCrossed => LeadAgrees(leadLeads[l], leadWant[l], l, leadIgnored)
      BY <1>1, LdAgrees
    <2>2. l \notin leadCrossed => LeadAgrees(row, wanted, l, leadIgnored)
      BY <1>3, <2>1 DEF LeadAgrees
    <2> QED
      BY <1>1, <1>5, <2>2, LdAnswers
  <1> QED
    BY <1>7, <1>9, <1>10, <1>11

\* A contact is saved with the leads it was read with.
LEMMA LdSaveContact ==
    ASSUME L!IInv, NEW q \in Requests, L!SaveContact(q)
    PROVE  L!IInv'
  <1> USE DEF L!IInv
  <1> DEFINE c == leadRequests[q].contact
             joined == L!LeadsOf(c) \ leadRequests[q].leads
             left == {l \in leadRequests[q].leads : leadLeads[l] # NoLead /\ leadLeads[l].contact # c}
  <1>1. /\ leadRequests[q].pc = "contact"
        /\ leadContacts' = leadContacts \cup {c}
        /\ leadLeads' = [l \in Leads |-> IF l \in joined THEN [leadLeads[l] EXCEPT !.contact = None]
                                         ELSE IF l \in left THEN [leadLeads[l] EXCEPT !.contact = c]
                                         ELSE leadLeads[l]]
        /\ leadCrossed' = leadCrossed \cup joined \cup left
        /\ L!End(q)
        /\ UNCHANGED <<leadServed, leadWant, leadIgnored, leadPurged>>
    BY DEF L!SaveContact, L!Exists
  <1>2. /\ c \in Contacts
        /\ \A l \in joined : l \in Leads /\ leadLeads[l] \in L!Lead
        /\ \A l \in left : l \in Leads /\ leadLeads[l] \in L!Lead
    <2>1. leadRequests[q].leads \subseteq Leads
      BY DEF L!TypeOK, L!Request
    <2> QED
      BY <1>1, <2>1 DEF L!RequestsOK, L!TypeOK, L!LeadsOf, L!Found, L!Exists
  <1> HIDE DEF c
  <1> HIDE DEF joined, left
  <1>3. ASSUME NEW row \in L!Lead, NEW d \in Contacts \cup {None}
        PROVE  [row EXCEPT !.contact = d] \in L!Lead
    BY DEF L!Lead
  <1>4. /\ leadLeads' \in [Leads -> L!Lead \cup {NoLead}]
        /\ \A l \in Leads \ (joined \cup left) : leadLeads'[l] = leadLeads[l]
    BY <1>1, <1>2, <1>3 DEF L!TypeOK
  <1>5. \A l \in Leads : leadLeads'[l] # NoLead => leadLeads[l] # NoLead
    <2>1. NoLead \notin L!Lead
      BY LeadsAssumption DEF L!ConstantsOK
    <2> QED
      BY <1>2, <1>4, <2>1
  <1>6. /\ leadRequests' \in [Requests -> L!Request] /\ leadRequests'[q].pc = "idle"
        /\ \A p \in Requests \ {q} : leadRequests'[p] = leadRequests[p]
    BY <1>1, LdEnd
  <1>7. L!TypeOK'
    BY <1>1, <1>2, <1>4, <1>6 DEF L!TypeOK
  <1>8. L!RequestsOK'
    BY <1>1, <1>5, <1>6, LdRequests
  <1>9. \A l \in Leads : l \in leadCrossed' \/ leadLeads'[l] = leadLeads[l]
    BY <1>1, <1>4
  <1>10. \A p \in Requests : leadRequests'[p] = leadRequests[p] \/ leadRequests'[p].pc # "purge"
    BY <1>6
  <1>11. L!PurgesMarked'
    <2>1. leadPurged \subseteq leadPurged' /\ leadCrossed \subseteq leadCrossed'
      BY <1>1
    <2> QED
      BY <1>9, <1>10, <2>1, LdPurges
  <1>12. L!AnswersKept'
    BY <1>1, <1>9, LdAnswers
  <1> QED
    BY <1>7, <1>8, <1>11, <1>12

\* A contact is deleted: its leads first, what joined it meanwhile later.
LEMMA LdDeleteLeadsOf ==
    ASSUME L!IInv, NEW q \in Requests, NEW c \in Contacts, L!DeleteLeadsOf(q, c)
    PROVE  L!IInv'
  <1> USE DEF L!IInv
  <1> DEFINE r == [L!Idle EXCEPT !.pc = "delete", !.contact = c]
             gone == {l \in Leads : leadLeads[l] # NoLead /\ leadLeads[l].contact = c}
  <1>1. /\ leadRequests' = [leadRequests EXCEPT ![q] = r]
        /\ leadServed < MaxLeadRequests /\ leadServed' = leadServed + 1
        /\ leadLeads' = [l \in Leads |-> IF l \in gone THEN NoLead ELSE leadLeads[l]]
        /\ leadPurged' = leadPurged \cup gone
        /\ UNCHANGED <<leadContacts, leadWant, leadIgnored, leadCrossed>>
    BY DEF L!DeleteLeadsOf, L!Arrive, L!Exists
  <1>2. r \in L!Request /\ r.pc = "delete" /\ r.contact = c
    BY LdIdle DEF L!Request
  <1>3. gone \subseteq Leads
    OBVIOUS
  <1> HIDE DEF r, gone
  <1>4. /\ leadRequests' \in [Requests -> L!Request] /\ leadRequests'[q] = r
        /\ \A p \in Requests \ {q} : leadRequests'[p] = leadRequests[p]
    BY <1>1, <1>2, LdMoved
  <1>5. /\ leadLeads' \in [Leads -> L!Lead \cup {NoLead}]
        /\ \A l \in Leads : leadLeads'[l] \in {leadLeads[l], NoLead}
    BY <1>1 DEF L!TypeOK
  <1>6. leadServed' \in 0..MaxLeadRequests
    BY <1>1, LeadsAssumption DEF L!TypeOK, L!ConstantsOK
  <1>7. L!TypeOK'
    BY <1>1, <1>3, <1>4, <1>5, <1>6 DEF L!TypeOK
  <1>8. L!RequestsOK'
    BY <1>1, <1>2, <1>4, <1>5 DEF L!RequestsOK, L!Exists
  <1>9. \A p \in Requests : leadRequests'[p] = leadRequests[p] \/ leadRequests'[p].pc # "purge"
    BY <1>2, <1>4
  <1>10. L!PurgesMarked' /\ L!AnswersKept'
    BY <1>1, <1>5, <1>9, LdPurges, LdAnswers
  <1> QED
    BY <1>7, <1>8, <1>10

LEMMA LdDeleteContact ==
    ASSUME L!IInv, NEW q \in Requests, L!DeleteContact(q)
    PROVE  L!IInv'
  <1> USE DEF L!IInv
  <1> DEFINE c == leadRequests[q].contact
  <1>1. /\ leadRequests[q].pc = "delete"
        /\ leadContacts' = leadContacts \ {c}
        /\ leadLeads' = [l \in Leads |-> IF leadLeads[l] # NoLead /\ leadLeads[l].contact = c
                                         THEN [leadLeads[l] EXCEPT !.contact = None] ELSE leadLeads[l]]
        /\ leadWant' = [l \in Leads |-> IF leadWant[l] # NoLead /\ leadWant[l].contact = c
                                        THEN [leadWant[l] EXCEPT !.contact = None] ELSE leadWant[l]]
        /\ L!End(q)
        /\ UNCHANGED <<leadServed, leadIgnored, leadCrossed, leadPurged>>
    BY DEF L!DeleteContact, L!Exists
  <1> HIDE DEF c
  <1>2. ASSUME NEW row \in L!Lead
        PROVE  /\ [row EXCEPT !.contact = None] \in L!Lead
               /\ [row EXCEPT !.contact = None].status = row.status
               /\ [row EXCEPT !.contact = None].stage = row.stage
               /\ [row EXCEPT !.contact = None].labels = row.labels
               /\ [row EXCEPT !.contact = None].trash = row.trash
               /\ [row EXCEPT !.contact = None].assignee = row.assignee
               /\ [row EXCEPT !.contact = None].contact = None
    BY DEF L!Lead
  <1>3. NoLead \notin L!Lead
    BY LeadsAssumption DEF L!ConstantsOK
  <1>4. ASSUME NEW l \in Leads
        PROVE  /\ leadLeads[l] # NoLead => leadLeads[l] \in L!Lead
               /\ leadWant[l] # NoLead => leadWant[l] \in L!Lead
    BY DEF L!TypeOK
  <1>5. /\ leadLeads' \in [Leads -> L!Lead \cup {NoLead}] /\ leadWant' \in [Leads -> L!Lead \cup {NoLead}]
        /\ \A l \in Leads : (leadLeads'[l] # NoLead <=> leadLeads[l] # NoLead)
                            /\ (leadWant'[l] # NoLead <=> leadWant[l] # NoLead)
    BY <1>1, <1>2, <1>3, <1>4
  <1>6. /\ leadRequests' \in [Requests -> L!Request] /\ leadRequests'[q].pc = "idle"
        /\ \A p \in Requests \ {q} : leadRequests'[p] = leadRequests[p]
    BY <1>1, LdEnd
  <1>7. L!TypeOK'
    BY <1>1, <1>5, <1>6 DEF L!TypeOK
  <1>8. L!RequestsOK'
    BY <1>5, <1>6, LdRequests
  <1>9. L!PurgesMarked'
    <2>1. \A l \in Leads : leadLeads[l] # NoLead => leadLeads'[l].trash = leadLeads[l].trash
      BY <1>1, <1>2, <1>4
    <2>2. \A p \in Requests : leadRequests'[p] = leadRequests[p] \/ leadRequests'[p].pc # "purge"
      BY <1>6
    <2> QED
      BY <1>1, <1>5, <2>1, <2>2, LdPurges
  <1>10. L!AnswersKept'
    <2>1. ASSUME NEW l \in Leads, leadLeads'[l] # NoLead, l \notin leadCrossed'
          PROVE  LeadAgrees(leadLeads'[l], leadWant'[l], l, leadIgnored')
      <3>1. /\ leadLeads[l] # NoLead /\ leadLeads[l] \in L!Lead /\ leadWant[l] # NoLead /\ leadWant[l] \in L!Lead
            /\ LeadAgrees(leadLeads[l], leadWant[l], l, leadIgnored)
        BY <1>1, <1>4, <1>5, <2>1, LdAgrees DEF L!RequestsOK, L!Exists
      <3>2. leadLeads'[l] = IF leadLeads[l].contact = c THEN [leadLeads[l] EXCEPT !.contact = None] ELSE leadLeads[l]
        BY <1>1, <3>1
      <3>3. leadWant'[l] = IF leadWant[l].contact = c THEN [leadWant[l] EXCEPT !.contact = None] ELSE leadWant[l]
        BY <1>1, <3>1
      <3>4. /\ leadLeads'[l].status = leadLeads[l].status /\ leadWant'[l].status = leadWant[l].status
            /\ leadLeads'[l].stage = leadLeads[l].stage /\ leadWant'[l].stage = leadWant[l].stage
            /\ leadLeads'[l].labels = leadLeads[l].labels /\ leadWant'[l].labels = leadWant[l].labels
            /\ leadLeads'[l].trash = leadLeads[l].trash /\ leadWant'[l].trash = leadWant[l].trash
            /\ leadLeads'[l].assignee = leadLeads[l].assignee /\ leadWant'[l].assignee = leadWant[l].assignee
            /\ leadLeads'[l].contact = IF leadLeads[l].contact = c THEN None ELSE leadLeads[l].contact
            /\ leadWant'[l].contact = IF leadWant[l].contact = c THEN None ELSE leadWant[l].contact
        BY <1>2, <3>1, <3>2, <3>3
      <3> QED
        BY <1>1, <3>1, <3>4 DEF LeadAgrees
    <2> QED
      BY <1>1, <2>1, LdAnswers
  <1> QED
    BY <1>7, <1>8, <1>9, <1>10

LEMMA LdInit == L!Init => L!IInv
  <1> SUFFICES ASSUME L!Init PROVE L!IInv
    OBVIOUS
  <1> USE LdIdle, LeadsAssumption DEF L!ConstantsOK, L!Init
  <1>1. L!TypeOK
    <2>1. leadRequests \in [Requests -> L!Request] /\ leadServed \in 0..MaxLeadRequests
      OBVIOUS
    <2> QED
      BY <2>1 DEF L!TypeOK
  <1>2. L!RequestsOK /\ L!PurgesMarked /\ L!AnswersKept
    BY DEF L!RequestsOK, L!PurgesMarked, L!AnswersKept, L!Exists
  <1> QED
    BY <1>1, <1>2 DEF L!IInv

LEMMA LdNext == L!IInv /\ [L!Next]_(L!vars) => L!IInv'
  <1>1. ASSUME L!IInv, L!Next PROVE L!IInv'
    <2> USE <1>1
    <2>1. ASSUME NEW q \in Requests, L!Step(q)
          PROVE  L!IInv'
      BY <2>1, LdSave, LdWrite, LdScore, LdPurge, LdSaveContact, LdDeleteContact DEF L!Step
    <2> QED
      BY <2>1, LdCreate, LdReads, LdTrash, LdPurge, LdDeleteLeadsOf DEF L!Next
  <1>2. ASSUME L!IInv, UNCHANGED L!vars PROVE L!IInv'
    <2> USE <1>2 DEF L!IInv, L!vars
    <2>1. L!TypeOK' /\ L!RequestsOK' /\ L!PurgesMarked' /\ L!AnswersKept'
      BY DEF L!TypeOK, L!RequestsOK, L!PurgesMarked, L!AnswersKept, L!Exists
    <2> QED
      BY <2>1
  <1> QED
    BY <1>1, <1>2

\* The step of the office that is a step of the leads, or none of theirs.
LEMMA LdStep == [OfficeNext]_officeVars => [L!Next]_(L!vars)
  BY DEF OfficeNext, officeVars, L!vars, leadVars, AccountsStep, SignupStep, CodesStep, AgendasStep,
     CatalogueStep, PlansStep, LeadsStep

LEMMA LdInvariant == OfficeSpec => []L!IInv
  <1>1. OfficeInit => L!IInv
    BY LdInit DEF OfficeInit
  <1> QED
    BY <1>1, LdNext, LdStep, PTL DEF OfficeSpec

\* Leads: whatever requests interleave on a lead and its contact (LeadsService,
\* ContactsService, TrashService), every answered change is in its row, but for the writes
\* from an older copy and the relations that were loaded.
THEOREM AnswersAlwaysKept == OfficeSpec => []AnswersKept
  <1>1. L!IInv => AnswersKept
    BY DEF L!IInv, AnswersKept
  <1> QED
    BY <1>1, LdInvariant, PTL

\* One step deletes a lead that is not in the trash only with its contact, or after a
\* restoration that the purge did not see.
LEMMA LdDeleted == L!IInv /\ [L!Next]_(L!vars) =>
    [\A l \in Leads : L!Exists(l) /\ leadLeads'[l] = NoLead
                      => leadLeads[l].trash # "no" \/ l \in leadPurged' \/ l \in leadCrossed]_(L!vars)
  <1> SUFFICES ASSUME L!IInv, L!Next, NEW l \in Leads, leadLeads[l] # NoLead, leadLeads'[l] = NoLead
               PROVE  leadLeads[l].trash # "no" \/ l \in leadPurged' \/ l \in leadCrossed
    BY DEF L!Exists
  <1> USE DEF L!IInv
  <1>0. NoLead \notin L!Lead
    BY LeadsAssumption DEF L!ConstantsOK
  <1>1. CASE UNCHANGED leadLeads
    BY <1>1
  <1>2. ASSUME NEW m \in Leads, NEW row \in L!Lead, leadLeads' = [leadLeads EXCEPT ![m] = row]
        PROVE  FALSE
    BY <1>0, <1>2 DEF L!TypeOK
  <1>3. ASSUME NEW m \in Leads, NEW c \in Contacts \cup {None}, NEW u \in Assignees \cup {None}, NEW s \in LeadStages,
               L!Create(m, c, u, s)
        PROVE  FALSE
    <2> DEFINE row == [contact |-> c, assignee |-> u, status |-> "active",
                       stage |-> s, labels |-> {}, trash |-> "no"]
    <2>1. row \in L!Lead
      BY LeadsAssumption DEF L!Lead, L!ConstantsOK
    <2>2. leadLeads' = [leadLeads EXCEPT ![m] = row]
      BY <1>3 DEF L!Create
    <2> HIDE DEF row
    <2> QED
      BY <1>2, <2>1, <2>2
  <1>4. ASSUME NEW m \in Leads, L!SoftDelete(m) \/ L!Restore(m) \/ L!PassRetention(m)
        PROVE  FALSE
    <2>1. PICK trash \in {"no", "kept", "due"} :
             leadLeads[m] # NoLead /\ leadLeads' = [leadLeads EXCEPT ![m].trash = trash]
      BY <1>4 DEF L!SoftDelete, L!Restore, L!PassRetention, L!SetTrash, L!Found, L!Exists
    <2> DEFINE row == [leadLeads[m] EXCEPT !.trash = trash]
    <2>2. row \in L!Lead
      <3>1. leadLeads[m] \in L!Lead
        BY <2>1 DEF L!TypeOK
      <3> QED
        BY <3>1 DEF L!Lead
    <2>3. leadLeads' = [leadLeads EXCEPT ![m] = row]
      BY <2>1
    <2> HIDE DEF row
    <2> QED
      BY <1>2, <2>2, <2>3
  <1>5. ASSUME NEW q \in Requests, L!Save(q)
        PROVE  FALSE
    <2>1. PICK saved \in L!Lead, m \in Leads :
              UNCHANGED leadLeads \/ leadLeads' = [leadLeads EXCEPT ![m] = saved]
      BY <1>5, LdSaved, ZenonT(60)
    <2> QED
      BY <1>1, <1>2, <2>1
  <1>6. ASSUME NEW q \in Requests, L!Write(q)
        PROVE  FALSE
    <2>1. /\ leadRequests[q].id \in Leads /\ leadRequests[q].change \in L!Change
          /\ \/ UNCHANGED leadLeads
             \/ /\ leadLeads[leadRequests[q].id] # NoLead
                /\ leadLeads' = [leadLeads EXCEPT ![leadRequests[q].id] =
                                     L!Apply(leadLeads[leadRequests[q].id], leadRequests[q].change)]
      BY <1>6 DEF L!Write, L!Exists, L!RequestsOK, L!TypeOK, L!Request
    <2>2. CASE UNCHANGED leadLeads
      BY <2>2
    <2>3. CASE leadLeads[leadRequests[q].id] # NoLead
      <3>1. L!Apply(leadLeads[leadRequests[q].id], leadRequests[q].change) \in L!Lead
        <4>1. leadLeads[leadRequests[q].id] \in L!Lead
          BY <2>1, <2>3 DEF L!TypeOK
        <4> QED
          BY <2>1, <4>1, LdApply
      <3> QED
        BY <1>2, <2>1, <3>1
    <2> QED
      BY <2>1, <2>2, <2>3
  <1>7. ASSUME NEW q \in Requests, L!Purge(q)
        PROVE  leadLeads[l].trash # "no" \/ l \in leadPurged' \/ l \in leadCrossed
    <2>1. leadRequests[q].pc = "purge" /\ leadRequests[q].id = l /\ UNCHANGED leadPurged
      BY <1>7 DEF L!Purge, L!TypeOK
    <2> QED
      BY <2>1 DEF L!PurgesMarked, L!Exists
  <1>8. ASSUME L!PurgeOlder
        PROVE  leadLeads[l].trash # "no"
    BY <1>8 DEF L!PurgeOlder
  <1>9. ASSUME NEW q \in Requests, L!SaveContact(q)
        PROVE  FALSE
    <2>1. leadLeads'[l] = leadLeads[l] \/ \E d \in Contacts \cup {None} : leadLeads'[l] = [leadLeads[l] EXCEPT !.contact = d]
      <3>1. leadRequests[q].contact \in Contacts
        BY <1>9 DEF L!SaveContact, L!RequestsOK
      <3> QED
        BY <1>9, <3>1 DEF L!SaveContact
    <2>2. leadLeads[l] \in L!Lead
      BY DEF L!TypeOK
    <2>3. \A d \in Contacts \cup {None} : [leadLeads[l] EXCEPT !.contact = d] \in L!Lead
      BY <2>2 DEF L!Lead
    <2> QED
      BY <1>0, <2>1, <2>2, <2>3
  <1>10. ASSUME NEW q \in Requests, L!DeleteContact(q)
         PROVE  FALSE
    <2>1. leadLeads'[l] = leadLeads[l] \/ leadLeads'[l] = [leadLeads[l] EXCEPT !.contact = None]
      BY <1>10 DEF L!DeleteContact
    <2>2. leadLeads[l] \in L!Lead
      BY DEF L!TypeOK
    <2>3. [leadLeads[l] EXCEPT !.contact = None] \in L!Lead
      BY <2>2 DEF L!Lead
    <2> QED
      BY <1>0, <2>1, <2>2, <2>3
  <1>11. ASSUME NEW q \in Requests, NEW c \in Contacts, L!DeleteLeadsOf(q, c)
         PROVE  l \in leadPurged'
    BY <1>11 DEF L!DeleteLeadsOf, L!Exists
  <1>12. ASSUME NEW q \in Requests,
                \/ \E m \in Leads, change \in L!Change :
                      \/ change.field \in {"contact", "assignee", "none"} /\ L!ReadLead(q, m, change)
                      \/ change.field \in {"add", "drop"} /\ L!ReadForLabels(q, m, change)
                      \/ change.field \in {"status", "stage"} /\ L!ReadForWrite(q, m, change)
                \/ \E m \in Leads : L!ReadForPurge(q, m)
                \/ \E c \in Contacts : L!ReadContact(q, c)
                \/ L!ReadForScore(q)
         PROVE  UNCHANGED leadLeads
    BY <1>12 DEF L!ReadLead, L!ReadForLabels, L!ReadForWrite, L!ReadForPurge, L!ReadContact, L!ReadForScore
  <1>13. ASSUME NEW q \in Requests, L!Step(q)
         PROVE  leadLeads[l].trash # "no" \/ l \in leadPurged' \/ l \in leadCrossed
    BY <1>1, <1>5, <1>6, <1>7, <1>9, <1>10, <1>12, <1>13 DEF L!Step
  <1> QED
    BY <1>1, <1>3, <1>4, <1>8, <1>11, <1>12, <1>13 DEF L!Next
=============================================================================
