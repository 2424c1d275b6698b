------------------------- MODULE UserService_proofs -------------------------
(***************************************************************************)
(* Proofs about module UserService, for any calls of add_user, any uses of *)
(* profiles and any number of faults: its types, that a login is stored    *)
(* twice only by calls that overlap, that a user is stored before its      *)
(* profile, and that an undisturbed update is found.                       *)
(***************************************************************************)
EXTENDS UserService, TLAPS

\* Each action leaves the module's types intact (user.py:27-236).
THEOREM Types == Spec => []TypeOK
<1>1. Init => TypeOK
  BY UserAssumption DEF Init, TypeOK, AddSteps, UseSteps, Ends, Fields
<1>2. TypeOK /\ [Next]_vars => TypeOK'
  <2> SUFFICES ASSUME TypeOK, [Next]_vars PROVE TypeOK'
    OBVIOUS
  <2> USE UserAssumption DEF TypeOK, AddSteps, UseSteps, Ends, Fields, Goto
  <2>1. ASSUME NEW a \in Adds, AddUser(a) PROVE TypeOK'
    BY <2>1 DEF AddUser
  <2>2. ASSUME NEW a \in Adds, Check(a) PROVE TypeOK'
    BY <2>2 DEF Check
  <2>3. ASSUME NEW a \in Adds, PutUser(a) PROVE TypeOK'
    BY <2>3 DEF PutUser
  <2>4. ASSUME NEW a \in Adds, PutProfile(a) PROVE TypeOK'
    BY <2>4 DEF PutProfile
  <2>5. ASSUME NEW u \in Uses, Use(u) PROVE TypeOK'
    BY <2>5 DEF Use
  <2>6. ASSUME NEW u \in Uses, Where(u) PROVE TypeOK'
    BY <2>6 DEF Where
  <2>7. ASSUME NEW u \in Uses, Cache(u) PROVE TypeOK'
    BY <2>7 DEF Cache
  <2>8. ASSUME NEW u \in Uses, Get(u) PROVE TypeOK'
    BY <2>8 DEF Get
  <2>9. ASSUME NEW u \in Uses, NEW v \in Fields, Update(u, v) PROVE TypeOK'
    BY <2>9 DEF Update
  <2>10. ASSUME NEW u \in Uses, Put(u) PROVE TypeOK'
    BY <2>10 DEF Put
  <2>11. ASSUME NEW c \in Adds \cup Uses, Fail(c) PROVE TypeOK'
    BY <2>11 DEF Fail, UnderWay
  <2>12. CASE Restart
    BY <2>12 DEF Restart, UnderWay
  <2>13. CASE UNCHANGED vars
    BY <2>13 DEF vars
  <2> QED
    BY <2>1, <2>2, <2>3, <2>4, <2>5, <2>6, <2>7, <2>8, <2>9, <2>10, <2>11, <2>12, <2>13
    DEF Next, Step
<1> QED
  BY <1>1, <1>2, PTL DEF Spec

-----------------------------------------------------------------------------
(* The login is free when add_user has looked, as far as the users go that *)
(* were there when it was called; they never vanish.                       *)

Unchecked == {"idle", "check", "exists"}

LoginInv ==
  \A a \in Adds : /\ before[a] \subseteq users
                  /\ pc[a] = "idle" => before[a] = {}
                  /\ a \in users => pc[a] \notin Unchecked
                  /\ pc[a] \in {"put_user", "put_user_again"} \/ a \in users =>
                       \A b \in before[a] : login[b] # login[a]

LEMMA LoginInvariant == Spec => []LoginInv
<1>1. Init => LoginInv
  BY DEF Init, LoginInv, Unchecked
<1>2. TypeOK /\ LoginInv /\ [Next]_vars => LoginInv'
  <2> SUFFICES ASSUME TypeOK, LoginInv, [Next]_vars PROVE LoginInv'
    OBVIOUS
  <2> USE DEF TypeOK, LoginInv, Unchecked, Goto
  <2>1. ASSUME NEW a \in Adds, AddUser(a) PROVE LoginInv'
    BY <2>1 DEF AddUser
  <2>2. ASSUME NEW a \in Adds, Check(a) PROVE LoginInv'
    BY <2>2 DEF Check
  <2>3. ASSUME NEW a \in Adds, PutUser(a) PROVE LoginInv'
    BY <2>3 DEF PutUser
  <2>4. ASSUME NEW a \in Adds, PutProfile(a) PROVE LoginInv'
    BY <2>4 DEF PutProfile
  <2>5. ASSUME NEW u \in Uses, Use(u) \/ Step(u) PROVE LoginInv'
    <3>1. /\ UNCHANGED <<users, before, login>>
          /\ \A a \in Adds : pc'[a] = pc[a]
      BY <2>5, UserAssumption DEF Use, Step, Where, Cache, Get, Update, Put
    <3> QED
      BY <3>1
  <2>6. ASSUME NEW c \in Adds \cup Uses, Fail(c) PROVE LoginInv'
    BY <2>6, UserAssumption DEF Fail, UnderWay, AddSteps, UseSteps, Ends
  <2>7. CASE Restart
    BY <2>7 DEF Restart, UnderWay, Ends
  <2>8. CASE UNCHANGED vars
    BY <2>8 DEF vars
  <2> QED
    BY <2>1, <2>2, <2>3, <2>4, <2>5, <2>6, <2>7, <2>8 DEF Next, Step
<1> QED
  BY <1>1, <1>2, Types, PTL DEF Spec

\* Once a user is stored no later add_user stores another of its login
\* (user.py:29-38).
THEOREM NoLoginTwice == Spec => []LoginTwiceOnlyByOverlap
<1>1. TypeOK /\ LoginInv => LoginTwiceOnlyByOverlap
  BY DEF TypeOK, LoginInv, LoginTwiceOnlyByOverlap
<1> QED
  BY <1>1, LoginInvariant, Types, PTL

-----------------------------------------------------------------------------
(* How far each add_user has come, and that a use of a profile past where  *)
(* has found one.                                                          *)

StageInv ==
  /\ \A a \in Adds :
       /\ pc[a] \in {"put_user_again", "put_profile", "put_profile_again", "ok"} => a \in users
       /\ pc[a] \in {"put_profile_again", "ok"} => profile[a] # None
       /\ profile[a] # None => a \in users
       /\ a \in users /\ profile[a] = None =>
            pc[a] \in {"put_user_again", "put_profile", "failed", "stopped"}
  /\ \A u \in Uses : pc[u] \in {"cache", "update", "put"} => profile[target[u]] # None

LEMMA StageInvariant == Spec => []StageInv
<1>1. Init => StageInv
  BY UserAssumption DEF Init, StageInv
<1>2. TypeOK /\ StageInv /\ [Next]_vars => StageInv'
  <2> SUFFICES ASSUME TypeOK, StageInv, [Next]_vars PROVE StageInv'
    OBVIOUS
  <2> USE UserAssumption DEF TypeOK, StageInv, Goto, AddSteps, UseSteps, Ends, Fields
  <2>1. ASSUME NEW a \in Adds, AddUser(a) PROVE StageInv'
    BY <2>1 DEF AddUser
  <2>2. ASSUME NEW a \in Adds, Check(a) PROVE StageInv'
    BY <2>2 DEF Check
  <2>3. ASSUME NEW a \in Adds, PutUser(a) PROVE StageInv'
    BY <2>3 DEF PutUser
  <2>4. ASSUME NEW a \in Adds, PutProfile(a) PROVE StageInv'
    BY <2>4 DEF PutProfile
  <2>5. ASSUME NEW u \in Uses, Use(u) PROVE StageInv'
    BY <2>5 DEF Use
  <2>6. ASSUME NEW u \in Uses, Where(u) PROVE StageInv'
    BY <2>6 DEF Where
  <2>7. ASSUME NEW u \in Uses, Cache(u) \/ Get(u) PROVE StageInv'
    BY <2>7 DEF Cache, Get
  <2>8. ASSUME NEW u \in Uses, NEW v \in Fields, Update(u, v) PROVE StageInv'
    BY <2>8 DEF Update
  <2>9. ASSUME NEW u \in Uses, Put(u) PROVE StageInv'
    BY <2>9 DEF Put
  <2>10. ASSUME NEW c \in Adds \cup Uses, Fail(c) PROVE StageInv'
    BY <2>10 DEF Fail, UnderWay
  <2>11. CASE Restart
    BY <2>11 DEF Restart, UnderWay
  <2>12. CASE UNCHANGED vars
    BY <2>12 DEF vars
  <2> QED
    BY <2>1, <2>2, <2>3, <2>4, <2>5, <2>6, <2>7, <2>8, <2>9, <2>10, <2>11, <2>12
    DEF Next, Step
<1> QED
  BY <1>1, <1>2, Types, PTL DEF Spec

\* A profile has its user, an answered add_user has stored both, and a user
\* without profile is left by a call that failed or was stopped
\* (user.py:46-85).
THEOREM UserComesFirst == Spec => []UserBeforeProfile
<1>1. StageInv => UserBeforeProfile
  BY DEF StageInv, UserBeforeProfile
<1> QED
  BY <1>1, StageInvariant, PTL

-----------------------------------------------------------------------------
(* Who is about the same user, and whose instances there are.  A call that *)
(* is solo has its user to itself while it is under way, so the instance   *)
(* it works on is the cached one.                                          *)

Subject(c) == IF c \in Adds THEN c ELSE target[c]

SoloInv ==
  /\ \A u \in Uses : pc[u] # "idle" => target[u] \in users
  /\ \A c \in solo : pc[c] # "idle"
  /\ \A c \in solo \cap UnderWay : \A d \in UnderWay : Subject(d) = Subject(c) => d = c
  /\ \A a \in Adds, u \in Uses : a \in solo /\ pc[a] \in AddSteps /\ target[u] = a => pc[u] = "idle"

InstanceInv ==
  /\ \A a \in Adds : cached[a] # None => /\ target[cached[a]] = a
                                         /\ pc[cached[a]] \notin {"idle", "where"}
  /\ \A u \in Uses : held[u] # None => /\ target[held[u]] = target[u]
                                       /\ pc[held[u]] \notin {"idle", "where"}
  /\ \A u \in Uses : u \in solo /\ pc[u] \in {"update", "put"} => cached[target[u]] = held[u]

\* While what a profile should be is known, nobody is about to change it, and
\* its record and all instances that are used have it.
ExpectedInv ==
  \A a \in Adds : expected[a] # Anything =>
    /\ pc[a] \notin {"idle"} \cup AddSteps
    /\ profile[a] = expected[a]
    /\ cached[a] # None => inst[cached[a]] = expected[a]
    /\ \A u \in Uses : target[u] = a =>
         /\ pc[u] # "put"
         /\ pc[u] = "cache" => inst[u] = expected[a]
         /\ pc[u] = "update" => inst[held[u]] = expected[a]

LEMMA SoloInvariant == Spec => []SoloInv
<1>1. Init => SoloInv
  BY UserAssumption DEF Init, SoloInv, Subject, UnderWay
<1>2. TypeOK /\ LoginInv /\ SoloInv /\ [Next]_vars => SoloInv'
  <2> SUFFICES ASSUME TypeOK, LoginInv, SoloInv, [Next]_vars PROVE SoloInv'
    OBVIOUS
  <2> USE UserAssumption DEF SoloInv, Subject, UnderWay, TypeOK, Goto, AddSteps, UseSteps, Ends, Fields, LoginInv, Unchecked
  <2>1. ASSUME NEW a \in Adds, AddUser(a) PROVE SoloInv'
    BY <2>1 DEF AddUser, About
  <2>2. ASSUME NEW a \in Adds, Check(a) PROVE SoloInv'
    BY <2>2 DEF Check
  <2>3. ASSUME NEW a \in Adds, PutUser(a) PROVE SoloInv'
    BY <2>3 DEF PutUser
  <2>4. ASSUME NEW a \in Adds, PutProfile(a) PROVE SoloInv'
    BY <2>4 DEF PutProfile
  <2>5. ASSUME NEW u \in Uses, Use(u) PROVE SoloInv'
    BY <2>5 DEF Use, About
  <2>6. ASSUME NEW u \in Uses, Where(u) PROVE SoloInv'
    BY <2>6 DEF Where
  <2>7. ASSUME NEW u \in Uses, Cache(u) PROVE SoloInv'
    BY <2>7 DEF Cache
  <2>8. ASSUME NEW u \in Uses, Get(u) PROVE SoloInv'
    BY <2>8 DEF Get
  <2>9. ASSUME NEW u \in Uses, NEW v \in Fields, Update(u, v) PROVE SoloInv'
    BY <2>9 DEF Update
  <2>10. ASSUME NEW u \in Uses, Put(u) PROVE SoloInv'
    BY <2>10 DEF Put
  <2>11. ASSUME NEW c \in Adds \cup Uses, Fail(c) PROVE SoloInv'
    BY <2>11 DEF Fail
  <2>12. CASE Restart
    BY <2>12 DEF Restart
  <2>13. CASE UNCHANGED vars
    BY <2>13 DEF vars
  <2> QED
    BY <2>1, <2>2, <2>3, <2>4, <2>5, <2>6, <2>7, <2>8, <2>9, <2>10, <2>11, <2>12, <2>13 DEF Next, Step
<1> QED
  BY <1>1, <1>2, Types, LoginInvariant, PTL DEF Spec

LEMMA InstanceInvariant == Spec => []InstanceInv
<1>1. Init => InstanceInv
  BY UserAssumption DEF Init, InstanceInv
<1>2. TypeOK /\ SoloInv /\ InstanceInv /\ [Next]_vars => InstanceInv'
  <2> SUFFICES ASSUME TypeOK, SoloInv, InstanceInv, [Next]_vars PROVE InstanceInv'
    OBVIOUS
  <2> USE UserAssumption DEF InstanceInv, TypeOK, Goto, AddSteps, UseSteps, Ends, Fields, SoloInv, Subject, UnderWay
  <2>1. ASSUME NEW a \in Adds, AddUser(a) PROVE InstanceInv'
    BY <2>1 DEF AddUser, About
  <2>2. ASSUME NEW a \in Adds, Check(a) PROVE InstanceInv'
    BY <2>2 DEF Check
  <2>3. ASSUME NEW a \in Adds, PutUser(a) PROVE InstanceInv'
    BY <2>3 DEF PutUser
  <2>4. ASSUME NEW a \in Adds, PutProfile(a) PROVE InstanceInv'
    BY <2>4 DEF PutProfile
  <2>5. ASSUME NEW u \in Uses, Use(u) PROVE InstanceInv'
    BY <2>5 DEF Use, About
  <2>6. ASSUME NEW u \in Uses, Where(u) PROVE InstanceInv'
    BY <2>6 DEF Where
  <2>7. ASSUME NEW u \in Uses, Cache(u) PROVE InstanceInv'
    BY <2>7 DEF Cache
  <2>8. ASSUME NEW u \in Uses, Get(u) PROVE InstanceInv'
    BY <2>8 DEF Get
  <2>9. ASSUME NEW u \in Uses, NEW v \in Fields, Update(u, v) PROVE InstanceInv'
    BY <2>9 DEF Update
  <2>10. ASSUME NEW u \in Uses, Put(u) PROVE InstanceInv'
    BY <2>10 DEF Put
  <2>11. ASSUME NEW c \in Adds \cup Uses, Fail(c) PROVE InstanceInv'
    BY <2>11 DEF Fail
  <2>12. CASE Restart
    BY <2>12 DEF Restart
  <2>13. CASE UNCHANGED vars
    BY <2>13 DEF vars
  <2> QED
    BY <2>1, <2>2, <2>3, <2>4, <2>5, <2>6, <2>7, <2>8, <2>9, <2>10, <2>11, <2>12, <2>13 DEF Next, Step
<1> QED
  BY <1>1, <1>2, Types, SoloInvariant, PTL DEF Spec

LEMMA ExpectedInvariant == Spec => []ExpectedInv
<1>1. Init => ExpectedInv
  BY UserAssumption DEF Init, ExpectedInv
<1>2. TypeOK /\ LoginInv /\ SoloInv /\ InstanceInv /\ ExpectedInv /\ [Next]_vars => ExpectedInv'
  <2> SUFFICES ASSUME TypeOK, LoginInv, SoloInv, InstanceInv, ExpectedInv, [Next]_vars PROVE ExpectedInv'
    OBVIOUS
  <2> USE UserAssumption DEF ExpectedInv, TypeOK, Goto, AddSteps, UseSteps, Ends, Fields, LoginInv, Unchecked, SoloInv, InstanceInv, Subject, UnderWay
  <2>1. ASSUME NEW a \in Adds, AddUser(a) PROVE ExpectedInv'
    BY <2>1 DEF AddUser, About
  <2>2. ASSUME NEW a \in Adds, Check(a) PROVE ExpectedInv'
    BY <2>2 DEF Check
  <2>3. ASSUME NEW a \in Adds, PutUser(a) PROVE ExpectedInv'
    BY <2>3 DEF PutUser
  <2>4. ASSUME NEW a \in Adds, PutProfile(a) PROVE ExpectedInv'
    BY <2>4 DEF PutProfile
  <2>5. ASSUME NEW u \in Uses, Use(u) PROVE ExpectedInv'
    BY <2>5 DEF Use, About
  <2>6. ASSUME NEW u \in Uses, Where(u) PROVE ExpectedInv'
    BY <2>6 DEF Where
  <2>7. ASSUME NEW u \in Uses, Cache(u) PROVE ExpectedInv'
    BY <2>7 DEF Cache
  <2>8. ASSUME NEW u \in Uses, Get(u) PROVE ExpectedInv'
    BY <2>8 DEF Get
  <2>9. ASSUME NEW u \in Uses, NEW v \in Fields, Update(u, v) PROVE ExpectedInv'
    BY <2>9 DEF Update
  <2>10. ASSUME NEW u \in Uses, Put(u) PROVE ExpectedInv'
    BY <2>10 DEF Put
  <2>11. ASSUME NEW c \in Adds \cup Uses, Fail(c) PROVE ExpectedInv'
    BY <2>11 DEF Fail
  <2>12. CASE Restart
    BY <2>12 DEF Restart
  <2>13. CASE UNCHANGED vars
    BY <2>13 DEF vars
  <2> QED
    BY <2>1, <2>2, <2>3, <2>4, <2>5, <2>6, <2>7, <2>8, <2>9, <2>10, <2>11, <2>12, <2>13 DEF Next, Step
<1> QED
  BY <1>1, <1>2, Types, LoginInvariant, SoloInvariant, InstanceInvariant, PTL DEF Spec

\* After an update that nothing disturbs every call finds what it set, until
\* the next update (user.py:192-223, sabsddb.py:378).
THEOREM UndisturbedUpdateFound == Spec => []LastUpdateFound
<1>1. TypeOK /\ ExpectedInv => LastUpdateFound
  BY DEF TypeOK, ExpectedInv, LastUpdateFound
<1> QED
  BY <1>1, ExpectedInvariant, Types, PTL

=============================================================================
