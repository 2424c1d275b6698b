--------------------------- MODULE Storage_proofs ---------------------------
(***************************************************************************)
(* Proofs about the storages of core/storage/sabsddb.py.                   *)
(*                                                                         *)
(* Of module StorageInit, for any requests, entities and reference fields: *)
(* its types, that a storage is ready before it is used, who is told of a  *)
(* failure, and that what is decided stays decided.  The inductive         *)
(* invariant StartInv says who waits on which Deferred, what a storage has *)
(* in each state of its init, and which storage a request or a field has   *)
(* been given.                                                             *)
(*                                                                         *)
(* Of module AbsddbStorage, for any clients, identities and values: its    *)
(* types, who completes a half-loaded instance, that what a call answers   *)
(* was true, that a stored reference is never lost, what the caches settle *)
(* on, and the use of the pool.  The inductive invariant StoreInv says     *)
(* what each chain of callbacks works with, what the replies under way     *)
(* tell, and that one map from identities to references agrees with the    *)
(* records, the instances and everything in between.                       *)
(***************************************************************************)
EXTENDS StorageInit, AbsddbStorage, SequenceTheorems, FiniteSetTheorems, TLAPS

-----------------------------------------------------------------------------
(* StorageInit: the invariant.                                             *)

FieldMaps      == UNION {[F -> Nat] : F \in SUBSET Fields}
StorageRecords == [entity : Entities, state : StorageStates, opened : 0..Len(Phases),
                   waiters : Seq(Requests), fields : FieldMaps]

Shapes ==
  /\ pc \in [Requests -> PCs] /\ handed \in [Requests -> Nat]
  /\ env \in [state : EnvStates, waiters : Seq(Requests)]
  /\ storages \in Seq(StorageRecords)
  /\ entityMap \in [Entities -> Nat]
  /\ broken \in BOOLEAN

Distinct(w) == \A i, k \in DOMAIN w : w[i] = w[k] => i = k

\* Who waits for the environment, once; one request at most is told that it failed.
EnvInv ==
  /\ env.waiters = <<>> <=> env.state \notin {"scheduled", "opening"}
  /\ \A r \in Requests : pc[r] = "envwait" <=> r \in Range(env.waiters)
  /\ Distinct(env.waiters)
  /\ env.state # "failed" => \A r \in Requests : pc[r] # "envfailed"
  /\ \A r, q \in Requests : pc[r] = "envfailed" /\ pc[q] = "envfailed" => r = q

\* s is a storage of entity e, or there is none yet.
Refers(s, e) == s # NoStorage => s \in DOMAIN storages /\ storages[s].entity = e

Holding == {"has", "initwait", "working", "ok", "initfailed", "failed"}

\* What a request that got its storage has and waits for.
RequestInv(r) ==
  /\ Refers(handed[r], Wants[r])
  /\ pc[r] \in Holding => handed[r] # NoStorage
  /\ pc[r] = "initwait" => r \in Range(storages[handed[r]].waiters)
  /\ pc[r] \in {"working", "ok"} => storages[handed[r]].state \in {"done", "failed"}
  /\ pc[r] = "initfailed" => storages[handed[r]].state = "failed"

\* What a storage has in each state of its init.
StorageInv(s) ==
  LET st == storages[s] IN
    /\ DOMAIN st.fields = FieldsOf(st.entity)
    /\ \A f \in DOMAIN st.fields : Refers(st.fields[f], TypeOf[f])
    /\ \A r \in Range(st.waiters) : pc[r] = "initwait" /\ handed[r] = s
    /\ st.waiters = <<>> <=> st.state \in {"none", "done", "failed"}
    /\ st.state = "failed" => broken
    /\ st.state \in {"fields", "done"} => st.opened = Len(Phases)
    /\ st.state = "done" => \A f \in DOMAIN st.fields : st.fields[f] # NoStorage

\* One request at most is told that the init of its storage failed.
ReportInv == \A r, q \in Requests :
               pc[r] = "initfailed" /\ pc[q] = "initfailed" /\ handed[r] = handed[q] => r = q

StartInv == /\ Shapes /\ EnvInv /\ ReportInv
            /\ \A e \in Entities : Refers(entityMap[e], e)
            /\ \A r \in Requests : RequestInv(r)
            /\ \A s \in DOMAIN storages : StorageInv(s)

-----------------------------------------------------------------------------
(* Facts about the operators.                                              *)

\* The longest of a set of positions of a sequence.
LEMMA LastExists ==
  ASSUME NEW n \in Nat, NEW S \in SUBSET (1..n), S # {}
  PROVE  \E i \in S : \A k \in S : k <= i
<1> DEFINE T == {m \in 1..n : \A k \in S : k < m}
           c == Cardinality(T)
<1>1. IsFiniteSet(1..n) /\ Cardinality(1..n) = n
  BY FS_Interval
<1>2. IsFiniteSet(T) /\ c \in Nat /\ c <= n
  BY <1>1, FS_Subset, FS_CardinalityType
<1>3. ASSUME NEW m \in T PROVE n - m < c
  <2>1. m \in Nat /\ m..n \subseteq T
    OBVIOUS
  <2>2. IsFiniteSet(m..n) /\ Cardinality(m..n) = n - m + 1
    BY <2>1, FS_Interval
  <2>3. Cardinality(m..n) <= c
    BY <1>2, <2>1, FS_Subset
  <2> QED
    BY <1>2, <2>1, <2>2, <2>3
<1>4. T = (n - c + 1)..n
  <2>1. T \subseteq (n - c + 1)..n
    <3> HIDE DEF c
    <3> QED
      BY <1>2, <1>3
  <2>2. n - c + 1 \in Int /\ n - c + 1 <= n + 1
    BY <1>2
  <2>3. IsFiniteSet((n - c + 1)..n) /\ Cardinality((n - c + 1)..n) = c
    <3> HIDE DEF c
    <3>1. n - c + 1 \in Int /\ n \in Int
      BY <1>2
    <3>2. /\ IsFiniteSet((n - c + 1)..n)
          /\ Cardinality((n - c + 1)..n) = IF n - c + 1 > n THEN 0 ELSE n - (n - c + 1) + 1
      BY <3>1, FS_Interval
    <3> QED
      BY <1>2, <3>2
  <2> QED
    BY <2>1, <2>3, FS_Subset
<1>5. n - c \in 1..n
  <2>1. PICK k \in S : TRUE
    OBVIOUS
  <2>2. k \notin T /\ k \in 1..n
    BY <2>1
  <2>3. \A m \in T : m > k
    BY <2>1
  <2> HIDE DEF c, T
  <2> QED
    BY <1>2, <1>4, <2>2, <2>3
<1>6. n - c \in S
  <2> SUFFICES ASSUME n - c \notin S PROVE FALSE
    OBVIOUS
  <2>1. n - c \in T
    <3>1. \A k \in S : k < n - c
      <4> SUFFICES ASSUME NEW k \in S PROVE k < n - c
        OBVIOUS
      <4>1. CASE c = 0
        <5> HIDE DEF c
        <5> QED
          BY <4>1, <1>2
      <4>2. CASE c # 0
        <5>1. n - c + 1 \in T
          <6> HIDE DEF c, T
          <6> QED
            BY <1>2, <1>4, <4>2
        <5>2. k < n - c + 1
          BY <5>1
        <5> HIDE DEF c, T
        <5> QED
          BY <1>2, <5>2
      <4> QED
        BY <4>1, <4>2
    <3> QED
      BY <1>5, <3>1
  <2> HIDE DEF c, T
  <2> QED
    BY <1>2, <1>4, <2>1
<1>7. \A k \in S : k <= n - c
  <2> SUFFICES ASSUME NEW k \in S PROVE k <= n - c
    OBVIOUS
  <2>1. CASE c = 0
    <3> HIDE DEF c
    <3> QED
      BY <2>1
  <2>2. CASE c # 0
    <3>1. n - c + 1 \in T
      <4> HIDE DEF c, T
      <4> QED
        BY <1>2, <1>4, <2>2
    <3>2. k < n - c + 1
      BY <3>1
    <3> HIDE DEF c, T
    <3> QED
      BY <1>2, <3>2
  <2> QED
    BY <2>1, <2>2
<1> QED
  BY <1>6, <1>7

\* One more who waits.
LEMMA AppendRange ==
  ASSUME NEW w \in Seq(Requests), NEW r \in Requests
  PROVE  /\ Append(w, r) \in Seq(Requests) /\ Append(w, r) # <<>>
         /\ Range(Append(w, r)) = Range(w) \cup {r}
         /\ Distinct(w) /\ r \notin Range(w) => Distinct(Append(w, r))
<1>1. /\ Len(w) \in Nat /\ DOMAIN w = 1..Len(w) /\ DOMAIN Append(w, r) = 1..(Len(w) + 1)
      /\ \A i \in 1..Len(w) : Append(w, r)[i] = w[i]
      /\ Append(w, r)[Len(w) + 1] = r /\ Append(w, r) # <<>> /\ Append(w, r) \in Seq(Requests)
  BY AppendProperties, LenProperties
<1> QED
  BY <1>1 DEF Range, Distinct

\* The first who waits, and the others.
LEMMA HeadAndTail ==
  ASSUME NEW w \in Seq(Requests), w # <<>>
  PROVE  /\ Tail(w) \in Seq(Requests) /\ Head(w) \in Requests
         /\ Range(w) = Range(Tail(w)) \cup {Head(w)}
         /\ Distinct(w) => Head(w) \notin Range(Tail(w))
<1>1. /\ Len(w) \in Nat \ {0} /\ DOMAIN w = 1..Len(w) /\ Head(w) = w[1]
      /\ Head(w) \in Requests /\ Tail(w) \in Seq(Requests) /\ Len(Tail(w)) = Len(w) - 1
      /\ \A i \in 1..Len(Tail(w)) : Tail(w)[i] = w[i + 1]
  BY EmptySeq, LenProperties, HeadTailProperties
<1>2. DOMAIN Tail(w) = 1..(Len(w) - 1)
  BY <1>1, LenProperties
<1>3. \A i \in DOMAIN w \ {1} : i - 1 \in DOMAIN Tail(w) /\ Tail(w)[i - 1] = w[i]
  <2> SUFFICES ASSUME NEW i \in DOMAIN w \ {1}
               PROVE  i - 1 \in DOMAIN Tail(w) /\ Tail(w)[i - 1] = w[i]
    OBVIOUS
  <2>1. i - 1 \in 1..(Len(w) - 1) /\ (i - 1) + 1 = i
    BY <1>1
  <2> QED
    BY <1>1, <1>2, <2>1
<1>4. \A i \in DOMAIN Tail(w) : i + 1 \in DOMAIN w /\ i + 1 # 1 /\ Tail(w)[i] = w[i + 1]
  BY <1>1, <1>2
<1>5. Range(w) = Range(Tail(w)) \cup {Head(w)}
  <2>1. ASSUME NEW i \in DOMAIN w PROVE w[i] \in Range(Tail(w)) \cup {Head(w)}
    <3>1. CASE i = 1
      BY <1>1, <3>1
    <3>2. CASE i # 1
      <4>1. i - 1 \in DOMAIN Tail(w) /\ Tail(w)[i - 1] = w[i]
        BY <1>3, <3>2
      <4> QED
        BY <4>1 DEF Range
    <3> QED
      BY <3>1, <3>2
  <2>2. Range(w) \subseteq Range(Tail(w)) \cup {Head(w)}
    BY <2>1 DEF Range
  <2>3. Range(Tail(w)) \subseteq Range(w)
    BY <1>4 DEF Range
  <2>4. 1 \in DOMAIN w
    BY <1>1
  <2>5. Head(w) \in Range(w)
    BY <1>1, <2>4 DEF Range
  <2> QED
    BY <2>2, <2>3, <2>5
<1>6. Distinct(w) => Head(w) \notin Range(Tail(w))
  BY <1>1, <1>4 DEF Range, Distinct
<1> QED
  BY <1>1, <1>5, <1>6

LEMMA NewStorageIs ==
  ASSUME NEW e \in Entities
  PROVE  /\ NewStorage(e) \in StorageRecords
         /\ NewStorage(e).entity = e /\ NewStorage(e).state = "none"
         /\ NewStorage(e).waiters = <<>>
         /\ DOMAIN NewStorage(e).fields = FieldsOf(e)
         /\ \A f \in FieldsOf(e) : NewStorage(e).fields[f] = NoStorage
<1>1. FieldsOf(e) \in SUBSET Fields
  BY DEF FieldsOf
<1>2. [f \in FieldsOf(e) |-> NoStorage] \in [FieldsOf(e) -> Nat]
  BY DEF NoStorage
<1>3. [f \in FieldsOf(e) |-> NoStorage] \in FieldMaps
  BY <1>1, <1>2 DEF FieldMaps
<1>4. <<>> \in Seq(Requests) /\ 0 \in 0..Len(Phases)
  BY EmptySeq DEF Phases
<1> QED
  BY <1>3, <1>4 DEF NewStorage, StorageRecords, StorageStates

\* The storages that are new are untouched.
New(s) == /\ storages[s] = NewStorage(storages[s].entity)
          /\ storages[s].entity \in Entities

\* What MakeStorages does for requests rs: it leaves every storage there is
\* alone, gives each of rs one of its own, and keeps in the map what it has
\* for entities that none of rs is about.
LEMMA StoragesMade ==
  ASSUME Shapes, NEW rs \in Seq(Requests), MakeStorages(rs)
  PROVE  /\ storages' \in Seq(StorageRecords) /\ Len(storages') = Len(storages) + Len(rs)
         /\ \A s \in DOMAIN storages : s \in DOMAIN storages' /\ storages'[s] = storages[s]
         /\ \A s \in DOMAIN storages' \ DOMAIN storages : New(s)'
         /\ handed' \in [Requests -> Nat]
         /\ \A r \in Requests \ Range(rs) : handed'[r] = handed[r]
         /\ \A r \in Range(rs) : /\ handed'[r] \in DOMAIN storages' \ DOMAIN storages
                                 /\ storages'[handed'[r]].entity = Wants[r]
         /\ entityMap' \in [Entities -> Nat]
         /\ \A e \in Entities : \/ entityMap'[e] = entityMap[e]
                                \/ /\ \E r \in Range(rs) : Wants[r] = e
                                   /\ entityMap'[e] \in DOMAIN storages'
                                   /\ storages'[entityMap'[e]].entity = e
<1> DEFINE made == [i \in DOMAIN rs |-> NewStorage(Wants[rs[i]])]
           n == Len(storages)
<1>1. /\ n \in Nat /\ DOMAIN storages = 1..n /\ storages \in Seq(StorageRecords)
      /\ Len(rs) \in Nat /\ DOMAIN rs = 1..Len(rs)
      /\ \A i \in DOMAIN rs : rs[i] \in Requests /\ Wants[rs[i]] \in Entities
  BY InitAssumption, LenProperties, ElementOfSeq DEF Shapes
<1>2. \A i \in DOMAIN rs : made[i] \in StorageRecords /\ made[i].entity = Wants[rs[i]]
  BY <1>1, NewStorageIs
<1>3. made \in Seq(StorageRecords) /\ Len(made) = Len(rs)
  <2>1. made \in [1..Len(rs) -> StorageRecords]
    BY <1>1, <1>2
  <2>2. made \in Seq(StorageRecords)
    BY <1>1, <2>1, SeqDef
  <2>3. DOMAIN made = 1..Len(rs)
    BY <1>1
  <2> QED
    BY <1>1, <2>2, <2>3, LenProperties
<1>4. storages' = storages \o made
  BY DEF MakeStorages
<1> HIDE DEF made
<1>5. /\ storages' \in Seq(StorageRecords) /\ Len(storages') = n + Len(rs)
      /\ \A i \in 1..(n + Len(rs)) : storages'[i] = IF i <= n THEN storages[i] ELSE made[i - n]
  <2>1. storages \o made \in Seq(StorageRecords) /\ Len(storages \o made) = n + Len(made)
    BY <1>1, <1>3, ConcatProperties
  <2>2. \A i \in 1..(n + Len(made)) :
          (storages \o made)[i] = IF i <= n THEN storages[i] ELSE made[i - n]
    BY <1>1, <1>3, ConcatProperties
  <2> QED
    BY <1>3, <1>4, <2>1, <2>2
<1>6. DOMAIN storages' = 1..(n + Len(rs))
  BY <1>5, LenProperties
<1>7. \A s \in DOMAIN storages : s \in DOMAIN storages' /\ storages'[s] = storages[s]
  BY <1>1, <1>5, <1>6
<1>8. \A i \in DOMAIN rs : /\ n + i \in DOMAIN storages' \ DOMAIN storages
                           /\ storages'[n + i] = made[i]
  BY <1>1, <1>5, <1>6
<1>9. \A s \in DOMAIN storages' \ DOMAIN storages : New(s)'
  <2> SUFFICES ASSUME NEW s \in DOMAIN storages' \ DOMAIN storages PROVE New(s)'
    OBVIOUS
  <2>1. s - n \in DOMAIN rs /\ storages'[s] = made[s - n]
    BY <1>1, <1>5, <1>6
  <2>2. made[s - n] = NewStorage(Wants[rs[s - n]]) /\ Wants[rs[s - n]] \in Entities
    BY <1>1, <2>1 DEF made
  <2> QED
    BY <1>2, <2>1, <2>2 DEF New
<1>10. ASSUME NEW r \in Range(rs)
       PROVE  /\ handed'[r] \in DOMAIN storages' \ DOMAIN storages
              /\ storages'[handed'[r]].entity = Wants[r] /\ r \in Requests
  <2>1. \E i \in DOMAIN rs : rs[i] = r
    BY DEF Range
  <2>2. PICK i : i = CHOOSE j \in DOMAIN rs : rs[j] = r
    OBVIOUS
  <2>3. i \in DOMAIN rs /\ rs[i] = r
    BY <2>1, <2>2
  <2>4. handed'[r] = n + i
    BY <1>1, <2>2, <2>3 DEF MakeStorages
  <2> QED
    BY <1>1, <1>2, <1>8, <2>3, <2>4
<1>11. \A r \in Requests \ Range(rs) : handed'[r] = handed[r]
  BY DEF MakeStorages
<1>12. handed' \in [Requests -> Nat]
  <2>1. \A r \in Requests : handed'[r] \in Nat
    BY <1>1, <1>6, <1>10, <1>11 DEF Shapes
  <2>2. handed' = [r \in Requests |-> handed'[r]]
    BY DEF MakeStorages
  <2> QED
    BY <2>1, <2>2
<1>13. ASSUME NEW e \in Entities
       PROVE  \/ entityMap'[e] = entityMap[e]
              \/ /\ \E r \in Range(rs) : Wants[r] = e
                 /\ entityMap'[e] \in DOMAIN storages' /\ storages'[entityMap'[e]].entity = e
  <2> DEFINE own == {i \in DOMAIN rs : Wants[rs[i]] = e}
  <2>1. CASE own = {}
    BY <2>1 DEF MakeStorages
  <2>2. CASE own # {}
    <3>1. \E i \in own : \A k \in own : k <= i
      BY <1>1, <2>2, LastExists
    <3>2. PICK i : i = CHOOSE j \in own : \A k \in own : k <= j
      OBVIOUS
    <3>3. i \in own
      BY <3>1, <3>2
    <3>4. entityMap'[e] = n + i
      BY <2>2, <3>2 DEF MakeStorages
    <3> QED
      BY <1>2, <1>8, <3>3, <3>4 DEF Range
  <2> QED
    BY <2>1, <2>2
<1>14. entityMap' \in [Entities -> Nat]
  <2>1. \A e \in Entities : entityMap'[e] \in Nat
    BY <1>1, <1>6, <1>13 DEF Shapes
  <2>2. entityMap' = [e \in Entities |-> entityMap'[e]]
    BY DEF MakeStorages
  <2> QED
    BY <2>1, <2>2
<1> QED
  BY <1>5, <1>7, <1>9, <1>10, <1>11, <1>12, <1>13, <1>14

-----------------------------------------------------------------------------
(* What most steps leave alone.                                            *)

\* How the init of the environment and of a storage goes on.
EnvMoves     == {<<"none", "scheduled">>, <<"scheduled", "opening">>, <<"opening", "done">>,
                 <<"opening", "failed">>}
StorageMoves == {<<"none", "scheduled">>, <<"scheduled", "opening">>, <<"opening", "fields">>,
                 <<"opening", "done">>, <<"opening", "failed">>, <<"fields", "done">>}

EnvGoesOn == env'.state = env.state \/ <<env.state, env'.state>> \in EnvMoves
StorageGoesOn(s) == /\ s \in DOMAIN storages' /\ storages'[s].entity = storages[s].entity
                    /\ \/ storages'[s].state = storages[s].state
                       \/ <<storages[s].state, storages'[s].state>> \in StorageMoves
StoragesGoOn == \A s \in DOMAIN storages : StorageGoesOn(s)

LEMMA RefersStill ==
  ASSUME StoragesGoOn
  PROVE  \A s, e : Refers(s, e) => (s # NoStorage => s \in DOMAIN storages' /\ storages'[s].entity = e)
<1> QED
  BY DEF StoragesGoOn, StorageGoesOn, Refers

LEMMA EnvKeeps ==
  ASSUME EnvInv, UNCHANGED env,
         \A r \in Requests : /\ pc'[r] = "envwait" <=> pc[r] = "envwait"
                             /\ pc'[r] = "envfailed" <=> pc[r] = "envfailed"
  PROVE  EnvInv'
<1> QED
  BY DEF EnvInv

LEMMA ReportKeeps ==
  ASSUME ReportInv,
         \A r \in Requests : pc'[r] = "initfailed" => pc[r] = "initfailed" /\ handed'[r] = handed[r]
  PROVE  ReportInv'
<1> QED
  BY DEF ReportInv

\* A request that does not move.
LEMMA RequestKeeps ==
  ASSUME StartInv, StoragesGoOn, NEW r \in Requests,
         pc'[r] = pc[r], handed'[r] = handed[r],
         pc[r] = "initwait" => r \in Range(storages'[handed[r]].waiters)
  PROVE  RequestInv(r)'
<1>1. RequestInv(r)
  BY DEF StartInv
<1>2. Refers(handed[r], Wants[r])'
  BY <1>1, RefersStill DEF RequestInv, Refers
<1>3. pc[r] \in Holding => handed[r] \in DOMAIN storages
  BY <1>1 DEF RequestInv, Refers
<1>4. ASSUME pc[r] \in {"working", "ok"} PROVE storages'[handed[r]].state \in {"done", "failed"}
  BY <1>1, <1>3, <1>4 DEF RequestInv, StoragesGoOn, StorageGoesOn, StorageMoves, Holding
<1>5. ASSUME pc[r] = "initfailed" PROVE storages'[handed[r]].state = "failed"
  BY <1>1, <1>3, <1>5 DEF RequestInv, StoragesGoOn, StorageGoesOn, StorageMoves, Holding
<1> QED
  BY <1>1, <1>2, <1>4, <1>5 DEF RequestInv

\* A storage that does not change.
LEMMA StorageKeeps ==
  ASSUME StartInv, StoragesGoOn, NEW s \in DOMAIN storages, storages'[s] = storages[s],
         broken => broken',
         \A r \in Requests : pc[r] = "initwait" /\ handed[r] = s =>
                               pc'[r] = "initwait" /\ handed'[r] = s
  PROVE  StorageInv(s)'
<1>1. StorageInv(s)
  BY DEF StartInv
<1>2. storages[s] \in StorageRecords
  BY ElementOfSeq DEF StartInv, Shapes
<1>3. Range(storages[s].waiters) \subseteq Requests
  BY <1>2, RangeOfSeq DEF StorageRecords
<1>4. \A f \in DOMAIN storages[s].fields : Refers(storages[s].fields[f], TypeOf[f])'
  <2> SUFFICES ASSUME NEW f \in DOMAIN storages[s].fields PROVE Refers(storages[s].fields[f], TypeOf[f])'
    OBVIOUS
  <2>1. PICK t : t = storages[s].fields[f]
    OBVIOUS
  <2>2. Refers(t, TypeOf[f]) /\ storages'[s].fields[f] = t
    BY <1>1, <2>1 DEF StorageInv
  <2>3. t # NoStorage => t \in DOMAIN storages' /\ storages'[t].entity = TypeOf[f]
    BY <2>2, RefersStill
  <2> QED
    BY <2>2, <2>3 DEF Refers
<1> QED
  BY <1>1, <1>3, <1>4 DEF StorageInv

\* A storage that is new.
LEMMA NewKeeps ==
  ASSUME NEW s \in DOMAIN storages', New(s)'
  PROVE  StorageInv(s)'
<1> DEFINE st == storages'[s]
<1>1. /\ st.entity \in Entities /\ st = NewStorage(st.entity)
  BY DEF New
<1>2. /\ st.state = "none" /\ st.waiters = <<>> /\ DOMAIN st.fields = FieldsOf(st.entity)
      /\ \A f \in FieldsOf(st.entity) : st.fields[f] = NoStorage
  BY <1>1, NewStorageIs
<1>3. Range(st.waiters) = {}
  BY <1>2 DEF Range
<1> QED
  BY <1>2, <1>3 DEF StorageInv, Refers

\* What the map has.
LEMMA MapKeeps ==
  ASSUME StartInv, StoragesGoOn,
         \A e \in Entities : \/ entityMap'[e] = entityMap[e]
                             \/ /\ entityMap'[e] \in DOMAIN storages'
                                /\ storages'[entityMap'[e]].entity = e
  PROVE  \A e \in Entities : Refers(entityMap[e], e)'
<1> SUFFICES ASSUME NEW e \in Entities PROVE Refers(entityMap[e], e)'
  OBVIOUS
<1>1. Refers(entityMap[e], e)
  BY DEF StartInv
<1>2. entityMap'[e] = entityMap[e] => Refers(entityMap[e], e)'
  BY <1>1, RefersStill DEF Refers
<1> QED
  BY <1>2 DEF Refers

\* What the fields of a storage have, when none of them is set.
LEMMA FieldsKeep ==
  ASSUME StartInv, StoragesGoOn, NEW s \in DOMAIN storages,
         storages'[s].fields = storages[s].fields
  PROVE  /\ DOMAIN storages'[s].fields = FieldsOf(storages'[s].entity)
         /\ \A f \in DOMAIN storages'[s].fields : Refers(storages[s].fields[f], TypeOf[f])'
<1>1. StorageInv(s) /\ storages'[s].entity = storages[s].entity
  BY DEF StartInv, StoragesGoOn, StorageGoesOn
<1>2. ASSUME NEW f \in DOMAIN storages[s].fields PROVE Refers(storages[s].fields[f], TypeOf[f])'
  <2>1. PICK t : t = storages[s].fields[f]
    OBVIOUS
  <2>2. Refers(t, TypeOf[f]) /\ storages'[s].fields[f] = t
    BY <1>1, <2>1 DEF StorageInv
  <2>3. t # NoStorage => t \in DOMAIN storages' /\ storages'[t].entity = TypeOf[f]
    BY <2>2, RefersStill
  <2> QED
    BY <2>2, <2>3 DEF Refers
<1> QED
  BY <1>1, <1>2 DEF StorageInv

LEMMA OneChanges ==
  ASSUME Shapes, NEW s \in DOMAIN storages, NEW st \in StorageRecords,
         storages' = [storages EXCEPT ![s] = st]
  PROVE  /\ storages' \in Seq(StorageRecords) /\ DOMAIN storages' = DOMAIN storages
         /\ Len(storages') = Len(storages)
         /\ storages'[s] = st /\ \A t \in DOMAIN storages \ {s} : storages'[t] = storages[t]
<1>1. DOMAIN storages = 1..Len(storages) /\ storages \in Seq(StorageRecords)
  BY LenProperties DEF Shapes
<1> QED
  BY <1>1, ExceptSeq

-----------------------------------------------------------------------------
(* The steps.                                                              *)

GoesOn == StartInv' /\ StoragesGoOn /\ EnvGoesOn

LEMMA SameStorages ==
  ASSUME UNCHANGED storages
  PROVE  StoragesGoOn
<1> QED
  BY DEF StoragesGoOn, StorageGoesOn

LEMMA GetGoesOn ==
  ASSUME StartInv, NEW r \in Requests, FactoryGet(r)
  PROVE  GoesOn
<1>1. /\ pc[r] = "idle" /\ pc'[r] \in {"has", "getting"} /\ pc' \in [Requests -> PCs]
      /\ \A q \in Requests \ {r} : pc'[q] = pc[q]
      /\ UNCHANGED <<env, storages, entityMap, broken>>
  BY DEF FactoryGet, StartInv, Shapes, PCs
<1>2. /\ handed' \in [Requests -> Nat] /\ \A q \in Requests \ {r} : handed'[q] = handed[q]
      /\ \/ handed'[r] = handed[r] /\ pc'[r] = "getting"
         \/ handed'[r] = entityMap[Wants[r]] /\ handed'[r] # NoStorage /\ pc'[r] = "has"
  BY InitAssumption DEF FactoryGet, StartInv, Shapes
<1>3. StoragesGoOn
  BY <1>1, SameStorages
<1>4. Shapes'
  BY <1>1, <1>2 DEF StartInv, Shapes
<1>5. EnvInv'
  BY <1>1, EnvKeeps DEF StartInv
<1>6. ReportInv'
  BY <1>1, <1>2, ReportKeeps DEF StartInv
<1>7. \A e \in Entities : Refers(entityMap[e], e)'
  BY <1>1, <1>3, MapKeeps
<1>8. ASSUME NEW q \in Requests PROVE RequestInv(q)'
  <2>1. CASE q = r
    <3>1. Refers(handed[r], Wants[r]) /\ Refers(entityMap[Wants[r]], Wants[r])
      BY InitAssumption DEF StartInv, RequestInv
    <3>2. Refers(handed[r], Wants[r])'
      BY <1>1, <1>2, <3>1 DEF Refers
    <3> QED
      BY <1>1, <1>2, <2>1, <3>2 DEF RequestInv, Holding
  <2>2. CASE q # r
    BY <1>1, <1>2, <1>3, <2>2, RequestKeeps DEF StartInv, RequestInv
  <2> QED
    BY <2>1, <2>2
<1>9. ASSUME NEW s \in DOMAIN storages PROVE StorageInv(s)'
  BY <1>1, <1>2, <1>3, StorageKeeps
<1> QED
  BY <1>1, <1>3, <1>4, <1>5, <1>6, <1>7, <1>8, <1>9 DEF GoesOn, StartInv, EnvGoesOn

LEMMA InitEnvGoesOn ==
  ASSUME StartInv, NEW r \in Requests, InitEnv(r)
  PROVE  GoesOn
<1>1. /\ pc[r] = "getting" /\ pc'[r] = "envwait" /\ pc' \in [Requests -> PCs]
      /\ \A q \in Requests \ {r} : pc'[q] = pc[q]
      /\ UNCHANGED <<handed, storages, entityMap, broken>>
  BY DEF InitEnv, StartInv, Shapes, PCs
<1>2. /\ env.state \in {"none", "scheduled", "opening"} /\ env'.waiters = Append(env.waiters, r)
      /\ env'.state = IF env.state = "none" THEN "scheduled" ELSE env.state
  BY DEF InitEnv
<1>3. env' \in [state : EnvStates, waiters : Seq(Requests)]
  BY AppendProperties DEF InitEnv, StartInv, Shapes, EnvStates
<1>4. /\ Range(env'.waiters) = Range(env.waiters) \cup {r} /\ env'.waiters # <<>>
      /\ Distinct(env'.waiters)
  BY <1>1, <1>2, AppendRange DEF StartInv, Shapes, EnvInv
<1>5. StoragesGoOn
  BY <1>1, SameStorages
<1>6. Shapes'
  BY <1>1, <1>3 DEF StartInv, Shapes
<1>7. EnvInv'
  BY <1>1, <1>2, <1>4 DEF StartInv, EnvInv
<1>8. ReportInv'
  BY <1>1, ReportKeeps DEF StartInv
<1>9. \A e \in Entities : Refers(entityMap[e], e)'
  BY <1>1, <1>5, MapKeeps
<1>10. ASSUME NEW q \in Requests PROVE RequestInv(q)'
  <2>1. CASE q = r
    BY <1>1, <2>1 DEF StartInv, RequestInv, Holding, Refers
  <2>2. CASE q # r
    BY <1>1, <1>5, <2>2, RequestKeeps DEF StartInv, RequestInv
  <2> QED
    BY <2>1, <2>2
<1>11. ASSUME NEW s \in DOMAIN storages PROVE StorageInv(s)'
  BY <1>1, <1>5, StorageKeeps
<1>12. EnvGoesOn
  BY <1>2 DEF EnvGoesOn, EnvMoves
<1> QED
  BY <1>1, <1>5, <1>6, <1>7, <1>8, <1>9, <1>10, <1>11, <1>12 DEF GoesOn, StartInv

LEMMA OpenEnvGoesOn ==
  ASSUME StartInv, OpenEnv
  PROVE  GoesOn
<1>1. /\ env.state = "scheduled" /\ env' = [env EXCEPT !.state = "opening"]
      /\ UNCHANGED <<pc, handed, storages, entityMap, broken>>
  BY DEF OpenEnv
<1>2. /\ env' \in [state : EnvStates, waiters : Seq(Requests)]
      /\ env'.state = "opening" /\ env'.waiters = env.waiters
  BY <1>1 DEF StartInv, Shapes, EnvStates
<1>3. StoragesGoOn
  BY <1>1, SameStorages
<1>4. Shapes'
  BY <1>1, <1>2 DEF StartInv, Shapes
<1>5. EnvInv'
  BY <1>1, <1>2 DEF StartInv, EnvInv
<1>6. ReportInv'
  BY <1>1 DEF StartInv, ReportInv
<1>7. \A e \in Entities : Refers(entityMap[e], e)'
  BY <1>1, <1>3, MapKeeps
<1>8. ASSUME NEW q \in Requests PROVE RequestInv(q)'
  BY <1>1, <1>3, RequestKeeps DEF StartInv, RequestInv
<1>9. ASSUME NEW s \in DOMAIN storages PROVE StorageInv(s)'
  BY <1>1, <1>3, StorageKeeps
<1>10. EnvGoesOn
  BY <1>1, <1>2 DEF EnvGoesOn, EnvMoves
<1> QED
  BY <1>1, <1>3, <1>4, <1>5, <1>6, <1>7, <1>8, <1>9, <1>10 DEF GoesOn, StartInv

\* Steps of a request alone, from its first call of the storage to its end.
LEMMA RequestGoesOn ==
  ASSUME StartInv, NEW r \in Requests, Work(r) \/ Answer(r)
  PROVE  GoesOn
<1>1. /\ \/ /\ pc[r] = "has" /\ pc'[r] = "working"
            /\ storages[handed[r]].state \in {"done", "failed"}
         \/ pc[r] = "working" /\ pc'[r] \in {"ok", "failed"}
      /\ pc' \in [Requests -> PCs] /\ \A q \in Requests \ {r} : pc'[q] = pc[q]
      /\ UNCHANGED <<handed, env, storages, entityMap, broken>>
  <2>1. pc \in [Requests -> PCs]
    BY DEF StartInv, Shapes
  <2>2. CASE Work(r)
    BY <2>1, <2>2 DEF Work, PCs
  <2>3. CASE Answer(r)
    BY <2>1, <2>3 DEF Answer, PCs
  <2> QED
    BY <2>2, <2>3
<1>2. StoragesGoOn
  BY <1>1, SameStorages
<1>3. Shapes'
  BY <1>1 DEF StartInv, Shapes
<1>4. EnvInv'
  BY <1>1, EnvKeeps DEF StartInv
<1>5. ReportInv'
  BY <1>1, ReportKeeps DEF StartInv
<1>6. \A e \in Entities : Refers(entityMap[e], e)'
  BY <1>1, <1>2, MapKeeps
<1>7. ASSUME NEW q \in Requests PROVE RequestInv(q)'
  <2>1. CASE q = r
    BY <1>1, <2>1 DEF StartInv, RequestInv, Holding, Refers
  <2>2. CASE q # r
    BY <1>1, <1>2, <2>2, RequestKeeps DEF StartInv, RequestInv
  <2> QED
    BY <2>1, <2>2
<1>8. ASSUME NEW s \in DOMAIN storages PROVE StorageInv(s)'
  BY <1>1, <1>2, StorageKeeps
<1> QED
  BY <1>1, <1>2, <1>3, <1>4, <1>5, <1>6, <1>7, <1>8 DEF GoesOn, StartInv, EnvGoesOn

\* A storage is made for each of rs; others may be told of a failure.
LEMMA MadeFor ==
  ASSUME StartInv, NEW rs \in Seq(Requests), MakeStorages(rs), broken' \in BOOLEAN, broken => broken',
         pc' \in [Requests -> PCs],
         \A r \in Range(rs) : pc[r] \in {"getting", "envwait"} /\ pc'[r] = "has",
         \A r \in Requests \ Range(rs) : \/ pc'[r] = pc[r]
                                         \/ pc[r] = "envwait" /\ pc'[r] = "envfailed"
  PROVE  /\ StoragesGoOn /\ ReportInv'
         /\ Shapes /\ env' \in [state : EnvStates, waiters : Seq(Requests)] => Shapes'
         /\ \A e \in Entities : Refers(entityMap[e], e)'
         /\ \A r \in Requests : RequestInv(r)'
         /\ \A s \in DOMAIN storages' : StorageInv(s)'
<1>1. /\ storages' \in Seq(StorageRecords)
      /\ \A s \in DOMAIN storages : s \in DOMAIN storages' /\ storages'[s] = storages[s]
      /\ \A s \in DOMAIN storages' \ DOMAIN storages : New(s)'
  BY StoragesMade DEF StartInv
<1>2. /\ handed' \in [Requests -> Nat]
      /\ \A r \in Requests \ Range(rs) : handed'[r] = handed[r]
      /\ \A r \in Range(rs) : /\ handed'[r] \in DOMAIN storages' \ DOMAIN storages
                              /\ storages'[handed'[r]].entity = Wants[r]
  BY StoragesMade DEF StartInv
<1>3. /\ entityMap' \in [Entities -> Nat]
      /\ \A e \in Entities : \/ entityMap'[e] = entityMap[e]
                             \/ /\ entityMap'[e] \in DOMAIN storages'
                                /\ storages'[entityMap'[e]].entity = e
  BY StoragesMade DEF StartInv
<1>4. StoragesGoOn
  BY <1>1 DEF StoragesGoOn, StorageGoesOn
<1>5. Shapes /\ env' \in [state : EnvStates, waiters : Seq(Requests)] => Shapes'
  BY <1>1, <1>2, <1>3 DEF Shapes
<1>6. ReportInv'
  BY <1>2, ReportKeeps DEF StartInv
<1>7. \A e \in Entities : Refers(entityMap[e], e)'
  BY <1>3, <1>4, MapKeeps
<1>8. ASSUME NEW r \in Requests PROVE RequestInv(r)'
  <2>1. CASE r \in Range(rs)
    <3>1. handed'[r] \in DOMAIN storages' /\ handed'[r] # NoStorage
      <4>1. DOMAIN storages' = 1..Len(storages') /\ Len(storages') \in Nat
        BY <1>1, LenProperties
      <4> QED
        BY <1>2, <2>1, <4>1 DEF NoStorage
    <3> QED
      BY <1>2, <2>1, <3>1 DEF RequestInv, Refers
  <2>2. CASE r \notin Range(rs) /\ pc'[r] = pc[r]
    <3>1. RequestInv(r) /\ handed'[r] = handed[r]
      BY <1>2, <2>2 DEF StartInv
    <3>2. pc[r] = "initwait" => r \in Range(storages'[handed[r]].waiters)
      BY <1>1, <3>1 DEF RequestInv, Refers, Holding
    <3> QED
      BY <1>4, <2>2, <3>1, <3>2, RequestKeeps
  <2>3. CASE r \notin Range(rs) /\ pc'[r] = "envfailed"
    <3>1. RequestInv(r) /\ handed'[r] = handed[r]
      BY <1>2, <2>3 DEF StartInv
    <3>2. PICK h : h = handed[r]
      OBVIOUS
    <3>3. Refers(h, Wants[r])
      BY <3>1, <3>2 DEF RequestInv
    <3>4. Refers(handed[r], Wants[r])'
      BY <1>4, <3>1, <3>2, <3>3, RefersStill DEF Refers
    <3> QED
      BY <2>3, <3>4 DEF RequestInv, Holding
  <2> QED
    BY <2>1, <2>2, <2>3
<1>9. ASSUME NEW s \in DOMAIN storages' PROVE StorageInv(s)'
  <2>1. CASE s \in DOMAIN storages
    <3>1. ASSUME NEW r \in Requests, pc[r] = "initwait" PROVE r \notin Range(rs)
      BY <3>1
    <3> QED
      BY <1>1, <1>2, <1>4, <2>1, <3>1, StorageKeeps
  <2>2. CASE s \notin DOMAIN storages
    BY <1>1, <2>2, NewKeeps
  <2> QED
    BY <2>1, <2>2
<1> QED
  BY <1>4, <1>5, <1>6, <1>7, <1>8, <1>9

LEMMA GetAfterInitGoesOn ==
  ASSUME StartInv, NEW r \in Requests, GetAfterInit(r)
  PROVE  GoesOn
<1>1. /\ pc[r] = "getting" /\ pc'[r] = "has" /\ pc' \in [Requests -> PCs]
      /\ \A q \in Requests \ {r} : pc'[q] = pc[q]
      /\ MakeStorages(<<r>>) /\ UNCHANGED <<env, broken>>
  BY DEF GetAfterInit, StartInv, Shapes, PCs
<1>2. <<r>> \in Seq(Requests) /\ Range(<<r>>) = {r}
  BY DEF Range
<1>3. broken' \in BOOLEAN /\ env' \in [state : EnvStates, waiters : Seq(Requests)] /\ Shapes
  BY <1>1 DEF StartInv, Shapes
<1>4. \A q \in Requests \ {r} : pc'[q] = pc[q] \/ (pc[q] = "envwait" /\ pc'[q] = "envfailed")
  BY <1>1
<1>5. /\ StoragesGoOn /\ ReportInv' /\ Shapes'
      /\ \A e \in Entities : Refers(entityMap[e], e)'
      /\ \A q \in Requests : RequestInv(q)'
      /\ \A s \in DOMAIN storages' : StorageInv(s)'
  BY <1>1, <1>2, <1>3, <1>4, MadeFor
<1>6. EnvInv'
  BY <1>1, EnvKeeps DEF StartInv
<1> QED
  BY <1>1, <1>5, <1>6 DEF GoesOn, StartInv, EnvGoesOn

LEMMA EnvOpenedGoesOn ==
  ASSUME StartInv, EnvOpened
  PROVE  GoesOn
<1>1. /\ env.state = "opening" /\ env' = [state |-> "done", waiters |-> <<>>]
      /\ pc' = [r \in Requests |-> IF r \in Range(env.waiters) THEN "has" ELSE pc[r]]
      /\ MakeStorages(env.waiters) /\ UNCHANGED broken
  BY DEF EnvOpened
<1>2. /\ env.waiters \in Seq(Requests) /\ pc \in [Requests -> PCs] /\ Shapes
      /\ broken' \in BOOLEAN
  BY <1>1 DEF StartInv, Shapes
<1>3. \A r \in Requests : pc[r] = "envwait" <=> r \in Range(env.waiters)
  BY DEF StartInv, EnvInv
<1>4. Range(env.waiters) \subseteq Requests
  BY <1>2, RangeOfSeq
<1>5. /\ pc' \in [Requests -> PCs]
      /\ \A r \in Range(env.waiters) : pc[r] \in {"getting", "envwait"} /\ pc'[r] = "has"
      /\ \A r \in Requests \ Range(env.waiters) : pc'[r] = pc[r]
  BY <1>1, <1>2, <1>3, <1>4 DEF PCs
<1>6. env' \in [state : EnvStates, waiters : Seq(Requests)]
  BY <1>1, EmptySeq DEF EnvStates
<1>7. /\ StoragesGoOn /\ ReportInv' /\ Shapes'
      /\ \A e \in Entities : Refers(entityMap[e], e)'
      /\ \A q \in Requests : RequestInv(q)'
      /\ \A s \in DOMAIN storages' : StorageInv(s)'
  BY <1>1, <1>2, <1>5, <1>6, MadeFor
<1>8. EnvInv'
  <2>1. \A r \in Requests : pc'[r] \notin {"envwait", "envfailed"}
    BY <1>1, <1>3, <1>5 DEF StartInv, EnvInv
  <2>2. /\ Range(env'.waiters) = {} /\ env'.waiters = <<>> /\ env'.state = "done"
        /\ Distinct(env'.waiters)
    BY <1>1 DEF Range, Distinct
  <2> QED
    BY <2>1, <2>2 DEF EnvInv
<1> QED
  BY <1>1, <1>7, <1>8 DEF GoesOn, StartInv, EnvGoesOn, EnvMoves

LEMMA EnvFailsGoesOn ==
  ASSUME StartInv, EnvFails
  PROVE  GoesOn
<1> DEFINE ws == env.waiters
<1>1. /\ env.state = "opening" /\ env' = [state |-> "failed", waiters |-> <<>>]
      /\ broken' = TRUE /\ MakeStorages(Tail(ws))
      /\ pc' = [r \in Requests |-> CASE r \notin Range(ws) -> pc[r]
                                     [] r = Head(ws)       -> "envfailed"
                                     [] OTHER              -> "has"]
  BY DEF EnvFails
<1>2. /\ ws \in Seq(Requests) /\ ws # <<>> /\ pc \in [Requests -> PCs] /\ Shapes
  BY <1>1 DEF StartInv, Shapes, EnvInv
<1>3. \A r \in Requests : pc[r] = "envwait" <=> r \in Range(ws)
  BY DEF StartInv, EnvInv
<1>4. /\ Tail(ws) \in Seq(Requests) /\ Head(ws) \in Requests
      /\ Range(ws) = Range(Tail(ws)) \cup {Head(ws)} /\ Head(ws) \notin Range(Tail(ws))
  BY <1>2, HeadAndTail DEF StartInv, EnvInv
<1>5. Range(Tail(ws)) \subseteq Requests
  BY <1>4, RangeOfSeq
<1> HIDE DEF ws
<1>6. \A r \in Requests : pc'[r] = IF r \in Range(Tail(ws)) THEN "has"
                                   ELSE IF r = Head(ws) THEN "envfailed" ELSE pc[r]
  BY <1>1, <1>4
<1>7. pc' \in [Requests -> PCs]
  <2>1. \A r \in Requests : pc'[r] \in PCs
    BY <1>2, <1>6 DEF PCs
  <2>2. pc' = [r \in Requests |-> pc'[r]]
    BY <1>1
  <2> QED
    BY <2>1, <2>2
<1>8. /\ \A r \in Range(Tail(ws)) : pc[r] \in {"getting", "envwait"} /\ pc'[r] = "has"
      /\ \A r \in Requests \ Range(Tail(ws)) : \/ pc'[r] = pc[r]
                                               \/ pc[r] = "envwait" /\ pc'[r] = "envfailed"
  BY <1>3, <1>4, <1>5, <1>6
<1>9. env' \in [state : EnvStates, waiters : Seq(Requests)] /\ broken' \in BOOLEAN
  BY <1>1, EmptySeq DEF EnvStates
<1>10. /\ StoragesGoOn /\ ReportInv' /\ Shapes'
       /\ \A e \in Entities : Refers(entityMap[e], e)'
       /\ \A q \in Requests : RequestInv(q)'
       /\ \A s \in DOMAIN storages' : StorageInv(s)'
  BY <1>1, <1>2, <1>4, <1>7, <1>8, <1>9, MadeFor
<1>11. EnvInv'
  <2>1. \A r \in Requests : pc'[r] # "envwait" /\ (pc'[r] = "envfailed" => r = Head(ws))
    BY <1>1, <1>3, <1>4, <1>6 DEF StartInv, EnvInv
  <2>2. /\ Range(env'.waiters) = {} /\ env'.waiters = <<>> /\ env'.state = "failed"
        /\ Distinct(env'.waiters)
    BY <1>1 DEF Range, Distinct
  <2> QED
    BY <2>1, <2>2 DEF EnvInv
<1> QED
  BY <1>1, <1>10, <1>11 DEF GoesOn, StartInv, EnvGoesOn, EnvMoves

\* One storage s changes, and requests that it was given to move with it; others
\* may be made.
OnlyMoves(s) ==
  /\ storages' \in Seq(StorageRecords) /\ DOMAIN storages \subseteq DOMAIN storages'
  /\ StorageGoesOn(s)
  /\ \A t \in DOMAIN storages \ {s} : storages'[t] = storages[t]
  /\ \A t \in DOMAIN storages' \ DOMAIN storages : New(t)'
  /\ entityMap' \in [Entities -> Nat]
  /\ \A e \in Entities : \/ entityMap'[e] = entityMap[e]
                         \/ /\ entityMap'[e] \in DOMAIN storages'
                            /\ storages'[entityMap'[e]].entity = e
  /\ pc' \in [Requests -> PCs]
  /\ \A r \in Requests : pc'[r] # pc[r] =>
       /\ handed[r] = s /\ pc[r] \in {"has", "initwait"}
       /\ pc'[r] \in {"initwait", "working", "initfailed"}
       /\ pc'[r] = "working" => storages'[s].state \in {"done", "failed"}
       /\ pc'[r] = "initfailed" => storages'[s].state = "failed"
  /\ \A r \in Requests : pc'[r] = "initwait" /\ handed[r] = s => r \in Range(storages'[s].waiters)
  /\ broken' \in BOOLEAN /\ (broken => broken')
  /\ UNCHANGED <<handed, env>>

LEMMA StorageChanges ==
  ASSUME StartInv, NEW s \in DOMAIN storages, OnlyMoves(s), StorageInv(s)', ReportInv'
  PROVE  GoesOn
<1>0. /\ storages' \in Seq(StorageRecords) /\ entityMap' \in [Entities -> Nat]
      /\ pc' \in [Requests -> PCs] /\ broken' \in BOOLEAN /\ (broken => broken')
      /\ handed' = handed /\ env' = env /\ StorageGoesOn(s)
      /\ \A t \in DOMAIN storages \ {s} : t \in DOMAIN storages' /\ storages'[t] = storages[t]
  BY DEF OnlyMoves
<1>1. StoragesGoOn
  BY <1>0 DEF StoragesGoOn, StorageGoesOn
<1>2. Shapes'
  BY <1>0 DEF StartInv, Shapes
<1>3. EnvInv'
  BY EnvKeeps DEF StartInv, OnlyMoves
<1>4. \A e \in Entities : Refers(entityMap[e], e)'
  BY <1>1, MapKeeps DEF OnlyMoves
<1>5. ASSUME NEW r \in Requests PROVE RequestInv(r)'
  <2>1. RequestInv(r)
    BY DEF StartInv
  <2>2. CASE pc'[r] = pc[r]
    <3>1. pc[r] = "initwait" => r \in Range(storages'[handed[r]].waiters)
      <4>1. CASE handed[r] = s
        BY <2>2, <4>1 DEF OnlyMoves
      <4>2. CASE handed[r] # s
        BY <1>0, <2>1, <4>2 DEF RequestInv, Refers, Holding
      <4> QED
        BY <4>1, <4>2
    <3> QED
      BY <1>0, <1>1, <2>2, <3>1, RequestKeeps
  <2>3. CASE pc'[r] # pc[r]
    <3>1. handed[r] = s /\ handed'[r] = s /\ s # NoStorage
      BY <1>0, <2>1, <2>3 DEF RequestInv, Holding, OnlyMoves
    <3>2. storages[s].entity = Wants[r]
      BY <2>1, <3>1 DEF RequestInv, Refers
    <3>3. Refers(handed[r], Wants[r])'
      BY <1>0, <3>1, <3>2 DEF Refers, StorageGoesOn
    <3>4. /\ pc'[r] \in {"initwait", "working", "initfailed"}
          /\ pc'[r] = "working" => storages'[s].state \in {"done", "failed"}
          /\ pc'[r] = "initfailed" => storages'[s].state = "failed"
          /\ pc'[r] = "initwait" => r \in Range(storages'[s].waiters)
      BY <2>3, <3>1 DEF OnlyMoves
    <3> QED
      BY <3>1, <3>3, <3>4 DEF RequestInv
  <2> QED
    BY <2>2, <2>3
<1>6. ASSUME NEW t \in DOMAIN storages' PROVE StorageInv(t)'
  <2>1. CASE t \in DOMAIN storages \ {s}
    <3>1. \A r \in Requests : pc[r] = "initwait" /\ handed[r] = t =>
                                 pc'[r] = "initwait" /\ handed'[r] = t
      BY <1>0, <2>1 DEF OnlyMoves
    <3> QED
      BY <1>0, <1>1, <2>1, <3>1, StorageKeeps
  <2>2. CASE t \notin DOMAIN storages
    BY <2>2, NewKeeps DEF OnlyMoves
  <2> QED
    BY <2>1, <2>2
<1> QED
  BY <1>0, <1>1, <1>2, <1>3, <1>4, <1>5, <1>6 DEF GoesOn, StartInv, EnvGoesOn

LEMMA InitStorageGoesOn ==
  ASSUME StartInv, NEW r \in Requests, NEW s, s = handed[r], InitStorage(r)
  PROVE  GoesOn
<1> DEFINE st == [storages[s] EXCEPT !.state   = IF @ = "none" THEN "scheduled" ELSE @,
                                     !.waiters = Append(@, r)]
<1>1. /\ pc[r] = "has" /\ pc'[r] = "initwait" /\ pc' \in [Requests -> PCs]
      /\ \A q \in Requests \ {r} : pc'[q] = pc[q]
      /\ storages' = [storages EXCEPT ![s] = st]
      /\ storages[s].state \in {"none", "scheduled", "opening", "fields"}
      /\ UNCHANGED <<handed, env, entityMap, broken>>
  BY DEF InitStorage, StartInv, Shapes, PCs
<1>2. s \in DOMAIN storages /\ StorageInv(s)
  BY <1>1 DEF StartInv, RequestInv, Refers, Holding
<1>3. storages[s] \in StorageRecords
  BY <1>2, ElementOfSeq DEF StartInv, Shapes
<1>4. st \in StorageRecords
  BY <1>3, AppendRange DEF StorageRecords, StorageStates
<1>5. /\ storages' \in Seq(StorageRecords) /\ DOMAIN storages' = DOMAIN storages
      /\ storages'[s] = st /\ \A t \in DOMAIN storages \ {s} : storages'[t] = storages[t]
  BY <1>1, <1>2, <1>4, OneChanges DEF StartInv
<1>6. /\ st.entity = storages[s].entity /\ st.opened = storages[s].opened
      /\ st.fields = storages[s].fields
      /\ st.state = IF storages[s].state = "none" THEN "scheduled" ELSE storages[s].state
      /\ st.waiters # <<>> /\ Range(st.waiters) = Range(storages[s].waiters) \cup {r}
  BY <1>3, AppendRange DEF StorageRecords
<1> HIDE DEF st
<1>7. StorageGoesOn(s)
  BY <1>2, <1>5, <1>6 DEF StorageGoesOn, StorageMoves
<1>8. StoragesGoOn
  BY <1>5, <1>7 DEF StoragesGoOn, StorageGoesOn
<1>9. Range(storages[s].waiters) \subseteq Requests
  BY <1>3, RangeOfSeq DEF StorageRecords
<1>10. StorageInv(s)'
  <2>1. /\ DOMAIN storages'[s].fields = FieldsOf(storages'[s].entity)
        /\ \A f \in DOMAIN storages'[s].fields : Refers(storages[s].fields[f], TypeOf[f])'
    BY <1>2, <1>5, <1>6, <1>8, FieldsKeep
  <2>2. \A q \in Range(storages'[s].waiters) : pc'[q] = "initwait" /\ handed'[q] = s
    BY <1>1, <1>2, <1>5, <1>6, <1>9 DEF StorageInv
  <2>3. /\ storages'[s].waiters # <<>> /\ storages'[s].opened = storages[s].opened
        /\ storages'[s].state \in {"scheduled", "opening", "fields"}
        /\ storages'[s].state = "fields" => storages[s].state = "fields"
    BY <1>1, <1>5, <1>6
  <2> QED
    BY <1>2, <2>1, <2>2, <2>3 DEF StorageInv
<1>11. ReportInv'
  BY <1>1, ReportKeeps DEF StartInv
<1>12. /\ broken' \in BOOLEAN /\ (broken => broken') /\ entityMap' \in [Entities -> Nat]
       /\ \A q \in Requests : pc'[q] = "initwait" /\ handed[q] = s => q \in Range(storages'[s].waiters)
  BY <1>1, <1>2, <1>5, <1>6 DEF StartInv, Shapes, RequestInv
<1>13. OnlyMoves(s)
  BY <1>1, <1>5, <1>7, <1>12 DEF OnlyMoves
<1> QED
  BY <1>2, <1>10, <1>11, <1>13, StorageChanges

\* Steps of the Berkeley DB calls that no request takes note of.
LEMMA QuietGoesOn ==
  ASSUME StartInv, NEW s \in DOMAIN storages, OpenStorage(s) \/ PhaseDone(s)
  PROVE  GoesOn
<1>1. storages[s] \in StorageRecords /\ StorageInv(s)
  BY ElementOfSeq DEF StartInv, Shapes
<1>2. PICK st \in StorageRecords :
        /\ storages' = [storages EXCEPT ![s] = st]
        /\ st.entity = storages[s].entity /\ st.fields = storages[s].fields
        /\ st.waiters = storages[s].waiters
        /\ st.state = "opening" /\ storages[s].state \in {"scheduled", "opening"}
  <2>1. CASE OpenStorage(s)
    <3> DEFINE st == [storages[s] EXCEPT !.state = "opening"]
    <3>1. st \in StorageRecords /\ storages' = [storages EXCEPT ![s] = st]
      BY <1>1, <2>1 DEF OpenStorage, StorageRecords, StorageStates
    <3> QED
      BY <1>1, <2>1, <3>1 DEF OpenStorage, StorageRecords
  <2>2. CASE PhaseDone(s)
    <3> DEFINE st == [storages[s] EXCEPT !.opened = @ + 1]
    <3>1. storages[s].opened + 1 \in 0..Len(Phases)
      BY <1>1, <2>2 DEF PhaseDone, StorageRecords, Phases
    <3>2. st \in StorageRecords /\ storages' = [storages EXCEPT ![s] = st]
      BY <1>1, <2>2, <3>1 DEF PhaseDone, StorageRecords
    <3> QED
      BY <1>1, <2>2, <3>2 DEF PhaseDone, StorageRecords
  <2> QED
    BY <2>1, <2>2
<1>3. UNCHANGED <<pc, handed, env, entityMap, broken>>
  BY DEF OpenStorage, PhaseDone
<1>4. /\ storages' \in Seq(StorageRecords) /\ DOMAIN storages' = DOMAIN storages
      /\ storages'[s] = st /\ \A t \in DOMAIN storages \ {s} : storages'[t] = storages[t]
  BY <1>2, OneChanges DEF StartInv
<1>5. StorageGoesOn(s)
  BY <1>2, <1>4 DEF StorageGoesOn, StorageMoves
<1>6. StoragesGoOn
  BY <1>4, <1>5 DEF StoragesGoOn, StorageGoesOn
<1>7. StorageInv(s)'
  <2>1. /\ DOMAIN storages'[s].fields = FieldsOf(storages'[s].entity)
        /\ \A f \in DOMAIN storages'[s].fields : Refers(storages[s].fields[f], TypeOf[f])'
    BY <1>2, <1>4, <1>6, FieldsKeep
  <2> QED
    BY <1>1, <1>2, <1>3, <1>4, <2>1 DEF StorageInv
<1>8. ReportInv'
  BY <1>3 DEF StartInv, ReportInv
<1>9. OnlyMoves(s)
  <2>1. \A q \in Requests : pc'[q] = "initwait" /\ handed[q] = s => q \in Range(storages'[s].waiters)
    BY <1>2, <1>3, <1>4 DEF StartInv, RequestInv
  <2> QED
    BY <1>3, <1>4, <1>5, <2>1 DEF OnlyMoves, StartInv, Shapes
<1> QED
  BY <1>7, <1>8, <1>9, StorageChanges

\* The first who waits is told of the failure.
LEMMA PhaseFailsGoesOn ==
  ASSUME StartInv, NEW s \in DOMAIN storages, PhaseFails(s)
  PROVE  GoesOn
<1> DEFINE ws == storages[s].waiters
           st == [storages[s] EXCEPT !.state = "failed", !.waiters = <<>>]
<1>1. storages[s] \in StorageRecords /\ StorageInv(s)
  BY ElementOfSeq DEF StartInv, Shapes
<1>2. /\ storages[s].state = "opening" /\ broken' = TRUE
      /\ pc' = [r \in Requests |-> CASE r \notin Range(ws) -> pc[r]
                                     [] r = Head(ws)       -> "initfailed"
                                     [] OTHER              -> "working"]
      /\ storages' = [storages EXCEPT ![s] = st]
      /\ UNCHANGED <<handed, env, entityMap>>
  BY DEF PhaseFails
<1>3. st \in StorageRecords
  BY <1>1, EmptySeq DEF StorageRecords, StorageStates
<1>4. /\ st.entity = storages[s].entity /\ st.fields = storages[s].fields
      /\ st.waiters = <<>> /\ st.state = "failed"
  BY <1>1 DEF StorageRecords
<1>5. /\ storages' \in Seq(StorageRecords) /\ DOMAIN storages' = DOMAIN storages
      /\ storages'[s] = st /\ \A t \in DOMAIN storages \ {s} : storages'[t] = storages[t]
  BY <1>2, <1>3, OneChanges DEF StartInv
<1>6. \A r \in Requests : r \in Range(ws) <=> pc[r] = "initwait" /\ handed[r] = s
  BY <1>1 DEF StartInv, StorageInv, RequestInv
<1> HIDE DEF st, ws
<1>7. \A r \in Requests : pc'[r] = IF r \notin Range(ws) THEN pc[r]
                                   ELSE IF r = Head(ws) THEN "initfailed" ELSE "working"
  <2> TAKE r \in Requests
  <2>1. pc'[r] = CASE r \notin Range(ws) -> pc[r]
                   [] r = Head(ws)       -> "initfailed"
                   [] OTHER              -> "working"
    BY <1>2
  <2>2. CASE r \notin Range(ws)
    <3>1. r # Head(ws)
      <4>1. ws # <<>> /\ ws \in Seq(Requests)
        BY <1>1, <1>2 DEF StorageInv, StorageRecords, ws
      <4> QED
        BY <2>2, <4>1, HeadAndTail
    <3> QED
      BY <2>1, <2>2, <3>1
  <2>3. CASE r \in Range(ws)
    BY <2>1, <2>3
  <2> QED
    BY <2>2, <2>3
<1>8. pc' \in [Requests -> PCs]
  <2>1. \A r \in Requests : pc'[r] \in PCs
    BY <1>7 DEF StartInv, Shapes, PCs
  <2>2. pc' = [r \in Requests |-> pc'[r]]
    BY <1>2
  <2> QED
    BY <2>1, <2>2
<1>9. StorageGoesOn(s)
  BY <1>2, <1>4, <1>5 DEF StorageGoesOn, StorageMoves
<1>10. StoragesGoOn
  BY <1>5, <1>9 DEF StoragesGoOn, StorageGoesOn
<1>11. StorageInv(s)'
  <2>1. /\ DOMAIN storages'[s].fields = FieldsOf(storages'[s].entity)
        /\ \A f \in DOMAIN storages'[s].fields : Refers(storages[s].fields[f], TypeOf[f])'
    BY <1>4, <1>5, <1>10, FieldsKeep
  <2>2. Range(storages'[s].waiters) = {}
    BY <1>4, <1>5 DEF Range
  <2> QED
    BY <1>2, <1>4, <1>5, <2>1, <2>2 DEF StorageInv
<1>12. ReportInv'
  <2>1. ASSUME NEW r \in Requests, NEW q \in Requests,
               pc'[r] = "initfailed", pc'[q] = "initfailed", handed[r] = handed[q]
        PROVE  r = q
    <3>1. ASSUME NEW p \in Requests, pc[p] = "initfailed" PROVE handed[p] # s
      BY <1>2, <3>1 DEF StartInv, RequestInv
    <3>2. CASE r \in Range(ws) /\ q \in Range(ws)
      BY <1>7, <2>1, <3>2
    <3>3. CASE r \notin Range(ws) \/ q \notin Range(ws)
      BY <1>6, <1>7, <2>1, <3>1, <3>3 DEF StartInv, ReportInv
    <3> QED
      BY <3>2, <3>3
  <2> QED
    BY <1>2, <2>1 DEF ReportInv
<1>13. OnlyMoves(s)
  <2>1. \A r \in Requests : pc'[r] = "initwait" => handed[r] # s
    BY <1>6, <1>7
  <2>2. \A r \in Requests : pc'[r] # pc[r] =>
          /\ handed[r] = s /\ pc[r] = "initwait" /\ pc'[r] \in {"working", "initfailed"}
          /\ storages'[s].state = "failed"
    BY <1>4, <1>5, <1>6, <1>7
  <2> QED
    BY <1>2, <1>5, <1>8, <1>9, <2>1, <2>2 DEF OnlyMoves, StartInv, Shapes
<1> QED
  BY <1>11, <1>12, <1>13, StorageChanges

\* The init of s is complete, and everyone who waits for it goes on.
LEMMA WaitersGoOn ==
  ASSUME StartInv, NEW s \in DOMAIN storages, storages'[s].state = "done", handed' = handed,
         pc' = [r \in Requests |-> IF r \in Range(storages[s].waiters) THEN "working" ELSE pc[r]]
  PROVE  /\ pc' \in [Requests -> PCs] /\ ReportInv'
         /\ \A r \in Requests : pc'[r] = "initwait" => handed[r] # s
         /\ \A r \in Requests : pc'[r] # pc[r] =>
              /\ handed[r] = s /\ pc[r] \in {"has", "initwait"}
              /\ pc'[r] \in {"initwait", "working", "initfailed"}
              /\ pc'[r] = "working" => storages'[s].state \in {"done", "failed"}
              /\ pc'[r] = "initfailed" => storages'[s].state = "failed"
<1>1. \A r \in Requests : r \in Range(storages[s].waiters) <=> pc[r] = "initwait" /\ handed[r] = s
  BY DEF StartInv, StorageInv, RequestInv
<1>2. pc' \in [Requests -> PCs]
  BY DEF StartInv, Shapes, PCs
<1>3. ReportInv'
  BY <1>1, ReportKeeps DEF StartInv
<1> QED
  BY <1>1, <1>2, <1>3

\* All calls succeeded: the reference fields that the map has are set.
LEMMA GetStoragesGoesOn ==
  ASSUME StartInv, NEW s \in DOMAIN storages, GetStorages(s)
  PROVE  GoesOn
<1> DEFINE fields == [f \in FieldsOf(storages[s].entity) |-> entityMap[TypeOf[f]]]
           all    == \A f \in DOMAIN fields : fields[f] # NoStorage
<1>1. storages[s] \in StorageRecords /\ StorageInv(s) /\ storages[s].state = "opening"
  BY ElementOfSeq DEF StartInv, Shapes, GetStorages
<1>2. PICK st \in StorageRecords :
        /\ storages' = [storages EXCEPT ![s] = st]
        /\ st.entity = storages[s].entity /\ st.fields = fields /\ st.opened = Len(Phases)
        /\ IF all
           THEN /\ st.state = "done" /\ st.waiters = <<>>
                /\ pc' = [r \in Requests |->
                            IF r \in Range(storages[s].waiters) THEN "working" ELSE pc[r]]
           ELSE /\ st.state = "fields" /\ st.waiters = storages[s].waiters
                /\ pc' = pc
  <2>1. fields \in FieldMaps
    <3>1. FieldsOf(storages[s].entity) \in SUBSET Fields
      BY DEF FieldsOf
    <3>2. \A f \in FieldsOf(storages[s].entity) : entityMap[TypeOf[f]] \in Nat
      BY <3>1, InitAssumption DEF StartInv, Shapes
    <3> QED
      BY <3>1, <3>2 DEF FieldMaps
  <2>2. Len(Phases) \in 0..Len(Phases) /\ <<>> \in Seq(Requests)
    BY EmptySeq DEF Phases
  <2>3. CASE all
    <3> DEFINE st == [storages[s] EXCEPT !.state = "done", !.waiters = <<>>,
                                         !.opened = Len(Phases), !.fields = fields]
    <3>1. /\ storages' = [storages EXCEPT ![s] = st]
          /\ pc' = [r \in Requests |->
                      IF r \in Range(storages[s].waiters) THEN "working" ELSE pc[r]]
      BY <2>3 DEF GetStorages, Complete
    <3> HIDE DEF fields
    <3>2. /\ st \in StorageRecords /\ st.entity = storages[s].entity /\ st.fields = fields
          /\ st.opened = Len(Phases) /\ st.state = "done" /\ st.waiters = <<>>
      BY <1>1, <2>1, <2>2 DEF StorageRecords, StorageStates
    <3> HIDE DEF st, all
    <3> QED
      BY <2>3, <3>1, <3>2
  <2>4. CASE ~all
    <3> DEFINE st == [storages[s] EXCEPT !.state = "fields", !.fields = fields,
                                         !.opened = Len(Phases)]
    <3>1. /\ storages' = [storages EXCEPT ![s] = st] /\ pc' = pc
      BY <2>4 DEF GetStorages
    <3> HIDE DEF fields
    <3>2. /\ st \in StorageRecords /\ st.entity = storages[s].entity /\ st.fields = fields
          /\ st.opened = Len(Phases) /\ st.state = "fields" /\ st.waiters = storages[s].waiters
      BY <1>1, <2>1, <2>2 DEF StorageRecords, StorageStates
    <3> HIDE DEF st, all
    <3> QED
      BY <2>4, <3>1, <3>2
  <2> QED
    BY <2>3, <2>4
<1>3. UNCHANGED <<handed, env, entityMap, broken>>
  BY DEF GetStorages
<1>4. /\ storages' \in Seq(StorageRecords) /\ DOMAIN storages' = DOMAIN storages
      /\ storages'[s] = st /\ \A t \in DOMAIN storages \ {s} : storages'[t] = storages[t]
  BY <1>2, OneChanges DEF StartInv
<1>5. StorageGoesOn(s)
  BY <1>1, <1>2, <1>4 DEF StorageGoesOn, StorageMoves
<1>6. StoragesGoOn
  BY <1>4, <1>5 DEF StoragesGoOn, StorageGoesOn
<1>7. /\ DOMAIN st.fields = FieldsOf(st.entity)
      /\ \A f \in DOMAIN st.fields : Refers(st.fields[f], TypeOf[f])'
  <2>1. DOMAIN st.fields = FieldsOf(st.entity)
    BY <1>2
  <2>2. ASSUME NEW f \in DOMAIN st.fields PROVE Refers(st.fields[f], TypeOf[f])'
    <3>1. f \in Fields /\ TypeOf[f] \in Entities /\ st.fields[f] = entityMap[TypeOf[f]]
      BY <1>2, <2>2, InitAssumption DEF FieldsOf
    <3>2. Refers(st.fields[f], TypeOf[f])
      BY <3>1 DEF StartInv
    <3>3. st.fields[f] # NoStorage =>
             st.fields[f] \in DOMAIN storages' /\ storages'[st.fields[f]].entity = TypeOf[f]
      BY <1>6, <3>2, RefersStill
    <3> QED
      BY <3>3 DEF Refers
  <2> QED
    BY <2>1, <2>2
<1>8. CASE all
  <2>1. /\ st.state = "done" /\ st.waiters = <<>>
        /\ pc' = [r \in Requests |-> IF r \in Range(storages[s].waiters) THEN "working" ELSE pc[r]]
    BY <1>2, <1>8
  <2>2. /\ pc' \in [Requests -> PCs] /\ ReportInv'
        /\ \A r \in Requests : pc'[r] = "initwait" => handed[r] # s
        /\ \A r \in Requests : pc'[r] # pc[r] =>
             /\ handed[r] = s /\ pc[r] \in {"has", "initwait"}
             /\ pc'[r] \in {"initwait", "working", "initfailed"}
             /\ pc'[r] = "working" => storages'[s].state \in {"done", "failed"}
             /\ pc'[r] = "initfailed" => storages'[s].state = "failed"
    BY <1>3, <1>4, <2>1, WaitersGoOn
  <2>3. StorageInv(s)'
    <3>1. Range(st.waiters) = {}
      BY <2>1 DEF Range
    <3>2. \A f \in DOMAIN st.fields : st.fields[f] # NoStorage
      BY <1>2, <1>8
    <3> QED
      BY <1>2, <1>4, <1>7, <2>1, <3>1, <3>2 DEF StorageInv
  <2>4. OnlyMoves(s)
    BY <1>3, <1>4, <1>5, <2>2 DEF OnlyMoves, StartInv, Shapes
  <2> QED
    BY <2>2, <2>3, <2>4, StorageChanges
<1>9. CASE ~all
  <2>1. st.state = "fields" /\ st.waiters = storages[s].waiters /\ pc' = pc
    BY <1>2, <1>9
  <2>2. StorageInv(s)'
    BY <1>1, <1>2, <1>3, <1>4, <1>7, <2>1 DEF StorageInv
  <2>3. \A q \in Requests : pc'[q] = "initwait" /\ handed[q] = s => q \in Range(storages'[s].waiters)
    BY <1>4, <2>1 DEF StartInv, RequestInv
  <2>4. OnlyMoves(s)
    BY <1>3, <1>4, <1>5, <2>1, <2>3 DEF OnlyMoves, StartInv, Shapes
  <2>5. ReportInv'
    BY <1>3, <2>1 DEF StartInv, ReportInv
  <2> QED
    BY <2>2, <2>4, <2>5, StorageChanges
<1> QED
  BY <1>8, <1>9

\* What the answer for a reference field f does: the storage of f comes after
\* the last, and the init of s is complete when no field is missing.
FieldSet(s, f, new) ==
  /\ new \in Nat /\ new # NoStorage /\ new \notin DOMAIN storages
  /\ TypeOf[f] \in Entities /\ entityMap' = [entityMap EXCEPT ![TypeOf[f]] = new]
  /\ storages[s].state = "fields" /\ f \in DOMAIN storages[s].fields
  /\ storages[s].fields[f] = NoStorage
  /\ storages' \in Seq(StorageRecords) /\ DOMAIN storages' = DOMAIN storages \cup {new}
  /\ storages'[new] = NewStorage(TypeOf[f])
  /\ \A t \in DOMAIN storages \ {s} : storages'[t] = storages[t]
  /\ storages'[s].entity = storages[s].entity /\ storages'[s].opened = Len(Phases)
  /\ DOMAIN storages'[s].fields = DOMAIN storages[s].fields
  /\ storages'[s].fields[f] = new
  /\ \A g \in DOMAIN storages[s].fields \ {f} :
       storages'[s].fields[g] = storages[s].fields[g]
  /\ IF \A g \in DOMAIN storages'[s].fields : storages'[s].fields[g] # NoStorage
     THEN /\ storages'[s].state = "done" /\ storages'[s].waiters = <<>>
          /\ pc' = [r \in Requests |->
                      IF r \in Range(storages[s].waiters) THEN "working" ELSE pc[r]]
     ELSE /\ storages'[s].state = "fields"
          /\ storages'[s].waiters = storages[s].waiters /\ pc' = pc

LEMMA FieldIsSet ==
  ASSUME StartInv, NEW s \in DOMAIN storages, NEW f \in Fields, GetField(s, f),
         NEW new, new = Len(storages) + 1
  PROVE  FieldSet(s, f, new)
<1>1. /\ storages[s].state = "fields" /\ f \in DOMAIN storages[s].fields
      /\ storages[s].fields[f] = NoStorage /\ entityMap' = [entityMap EXCEPT ![TypeOf[f]] = new]
  BY DEF GetField
<1>2. storages[s] \in StorageRecords /\ StorageInv(s) /\ TypeOf[f] \in Entities
  BY ElementOfSeq, InitAssumption DEF StartInv, Shapes
<1>3. /\ new \in Nat /\ new # NoStorage /\ new \notin DOMAIN storages
      /\ Len(storages) \in Nat /\ DOMAIN storages = 1..Len(storages)
  BY LenProperties DEF StartInv, Shapes, NoStorage
<1>4. PICK fields \in FieldMaps :
        /\ fields = [storages[s].fields EXCEPT ![f] = new]
        /\ DOMAIN fields = DOMAIN storages[s].fields /\ fields[f] = new
        /\ \A g \in DOMAIN fields \ {f} : fields[g] = storages[s].fields[g]
  <2>1. PICK F \in SUBSET Fields : storages[s].fields \in [F -> Nat]
    BY <1>2 DEF StorageRecords, FieldMaps
  <2>2. [storages[s].fields EXCEPT ![f] = new] \in [F -> Nat]
    BY <1>3, <2>1
  <2>3. [storages[s].fields EXCEPT ![f] = new] \in FieldMaps
    BY <2>1, <2>2 DEF FieldMaps
  <2> QED
    BY <1>1, <2>3
<1>5. PICK last \in BOOLEAN : last = (\A g \in DOMAIN fields : fields[g] # NoStorage)
  OBVIOUS
<1>6. PICK st \in StorageRecords :
        /\ storages' = Append([storages EXCEPT ![s] = st], NewStorage(TypeOf[f]))
        /\ st.entity = storages[s].entity /\ st.fields = fields
        /\ st.opened = Len(Phases)
        /\ st.state = IF last THEN "done" ELSE "fields"
        /\ st.waiters = IF last THEN <<>> ELSE storages[s].waiters
  <2> DEFINE st == [storages[s] EXCEPT !.fields  = fields,
                                       !.state   = IF last THEN "done" ELSE @,
                                       !.waiters = IF last THEN <<>> ELSE @]
  <2>1. <<>> \in Seq(Requests) /\ storages[s].opened = Len(Phases)
    BY <1>1, <1>2, EmptySeq DEF StorageInv
  <2>2. storages' = Append([storages EXCEPT ![s] = st], NewStorage(TypeOf[f]))
    BY <1>3, <1>4, <1>5 DEF GetField
  <2>3. /\ st \in StorageRecords /\ st.entity = storages[s].entity /\ st.fields = fields
        /\ st.opened = Len(Phases)
        /\ st.state = IF last THEN "done" ELSE "fields"
        /\ st.waiters = IF last THEN <<>> ELSE storages[s].waiters
    BY <1>1, <1>2, <2>1 DEF StorageRecords, StorageStates
  <2> QED
    BY <2>2, <2>3
<1>7. /\ storages' \in Seq(StorageRecords) /\ DOMAIN storages' = DOMAIN storages \cup {new}
      /\ storages'[new] = NewStorage(TypeOf[f])
      /\ storages'[s] = st /\ \A t \in DOMAIN storages \ {s} : storages'[t] = storages[t]
  <2> DEFINE base == [storages EXCEPT ![s] = st]
  <2>1. /\ base \in Seq(StorageRecords) /\ Len(base) = Len(storages)
        /\ base[s] = st /\ \A t \in DOMAIN storages \ {s} : base[t] = storages[t]
    BY <1>3, <1>6, ExceptSeq DEF StartInv, Shapes
  <2>2. NewStorage(TypeOf[f]) \in StorageRecords
    BY <1>2, NewStorageIs
  <2> HIDE DEF base
  <2>3. /\ Append(base, NewStorage(TypeOf[f])) \in Seq(StorageRecords)
        /\ Len(Append(base, NewStorage(TypeOf[f]))) = Len(base) + 1
        /\ \A i \in 1..Len(base) : Append(base, NewStorage(TypeOf[f]))[i] = base[i]
        /\ Append(base, NewStorage(TypeOf[f]))[Len(base) + 1] = NewStorage(TypeOf[f])
    BY <2>1, <2>2, AppendProperties
  <2>4. storages' = Append(base, NewStorage(TypeOf[f]))
    BY <1>6 DEF base
  <2>5. DOMAIN storages' = 1..(Len(storages) + 1)
    BY <2>1, <2>3, <2>4, LenProperties
  <2>6. DOMAIN storages' = DOMAIN storages \cup {new}
    BY <1>3, <2>5
  <2> QED
    BY <1>3, <2>1, <2>3, <2>4, <2>6
<1>8. pc' = [r \in Requests |->
                IF last /\ r \in Range(storages[s].waiters) THEN "working" ELSE pc[r]]
  BY <1>3, <1>4, <1>5 DEF GetField
<1>9. CASE last
  <2>1. pc' = [r \in Requests |-> IF r \in Range(storages[s].waiters) THEN "working" ELSE pc[r]]
    BY <1>8, <1>9
  <2> QED
    <3>1. /\ storages'[s].state = "done" /\ storages'[s].waiters = <<>>
          /\ storages'[s].fields = fields /\ storages'[s].entity = storages[s].entity
          /\ storages'[s].opened = Len(Phases)
          /\ \A g \in DOMAIN fields : fields[g] # NoStorage
      BY <1>5, <1>6, <1>7, <1>9
    <3> QED
      BY <1>1, <1>2, <1>3, <1>4, <1>7, <2>1, <3>1 DEF FieldSet
<1>10. CASE ~last
  <2>1. pc' = pc
    BY <1>8, <1>10 DEF StartInv, Shapes
  <2> QED
    BY <1>1, <1>2, <1>3, <1>4, <1>5, <1>6, <1>7, <1>10, <2>1 DEF FieldSet
<1> QED
  BY <1>9, <1>10

\* A reference field gets a storage of its own; the last one completes init.
LEMMA GetFieldGoesOn ==
  ASSUME StartInv, NEW s \in DOMAIN storages, NEW f \in Fields, GetField(s, f)
  PROVE  GoesOn
<1> DEFINE all == \A g \in DOMAIN storages'[s].fields : storages'[s].fields[g] # NoStorage
<1>1. PICK new : FieldSet(s, f, new)
  BY FieldIsSet
<1>2. /\ new \in Nat /\ new # NoStorage /\ new \notin DOMAIN storages
      /\ TypeOf[f] \in Entities /\ entityMap' = [entityMap EXCEPT ![TypeOf[f]] = new]
      /\ storages[s].state = "fields" /\ f \in DOMAIN storages[s].fields
      /\ UNCHANGED <<handed, env, broken>>
  BY <1>1 DEF FieldSet, GetField
<1>3. /\ storages' \in Seq(StorageRecords) /\ DOMAIN storages' = DOMAIN storages \cup {new}
      /\ storages'[new] = NewStorage(TypeOf[f])
      /\ \A t \in DOMAIN storages \ {s} : storages'[t] = storages[t]
      /\ storages'[s].entity = storages[s].entity /\ storages'[s].opened = Len(Phases)
  BY <1>1 DEF FieldSet
<1>4. /\ DOMAIN storages'[s].fields = DOMAIN storages[s].fields
      /\ storages'[s].fields[f] = new
      /\ \A g \in DOMAIN storages[s].fields \ {f} : storages'[s].fields[g] = storages[s].fields[g]
  BY <1>1 DEF FieldSet
<1>5. IF all
      THEN /\ storages'[s].state = "done" /\ storages'[s].waiters = <<>>
           /\ pc' = [r \in Requests |->
                       IF r \in Range(storages[s].waiters) THEN "working" ELSE pc[r]]
      ELSE /\ storages'[s].state = "fields"
           /\ storages'[s].waiters = storages[s].waiters /\ pc' = pc
  BY <1>1 DEF FieldSet
<1>6. StorageInv(s)
  BY DEF StartInv
<1> HIDE DEF all
<1>7. New(new)' /\ DOMAIN storages' \ DOMAIN storages = {new}
  <2>1. storages'[new] = NewStorage(storages'[new].entity) /\ storages'[new].entity \in Entities
    BY <1>2, <1>3, NewStorageIs
  <2> QED
    BY <1>2, <1>3, <2>1 DEF New
<1>8. StorageGoesOn(s)
  BY <1>2, <1>3, <1>5 DEF StorageGoesOn, StorageMoves
<1>9. StoragesGoOn
  BY <1>3, <1>8 DEF StoragesGoOn, StorageGoesOn
<1>10. /\ DOMAIN storages'[s].fields = FieldsOf(storages'[s].entity)
       /\ \A g \in DOMAIN storages'[s].fields : Refers(storages[s].fields[g], TypeOf[g])'
  <2>1. DOMAIN storages'[s].fields = FieldsOf(storages'[s].entity)
    BY <1>3, <1>4, <1>6 DEF StorageInv
  <2>2. ASSUME NEW g \in DOMAIN storages'[s].fields PROVE Refers(storages[s].fields[g], TypeOf[g])'
    <3>1. CASE g = f
      <4>1. storages'[new].entity = TypeOf[f] /\ new \in DOMAIN storages'
        BY <1>2, <1>3, NewStorageIs
      <4> QED
        BY <1>4, <3>1, <4>1 DEF Refers
    <3>2. CASE g # f
      <4>1. PICK t : t = storages[s].fields[g]
        OBVIOUS
      <4>2. Refers(t, TypeOf[g]) /\ storages'[s].fields[g] = t
        BY <1>4, <1>6, <2>2, <3>2, <4>1 DEF StorageInv
      <4>3. t # NoStorage => t \in DOMAIN storages' /\ storages'[t].entity = TypeOf[g]
        BY <1>9, <4>2, RefersStill
      <4> QED
        BY <4>2, <4>3 DEF Refers
    <3> QED
      BY <3>1, <3>2
  <2> QED
    BY <2>1, <2>2
<1>11. /\ entityMap' \in [Entities -> Nat]
       /\ \A e \in Entities : \/ entityMap'[e] = entityMap[e]
                              \/ /\ entityMap'[e] \in DOMAIN storages'
                                 /\ storages'[entityMap'[e]].entity = e
  <2>1. storages'[new].entity = TypeOf[f] /\ new \in DOMAIN storages'
    BY <1>2, <1>3, NewStorageIs
  <2> QED
    BY <1>2, <2>1 DEF StartInv, Shapes
<1>12. CASE all
  <2>1. /\ storages'[s].state = "done" /\ storages'[s].waiters = <<>>
        /\ pc' = [r \in Requests |-> IF r \in Range(storages[s].waiters) THEN "working" ELSE pc[r]]
    BY <1>5, <1>12
  <2>2. /\ pc' \in [Requests -> PCs] /\ ReportInv'
        /\ \A r \in Requests : pc'[r] = "initwait" => handed[r] # s
        /\ \A r \in Requests : pc'[r] # pc[r] =>
             /\ handed[r] = s /\ pc[r] \in {"has", "initwait"}
             /\ pc'[r] \in {"initwait", "working", "initfailed"}
             /\ pc'[r] = "working" => storages'[s].state \in {"done", "failed"}
             /\ pc'[r] = "initfailed" => storages'[s].state = "failed"
    BY <1>2, <2>1, WaitersGoOn
  <2>3. StorageInv(s)'
    <3>1. Range(storages'[s].waiters) = {}
      BY <2>1 DEF Range
    <3>2. \A g \in DOMAIN storages'[s].fields : storages'[s].fields[g] # NoStorage
      BY <1>12 DEF all
    <3> QED
      BY <1>3, <1>10, <2>1, <3>1, <3>2 DEF StorageInv
  <2>4. OnlyMoves(s)
    BY <1>2, <1>3, <1>7, <1>8, <1>11, <2>2 DEF OnlyMoves, StartInv, Shapes
  <2> QED
    BY <2>2, <2>3, <2>4, StorageChanges
<1>13. CASE ~all
  <2>1. /\ storages'[s].state = "fields" /\ storages'[s].waiters = storages[s].waiters
        /\ pc' = pc
    BY <1>5, <1>13
  <2>2. StorageInv(s)'
    BY <1>2, <1>3, <1>6, <1>10, <2>1 DEF StorageInv
  <2>3. \A q \in Requests : pc'[q] = "initwait" /\ handed[q] = s => q \in Range(storages'[s].waiters)
    BY <2>1 DEF StartInv, RequestInv
  <2>4. OnlyMoves(s)
    BY <1>2, <1>3, <1>7, <1>8, <1>11, <2>1, <2>3 DEF OnlyMoves, StartInv, Shapes
  <2>5. ReportInv'
    BY <1>2, <2>1 DEF StartInv, ReportInv
  <2> QED
    BY <2>2, <2>4, <2>5, StorageChanges
<1> QED
  BY <1>12, <1>13

-----------------------------------------------------------------------------
(* The invariant.                                                          *)

LEMMA StartInvInit ==
  ASSUME Init
  PROVE  StartInv
<1>1. /\ env.waiters = <<>> /\ storages = <<>> /\ env.state = "none"
      /\ <<>> \in Seq(Requests) /\ <<>> \in Seq(StorageRecords)
  BY EmptySeq DEF Init
<1>2. Range(env.waiters) = {} /\ Distinct(env.waiters) /\ DOMAIN storages = {}
  BY <1>1, EmptySeq DEF Range, Distinct
<1>3. Shapes
  BY <1>1 DEF Init, Shapes, PCs, EnvStates, NoStorage
<1>4. EnvInv
  BY <1>1, <1>2 DEF Init, EnvInv
<1>5. ReportInv
  BY DEF Init, ReportInv
<1>6. (\A e \in Entities : Refers(entityMap[e], e)) /\ (\A r \in Requests : RequestInv(r))
  BY DEF Init, Refers, RequestInv, Holding
<1> QED
  BY <1>2, <1>3, <1>4, <1>5, <1>6 DEF StartInv

\* Every step keeps the invariant, and moves each init forward only.
LEMMA NextGoesOn ==
  ASSUME StartInv, [Next]_vars
  PROVE  GoesOn
<1>1. CASE OpenEnv
  BY <1>1, OpenEnvGoesOn
<1>2. CASE EnvOpened
  BY <1>2, EnvOpenedGoesOn
<1>3. CASE EnvFails
  BY <1>3, EnvFailsGoesOn
<1>4. ASSUME NEW r \in Requests, InitEnv(r) PROVE GoesOn
  BY <1>4, InitEnvGoesOn
<1>5. ASSUME NEW r \in Requests, GetAfterInit(r) PROVE GoesOn
  BY <1>5, GetAfterInitGoesOn
<1>6. ASSUME NEW r \in Requests, Work(r) \/ Answer(r) PROVE GoesOn
  BY <1>6, RequestGoesOn
<1>7. ASSUME NEW r \in Requests, InitStorage(r) PROVE GoesOn
  BY <1>7, InitStorageGoesOn
<1>8. ASSUME NEW s \in DOMAIN storages, OpenStorage(s) \/ PhaseDone(s) PROVE GoesOn
  BY <1>8, QuietGoesOn
<1>9. ASSUME NEW s \in DOMAIN storages, GetStorages(s) PROVE GoesOn
  BY <1>9, GetStoragesGoesOn
<1>10. ASSUME NEW s \in DOMAIN storages, PhaseFails(s) PROVE GoesOn
  BY <1>10, PhaseFailsGoesOn
<1>11. ASSUME NEW s \in DOMAIN storages, NEW f \in Fields, GetField(s, f) PROVE GoesOn
  BY <1>11, GetFieldGoesOn
<1>12. ASSUME NEW r \in Requests, FactoryGet(r) PROVE GoesOn
  BY <1>12, GetGoesOn
<1>13. CASE UNCHANGED vars
  <2>1. UNCHANGED <<pc, handed, env, storages, entityMap, broken>>
    BY <1>13 DEF vars
  <2>2. StartInv'
    BY <2>1 DEF StartInv, Shapes, EnvInv, ReportInv, RequestInv, StorageInv, Refers
  <2> QED
    BY <2>1, <2>2, SameStorages DEF GoesOn, EnvGoesOn
<1> QED
  BY <1>1, <1>2, <1>3, <1>4, <1>5, <1>6, <1>7, <1>8, <1>9, <1>10, <1>11, <1>12, <1>13 DEF Next, Reactor

LEMMA StartInvHolds == Spec => []StartInv
<1>1. Init => StartInv
  BY StartInvInit
<1>2. StartInv /\ [Next]_vars => StartInv'
  BY NextGoesOn DEF GoesOn
<1> QED
  BY <1>1, <1>2, PTL DEF Spec

\* Who is told of a failed init.
ToldInv ==
  /\ env.state = "failed" => \E r \in Requests : pc[r] = "envfailed"
  /\ \A s \in DOMAIN storages : storages[s].state = "failed" =>
       \E r \in Requests : pc[r] = "initfailed" /\ handed[r] = s

LEMMA FieldLeaves ==
  ASSUME NEW s \in DOMAIN storages, NEW f \in Fields, GetField(s, f)
  PROVE  handed' = handed /\ env' = env
<1>1. UNCHANGED <<handed, env, broken>>
  BY Zenon DEF GetField
<1> QED
  BY <1>1

\* Whoever was told makes no step any more, and no step moves it.
LEMMA ToldStay ==
  ASSUME StartInv, [Next]_vars, NEW r \in Requests, pc[r] \in {"envfailed", "initfailed"}
  PROVE  pc'[r] = pc[r] /\ handed'[r] = handed[r]
<1>1. /\ pc \in [Requests -> PCs] /\ handed \in [Requests -> Nat]
      /\ r \notin Range(env.waiters)
      /\ \A s \in DOMAIN storages : r \notin Range(storages[s].waiters)
  BY DEF StartInv, Shapes, EnvInv, StorageInv
<1>2. ASSUME NEW q \in Requests,
             FactoryGet(q) \/ InitEnv(q) \/ Work(q) \/ Answer(q) \/ InitStorage(q)
      PROVE  pc'[r] = pc[r] /\ handed'[r] = handed[r]
  BY <1>1, <1>2 DEF FactoryGet, InitEnv, Work, Answer, InitStorage
<1>3. ASSUME NEW q \in Requests, GetAfterInit(q) PROVE pc'[r] = pc[r] /\ handed'[r] = handed[r]
  <2>1. r # q /\ Range(<<q>>) = {q}
    BY <1>3 DEF GetAfterInit, Range
  <2> QED
    BY <1>1, <1>3, <2>1 DEF GetAfterInit, MakeStorages
<1>4. CASE OpenEnv \/ EnvOpened
  BY <1>1, <1>4 DEF OpenEnv, EnvOpened, MakeStorages
<1>5. CASE EnvFails
  <2>1. env.waiters \in Seq(Requests) /\ env.waiters # <<>>
    BY <1>5 DEF EnvFails, StartInv, Shapes, EnvInv
  <2>2. r \notin Range(Tail(env.waiters))
    BY <1>1, <2>1, HeadAndTail
  <2>3. pc'[r] = pc[r]
    <3>1. pc' = [q \in Requests |-> CASE q \notin Range(env.waiters) -> pc[q]
                                      [] q = Head(env.waiters)       -> "envfailed"
                                      [] OTHER                       -> "has"]
      BY <1>5 DEF EnvFails
    <3>2. r # Head(env.waiters)
      BY <1>1, <2>1, HeadAndTail
    <3> QED
      BY <1>1, <3>1, <3>2
  <2> QED
    BY <1>5, <2>2, <2>3 DEF EnvFails, MakeStorages
<1>6. ASSUME NEW s \in DOMAIN storages, PhaseFails(s) PROVE pc'[r] = pc[r] /\ handed'[r] = handed[r]
  <2>1. pc' = [q \in Requests |-> CASE q \notin Range(storages[s].waiters) -> pc[q]
                                    [] q = Head(storages[s].waiters)       -> "initfailed"
                                    [] OTHER                               -> "working"]
    BY <1>6 DEF PhaseFails
  <2>2. r # Head(storages[s].waiters)
    <3>1. storages[s] \in StorageRecords
      BY ElementOfSeq DEF StartInv, Shapes
    <3>2. storages[s].waiters # <<>>
      BY <1>6 DEF PhaseFails, StartInv, StorageInv
    <3> QED
      BY <1>1, <3>1, <3>2, HeadAndTail DEF StorageRecords
  <2> QED
    BY <1>1, <1>6, <2>1, <2>2 DEF PhaseFails
<1>7. ASSUME NEW s \in DOMAIN storages, OpenStorage(s) \/ PhaseDone(s) \/ GetStorages(s)
      PROVE  pc'[r] = pc[r] /\ handed'[r] = handed[r]
  BY <1>1, <1>7 DEF OpenStorage, PhaseDone, GetStorages, Complete
<1>8. ASSUME NEW s \in DOMAIN storages, NEW f \in Fields, GetField(s, f)
      PROVE  pc'[r] = pc[r] /\ handed'[r] = handed[r]
  <2>1. PICK new : FieldSet(s, f, new)
    BY <1>8, FieldIsSet
  <2>2. handed' = handed
    BY <1>8, FieldLeaves
  <2>3. \/ pc' = pc
        \/ pc' = [q \in Requests |-> IF q \in Range(storages[s].waiters) THEN "working" ELSE pc[q]]
    BY <2>1 DEF FieldSet
  <2> QED
    BY <1>1, <2>2, <2>3
<1>9. CASE UNCHANGED vars
  BY <1>9 DEF vars
<1> QED
  BY <1>2, <1>3, <1>4, <1>5, <1>6, <1>7, <1>8, <1>9 DEF Next, Reactor

\* The environment fails for the first who waits for it.
LEMMA EnvFailureTold ==
  ASSUME StartInv, [Next]_vars, env.state # "failed", env'.state = "failed"
  PROVE  \E r \in Requests : pc'[r] = "envfailed"
<1>1. env \in [state : EnvStates, waiters : Seq(Requests)]
  BY DEF StartInv, Shapes
<1>2. EnvFails
  <2>1. ASSUME NEW r \in Requests,
               \/ FactoryGet(r) \/ InitEnv(r) \/ Work(r) \/ Answer(r) \/ InitStorage(r)
               \/ GetAfterInit(r)
        PROVE  FALSE
    BY <2>1 DEF FactoryGet, InitEnv, Work, Answer, InitStorage, GetAfterInit
  <2>2. ASSUME NEW s \in DOMAIN storages,
               \/ OpenStorage(s) \/ PhaseDone(s) \/ PhaseFails(s) \/ GetStorages(s)
               \/ \E f \in Fields : GetField(s, f)
        PROVE  FALSE
    <3>1. env' = env
      <4>1. CASE OpenStorage(s) \/ PhaseDone(s) \/ PhaseFails(s)
        BY <4>1 DEF OpenStorage, PhaseDone, PhaseFails
      <4>2. CASE GetStorages(s)
        BY <4>2 DEF GetStorages
      <4>3. ASSUME NEW f \in Fields, GetField(s, f) PROVE env' = env
        BY <4>3, FieldLeaves
      <4> QED
        BY <2>2, <4>1, <4>2, <4>3
    <3> QED
      BY <3>1
  <2>3. CASE OpenEnv \/ EnvOpened
    BY <1>1, <2>3 DEF OpenEnv, EnvOpened
  <2>4. CASE UNCHANGED vars
    BY <2>4 DEF vars
  <2> QED
    BY <2>1, <2>2, <2>3, <2>4 DEF Next, Reactor
<1> DEFINE first == Head(env.waiters)
<1>3. first \in Requests /\ first \in Range(env.waiters)
  <2>1. env.waiters \in Seq(Requests) /\ env.waiters # <<>>
    BY <1>1, <1>2 DEF EnvFails, StartInv, EnvInv
  <2> QED
    BY <2>1, HeadAndTail
<1>4. pc'[first] = "envfailed"
  <2>1. pc' = [r \in Requests |-> CASE r \notin Range(env.waiters) -> pc[r]
                                    [] r = Head(env.waiters)       -> "envfailed"
                                    [] OTHER                       -> "has"]
    BY <1>2 DEF EnvFails
  <2> QED
    BY <1>3, <2>1
<1> QED
  BY <1>3, <1>4

\* A storage that is new has not failed, and one that there was fails for the
\* first who waits for it.
LEMMA StorageFailureTold ==
  ASSUME StartInv, [Next]_vars, NEW s \in DOMAIN storages', storages'[s].state = "failed",
         s \in DOMAIN storages => storages[s].state # "failed"
  PROVE  \E r \in Requests : pc'[r] = "initfailed" /\ handed'[r] = s
<1>1. \A t \in DOMAIN storages : storages[t] \in StorageRecords
  BY ElementOfSeq DEF StartInv, Shapes
<1>2. s \in DOMAIN storages /\ PhaseFails(s)
  <2>1. ASSUME NEW rs \in Seq(Requests), MakeStorages(rs) PROVE FALSE
    <3>1. /\ \A t \in DOMAIN storages : storages'[t] = storages[t]
          /\ \A t \in DOMAIN storages' \ DOMAIN storages : New(t)'
      BY <2>1, StoragesMade DEF StartInv
    <3> QED
      BY <3>1, NewStorageIs DEF New
  <2>2. ASSUME NEW r \in Requests,
               FactoryGet(r) \/ InitEnv(r) \/ Work(r) \/ Answer(r) \/ GetAfterInit(r)
        PROVE  FALSE
    <3>1. <<r>> \in Seq(Requests)
      OBVIOUS
    <3> QED
      BY <2>1, <2>2, <3>1 DEF FactoryGet, InitEnv, Work, Answer, GetAfterInit
  <2>3. ASSUME NEW r \in Requests, InitStorage(r) PROVE FALSE
    <3>1. handed[r] \in DOMAIN storages
      BY <2>3 DEF InitStorage, StartInv, RequestInv, Refers, Holding
    <3> QED
      BY <1>1, <2>3, <3>1 DEF InitStorage, StorageRecords
  <2>4. CASE OpenEnv \/ UNCHANGED vars
    BY <2>4 DEF OpenEnv, vars
  <2>5. CASE EnvOpened
    BY <2>1, <2>5 DEF EnvOpened, StartInv, Shapes
  <2>6. CASE EnvFails
    <3>1. Tail(env.waiters) \in Seq(Requests)
      BY <2>6, HeadAndTail DEF EnvFails, StartInv, Shapes, EnvInv
    <3> QED
      BY <2>1, <2>6, <3>1 DEF EnvFails
  <2>7. ASSUME NEW t \in DOMAIN storages, OpenStorage(t) \/ PhaseDone(t) \/ GetStorages(t)
        PROVE  FALSE
    BY <1>1, <2>7 DEF OpenStorage, PhaseDone, GetStorages, Complete, StorageRecords
  <2>8. ASSUME NEW t \in DOMAIN storages, NEW f \in Fields, GetField(t, f) PROVE FALSE
    <3>1. PICK new : FieldSet(t, f, new)
      BY <2>8, FieldIsSet
    <3>2. /\ DOMAIN storages' = DOMAIN storages \cup {new}
          /\ storages'[new] = NewStorage(TypeOf[f]) /\ TypeOf[f] \in Entities
          /\ \A u \in DOMAIN storages \ {t} : storages'[u] = storages[u]
          /\ storages'[t].state \in {"done", "fields"}
      BY <3>1 DEF FieldSet
    <3>3. storages'[new].state = "none"
      BY <3>2, NewStorageIs
    <3> QED
      BY <3>2, <3>3
  <2>9. ASSUME NEW t \in DOMAIN storages, PhaseFails(t) PROVE s \in DOMAIN storages /\ s = t
    BY <1>1, <2>9 DEF PhaseFails, StorageRecords
  <2> QED
    BY <2>2, <2>3, <2>4, <2>5, <2>6, <2>7, <2>8, <2>9 DEF Next, Reactor
<1> DEFINE first == Head(storages[s].waiters)
<1>3. first \in Requests /\ first \in Range(storages[s].waiters)
  <2>1. storages[s].waiters \in Seq(Requests) /\ storages[s].waiters # <<>>
    BY <1>1, <1>2 DEF PhaseFails, StartInv, StorageInv, StorageRecords
  <2> QED
    BY <2>1, HeadAndTail
<1>4. handed[first] = s
  BY <1>2, <1>3 DEF StartInv, StorageInv
<1>5. pc'[first] = "initfailed"
  <2>1. pc' = [r \in Requests |-> CASE r \notin Range(storages[s].waiters) -> pc[r]
                                    [] r = Head(storages[s].waiters)       -> "initfailed"
                                    [] OTHER                               -> "working"]
    BY <1>2 DEF PhaseFails
  <2> QED
    BY <1>3, <2>1
<1>6. handed' = handed
  BY <1>2 DEF PhaseFails
<1> QED
  BY <1>3, <1>4, <1>5, <1>6

LEMMA ToldInvHolds == Spec => []ToldInv
<1>1. Init => ToldInv
  <2> SUFFICES ASSUME Init PROVE ToldInv
    OBVIOUS
  <2>1. env.state = "none" /\ DOMAIN storages = {}
    BY EmptySeq DEF Init
  <2> QED
    BY <2>1 DEF ToldInv
<1>2. StartInv /\ ToldInv /\ [Next]_vars => ToldInv'
  <2> SUFFICES ASSUME StartInv, ToldInv, [Next]_vars PROVE ToldInv'
    OBVIOUS
  <2>1. ASSUME env'.state = "failed" PROVE \E r \in Requests : pc'[r] = "envfailed"
    BY <2>1, EnvFailureTold, ToldStay DEF ToldInv
  <2>2. ASSUME NEW s \in DOMAIN storages', storages'[s].state = "failed"
        PROVE  \E r \in Requests : pc'[r] = "initfailed" /\ handed'[r] = s
    BY <2>2, StorageFailureTold, ToldStay DEF ToldInv
  <2> QED
    BY <2>1, <2>2 DEF ToldInv
<1> QED
  BY <1>1, <1>2, StartInvHolds, PTL DEF Spec

-----------------------------------------------------------------------------
(* The theorems.                                                           *)

\* The requests, the factory, its map and every storage always have the shape
\* that the code gives them, and an id is always that of a storage that exists
\* (sabsddb.py:17-65, 91-130).
THEOREM StorageTypes == Spec => []TypeOK
<1>1. StartInv => TypeOK
  <2> SUFFICES ASSUME StartInv PROVE TypeOK
    OBVIOUS
  <2>1. /\ Len(storages) \in Nat /\ DOMAIN storages = 1..Len(storages)
        /\ \A s \in DOMAIN storages : storages[s] \in StorageRecords /\ StorageInv(s)
    BY LenProperties, ElementOfSeq DEF StartInv, Shapes
  <2>2. \A s, e : s \in Nat /\ Refers(s, e) => s \in StorageIds
    BY <2>1 DEF Refers, StorageIds, NoStorage
  <2>3. handed \in [Requests -> StorageIds]
    BY <2>2 DEF StartInv, Shapes, RequestInv
  <2>4. entityMap \in [Entities -> StorageIds]
    BY <2>2 DEF StartInv, Shapes
  <2>5. env.state \in EnvStates /\ Range(env.waiters) \subseteq Requests
    BY RangeOfSeq DEF StartInv, Shapes
  <2>6. ASSUME NEW s \in DOMAIN storages
        PROVE  /\ storages[s].entity \in Entities /\ storages[s].state \in StorageStates
               /\ storages[s].opened \in 0..Len(Phases)
               /\ Range(storages[s].waiters) \subseteq Requests
               /\ storages[s].fields \in [FieldsOf(storages[s].entity) -> StorageIds]
    <3>1. storages[s] \in StorageRecords /\ StorageInv(s)
      BY <2>1
    <3>2. PICK F \in SUBSET Fields : storages[s].fields \in [F -> Nat]
      BY <3>1 DEF StorageRecords, FieldMaps
    <3>3. F = FieldsOf(storages[s].entity)
      BY <3>1, <3>2 DEF StorageInv
    <3>4. \A f \in F : storages[s].fields[f] \in StorageIds
      BY <2>2, <3>1, <3>2 DEF StorageInv
    <3> QED
      BY <3>1, <3>2, <3>3, <3>4, RangeOfSeq DEF StorageRecords
  <2> QED
    BY <2>3, <2>4, <2>5, <2>6 DEF TypeOK, StartInv, Shapes
<1> QED
  BY <1>1, StartInvHolds, PTL

\* As long as no call of an init failed, whoever works with a storage has one
\* of the entity it asked for, open and indexed, that knows the storage of each
\* of its reference fields, however the callers of the two init methods meet
\* (sabsddb.py:17-65, 172-182).
THEOREM ReadyStorages == Spec => []ReadyBeforeUse
<1>1. StartInv => ReadyBeforeUse
  <2> SUFFICES ASSUME StartInv, NEW r \in Requests, pc[r] \in {"working", "ok"}, ~broken,
                      NEW s, s = handed[r]
               PROVE  /\ storages[s].entity = Wants[r]
                      /\ storages[s].state = "done" /\ storages[s].opened = Len(Phases)
                      /\ \A f \in DOMAIN storages[s].fields :
                           /\ storages[s].fields[f] # NoStorage
                           /\ storages[storages[s].fields[f]].entity = TypeOf[f]
    BY DEF ReadyBeforeUse
  <2>1. RequestInv(r) /\ s # NoStorage
    BY DEF StartInv, RequestInv, Holding
  <2>2. s \in DOMAIN storages /\ storages[s].entity = Wants[r] /\ StorageInv(s)
    BY <2>1 DEF StartInv, RequestInv, Refers
  <2>3. storages[s].state = "done" /\ storages[s].opened = Len(Phases)
    BY <2>1, <2>2 DEF RequestInv, StorageInv
  <2>4. ASSUME NEW f \in DOMAIN storages[s].fields
        PROVE  /\ storages[s].fields[f] # NoStorage
               /\ storages[storages[s].fields[f]].entity = TypeOf[f]
    BY <2>2, <2>3 DEF StorageInv, Refers
  <2> QED
    BY <2>2, <2>3, <2>4
<1> QED
  BY <1>1, StartInvHolds, PTL

\* Of everyone who waits on one initd exactly one, the first, is told that the
\* open failed: the Deferred holds None for whoever comes next (sabsddb.py:34-35,
\* 113-114, with Deferred._continue).
THEOREM ToldOnce == Spec => []FailureReportedOnce
<1>1. StartInv /\ ToldInv => FailureReportedOnce
  <2> SUFFICES ASSUME StartInv, ToldInv PROVE FailureReportedOnce
    OBVIOUS
  <2>1. ASSUME NEW S, NEW r \in S, \A q \in S : q = r PROVE Cardinality(S) = 1
    <3>1. S = {r}
      BY <2>1
    <3> QED
      BY <3>1, FS_Singleton
  <2>2. Cardinality({r \in Requests : pc[r] = "envfailed"}) = IF env.state = "failed" THEN 1 ELSE 0
    <3> DEFINE S == {r \in Requests : pc[r] = "envfailed"}
    <3>1. CASE env.state = "failed"
      <4>1. PICK r \in S : \A q \in S : q = r
        BY <3>1 DEF StartInv, EnvInv, ToldInv
      <4> QED
        BY <2>1, <3>1, <4>1
    <3>2. CASE env.state # "failed"
      <4>1. S = {}
        BY <3>2 DEF StartInv, EnvInv
      <4> QED
        BY <3>2, <4>1, FS_EmptySet
    <3> QED
      BY <3>1, <3>2
  <2>3. ASSUME NEW s \in DOMAIN storages
        PROVE  Cardinality({r \in Requests : pc[r] = "initfailed" /\ handed[r] = s}) =
                 IF storages[s].state = "failed" THEN 1 ELSE 0
    <3> DEFINE S == {r \in Requests : pc[r] = "initfailed" /\ handed[r] = s}
    <3>1. CASE storages[s].state = "failed"
      <4>1. PICK r \in S : \A q \in S : q = r
        BY <3>1 DEF StartInv, ReportInv, ToldInv
      <4> QED
        BY <2>1, <3>1, <4>1
    <3>2. CASE storages[s].state # "failed"
      <4>1. S = {}
        BY <3>2 DEF StartInv, RequestInv
      <4> QED
        BY <3>2, <4>1, FS_EmptySet
    <3> QED
      BY <3>1, <3>2
  <2> QED
    BY <2>2, <2>3 DEF FailureReportedOnce
<1> QED
  BY <1>1, StartInvHolds, ToldInvHolds, PTL

-----------------------------------------------------------------------------
(* What is decided stays decided.                                          *)

\* The gets that are under way for e: of a request, and of a reference field.
Asks(r, e)     == Wants[r] = e /\ pc[r] \in {"getting", "envwait"}
Lacks(s, f, e) == s \in DOMAIN storages /\ f \in Fields /\ TypeOf[f] = e /\ Missing(s, f)

\* No get of e begins, and the map keeps its entry unless one is under way.
Settled(e) ==
  /\ \A r \in Requests : Asks(r, e)' => Asks(r, e)
  /\ \A s \in DOMAIN storages' : \A f \in Fields : Lacks(s, f, e)' => Lacks(s, f, e)
  /\ \/ entityMap'[e] = entityMap[e]
     \/ \E r \in Requests : Asks(r, e)
     \/ \E s \in DOMAIN storages : \E f \in Fields : Lacks(s, f, e)

LEMMA SettledMap ==
  ASSUME NEW e \in Entities, Settled(e)
  PROVE  /\ PendingGets(e)' \subseteq PendingGets(e)
         /\ PendingGets(e) = {} => entityMap'[e] = entityMap[e]
<1>1. ASSUME NEW p \in PendingGets(e)' PROVE p \in PendingGets(e)
  <2>1. CASE \E r \in Requests : p = <<r>> /\ Asks(r, e)'
    <3>1. PICK r \in Requests : p = <<r>> /\ Asks(r, e)
      BY <2>1 DEF Settled
    <3> QED
      BY <3>1 DEF PendingGets, Asks
  <2>2. CASE \E s \in DOMAIN storages' : \E f \in Fields : p = <<s, f>> /\ Lacks(s, f, e)'
    <3>1. PICK s \in DOMAIN storages', f \in Fields : p = <<s, f>> /\ Lacks(s, f, e)
      BY <2>2 DEF Settled
    <3> QED
      BY <3>1 DEF PendingGets, Lacks
  <2>3. \/ \E r \in Requests : p = <<r>> /\ Asks(r, e)'
        \/ \E s \in DOMAIN storages' : \E f \in Fields : p = <<s, f>> /\ Lacks(s, f, e)'
    <3>1. \/ p \in {<<r>> : r \in {q \in Requests : Asks(q, e)'}}
          \/ /\ p \in (DOMAIN storages') \X Fields
             /\ TypeOf[p[2]] = e /\ Missing(p[1], p[2])'
      BY DEF PendingGets, Asks
    <3>2. ASSUME p \in (DOMAIN storages') \X Fields, TypeOf[p[2]] = e, Missing(p[1], p[2])'
          PROVE  \E s \in DOMAIN storages' : \E f \in Fields : p = <<s, f>> /\ Lacks(s, f, e)'
      BY <3>2 DEF Lacks
    <3> QED
      BY <3>1, <3>2
  <2> QED
    BY <2>1, <2>2, <2>3
<1>2. ASSUME NEW r \in Requests, Asks(r, e) PROVE <<r>> \in PendingGets(e)
  BY <1>2 DEF PendingGets, Asks
<1>3. ASSUME NEW s \in DOMAIN storages, NEW f \in Fields, Lacks(s, f, e)
      PROVE  <<s, f>> \in PendingGets(e)
  BY <1>3 DEF PendingGets, Lacks
<1> QED
  BY <1>1, <1>2, <1>3 DEF Settled

\* Steps that change no storage: only a get that finds nothing in the map begins.
LEMMA QuietSettles ==
  ASSUME NEW e \in Entities, entityMap[e] # NoStorage, UNCHANGED <<storages, entityMap>>,
         \A r \in Requests : \/ Asks(r, e)' => Asks(r, e)
                             \/ entityMap[Wants[r]] = NoStorage
  PROVE  Settled(e)
<1> QED
  BY DEF Settled, Lacks, Missing, Asks

\* Storages are made for those who waited for the environment.
LEMMA MadeSettles ==
  ASSUME StartInv, NEW e \in Entities, NEW rs \in Seq(Requests), MakeStorages(rs),
         \A r \in Range(rs) : pc[r] \in {"getting", "envwait"},
         \A r \in Requests : pc'[r] # pc[r] => pc'[r] \in {"has", "envfailed"}
  PROVE  Settled(e)
<1>1. /\ \A s \in DOMAIN storages : s \in DOMAIN storages' /\ storages'[s] = storages[s]
      /\ \A s \in DOMAIN storages' \ DOMAIN storages : New(s)'
      /\ entityMap'[e] = entityMap[e] \/ \E r \in Range(rs) : Wants[r] = e
  BY StoragesMade DEF StartInv
<1>2. Range(rs) \subseteq Requests
  BY RangeOfSeq
<1>3. \A s \in DOMAIN storages' \ DOMAIN storages : storages'[s].state # "fields"
  BY <1>1, NewStorageIs DEF New
<1>4. \A s \in DOMAIN storages' : \A f \in Fields : Lacks(s, f, e)' => Lacks(s, f, e)
  BY <1>1, <1>3 DEF Lacks, Missing
<1>5. \A r \in Requests : Asks(r, e)' => Asks(r, e)
  BY DEF Asks
<1> QED
  BY <1>1, <1>2, <1>4, <1>5 DEF Settled, Asks

\* One storage changes, and lacks no field that it did not lack before.
LEMMA ChangeSettles ==
  ASSUME NEW e \in Entities, entityMap[e] # NoStorage, NEW s \in DOMAIN storages,
         DOMAIN storages' = DOMAIN storages, UNCHANGED entityMap,
         \A t \in DOMAIN storages \ {s} : storages'[t] = storages[t],
         \A f \in Fields : Missing(s, f)' => Missing(s, f) \/ entityMap[TypeOf[f]] = NoStorage,
         \A r \in Requests : pc'[r] # pc[r] => pc'[r] \in {"initwait", "working", "initfailed"}
  PROVE  Settled(e)
<1>1. \A r \in Requests : Asks(r, e)' => Asks(r, e)
  BY DEF Asks
<1>2. \A t \in DOMAIN storages' : \A f \in Fields : Lacks(t, f, e)' => Lacks(t, f, e)
  BY DEF Lacks, Missing
<1> QED
  BY <1>1, <1>2 DEF Settled

LEMMA RequestSettles ==
  ASSUME StartInv, NEW e \in Entities, entityMap[e] # NoStorage, NEW r \in Requests,
         FactoryGet(r) \/ InitEnv(r) \/ Work(r) \/ Answer(r)
  PROVE  Settled(e)
<1>1. UNCHANGED <<storages, entityMap>>
  BY DEF FactoryGet, InitEnv, Work, Answer
<1>2. \A q \in Requests \ {r} : pc'[q] = pc[q]
  BY DEF FactoryGet, InitEnv, Work, Answer, StartInv, Shapes
<1>3. \/ pc[r] = "getting"
      \/ pc'[r] \in {"has", "working", "ok", "failed"}
      \/ entityMap[Wants[r]] = NoStorage
  BY DEF FactoryGet, InitEnv, Work, Answer, StartInv, Shapes
<1> QED
  BY <1>1, <1>2, <1>3, QuietSettles DEF Asks

LEMMA EnvSettles ==
  ASSUME StartInv, NEW e \in Entities, EnvOpened \/ EnvFails \/ \E r \in Requests : GetAfterInit(r)
  PROVE  Settled(e)
<1>1. CASE EnvOpened
  <2>1. env.waiters \in Seq(Requests) /\ MakeStorages(env.waiters)
    BY <1>1 DEF EnvOpened, StartInv, Shapes
  <2>2. Range(env.waiters) \subseteq Requests
    BY <2>1, RangeOfSeq
  <2>3. \A r \in Range(env.waiters) : pc[r] \in {"getting", "envwait"}
    BY <2>2 DEF StartInv, EnvInv
  <2>4. \A r \in Requests : pc'[r] # pc[r] => pc'[r] \in {"has", "envfailed"}
    BY <1>1 DEF EnvOpened
  <2> QED
    BY <2>1, <2>3, <2>4, MadeSettles
<1>2. CASE EnvFails
  <2>1. /\ env.waiters \in Seq(Requests) /\ env.waiters # <<>> /\ MakeStorages(Tail(env.waiters))
    BY <1>2 DEF EnvFails, StartInv, Shapes, EnvInv
  <2>2. /\ Tail(env.waiters) \in Seq(Requests) /\ Range(Tail(env.waiters)) \subseteq Range(env.waiters)
        /\ Range(env.waiters) \subseteq Requests
    BY <2>1, HeadAndTail, RangeOfSeq
  <2>3. \A r \in Range(Tail(env.waiters)) : pc[r] \in {"getting", "envwait"}
    BY <2>2 DEF StartInv, EnvInv
  <2>4. \A r \in Requests : pc'[r] # pc[r] => pc'[r] \in {"has", "envfailed"}
    BY <1>2 DEF EnvFails
  <2> QED
    BY <2>1, <2>2, <2>3, <2>4, MadeSettles
<1>3. ASSUME NEW r \in Requests, GetAfterInit(r) PROVE Settled(e)
  <2>1. /\ <<r>> \in Seq(Requests) /\ Range(<<r>>) = {r} /\ MakeStorages(<<r>>)
        /\ pc[r] = "getting"
    BY <1>3 DEF Range, GetAfterInit
  <2>2. \A q \in Requests : pc'[q] # pc[q] => pc'[q] \in {"has", "envfailed"}
    BY <1>3 DEF GetAfterInit, StartInv, Shapes
  <2> QED
    BY <2>1, <2>2, MadeSettles
<1> QED
  BY <1>1, <1>2, <1>3

LEMMA StorageSettles ==
  ASSUME StartInv, NEW e \in Entities, entityMap[e] # NoStorage, NEW s \in DOMAIN storages,
         \/ OpenStorage(s) \/ PhaseDone(s) \/ PhaseFails(s) \/ GetStorages(s)
         \/ \E r \in Requests : s = handed[r] /\ InitStorage(r)
  PROVE  Settled(e)
<1>1. storages[s] \in StorageRecords /\ storages \in Seq(StorageRecords) /\ pc \in [Requests -> PCs]
      /\ DOMAIN storages[s].fields = FieldsOf(storages[s].entity)
  BY ElementOfSeq DEF StartInv, Shapes, StorageInv
<1>2. CASE OpenStorage(s) \/ PhaseDone(s) \/ PhaseFails(s)
  <2>1. /\ DOMAIN storages' = DOMAIN storages /\ UNCHANGED entityMap
        /\ \A t \in DOMAIN storages \ {s} : storages'[t] = storages[t]
        /\ storages'[s].state # "fields"
    BY <1>1, <1>2 DEF OpenStorage, PhaseDone, PhaseFails, StorageRecords
  <2>2. \A r \in Requests : pc'[r] # pc[r] => pc'[r] \in {"initwait", "working", "initfailed"}
    BY <1>2 DEF OpenStorage, PhaseDone, PhaseFails
  <2>3. \A f \in Fields : Missing(s, f)' => Missing(s, f)
    BY <2>1 DEF Missing
  <2> QED
    BY <2>1, <2>2, <2>3, ChangeSettles
<1>3. CASE GetStorages(s)
  <2>1. /\ DOMAIN storages' = DOMAIN storages /\ UNCHANGED entityMap
        /\ \A t \in DOMAIN storages \ {s} : storages'[t] = storages[t]
        /\ storages'[s].fields = [f \in FieldsOf(storages[s].entity) |-> entityMap[TypeOf[f]]]
    <3> DEFINE fields == [f \in FieldsOf(storages[s].entity) |-> entityMap[TypeOf[f]]]
               done   == [storages EXCEPT ![s].state = "done", ![s].waiters = <<>>,
                                          ![s].opened = Len(Phases), ![s].fields = fields]
               wait   == [storages EXCEPT ![s].state = "fields", ![s].fields = fields,
                                          ![s].opened = Len(Phases)]
    <3>1. (storages' = done \/ storages' = wait) /\ UNCHANGED entityMap
      BY <1>3 DEF GetStorages, Complete
    <3> HIDE DEF fields
    <3>2. /\ DOMAIN done = DOMAIN storages /\ done[s].fields = fields
          /\ \A t \in DOMAIN storages \ {s} : done[t] = storages[t]
      BY <1>1 DEF StorageRecords
    <3>3. /\ DOMAIN wait = DOMAIN storages /\ wait[s].fields = fields
          /\ \A t \in DOMAIN storages \ {s} : wait[t] = storages[t]
      BY <1>1 DEF StorageRecords
    <3> HIDE DEF done, wait
    <3>4. /\ DOMAIN storages' = DOMAIN storages /\ storages'[s].fields = fields
          /\ \A t \in DOMAIN storages \ {s} : storages'[t] = storages[t]
      BY <3>1, <3>2, <3>3
    <3> QED
      BY <3>1, <3>4 DEF fields
  <2>2. \A r \in Requests : pc'[r] # pc[r] => pc'[r] \in {"initwait", "working", "initfailed"}
    BY <1>3 DEF GetStorages, Complete
  <2>3. \A f \in Fields : Missing(s, f)' => entityMap[TypeOf[f]] = NoStorage
    BY <2>1 DEF Missing
  <2> QED
    BY <2>1, <2>2, <2>3, ChangeSettles
<1>4. ASSUME NEW r \in Requests, s = handed[r], InitStorage(r) PROVE Settled(e)
  <2>1. /\ DOMAIN storages' = DOMAIN storages /\ UNCHANGED entityMap
        /\ \A t \in DOMAIN storages \ {s} : storages'[t] = storages[t]
        /\ storages'[s].fields = storages[s].fields
        /\ storages'[s].state = "fields" => storages[s].state = "fields"
    BY <1>1, <1>4 DEF InitStorage, StorageRecords
  <2>2. \A q \in Requests : pc'[q] # pc[q] => pc'[q] \in {"initwait", "working", "initfailed"}
    BY <1>1, <1>4 DEF InitStorage
  <2>3. \A f \in Fields : Missing(s, f)' => Missing(s, f)
    BY <2>1 DEF Missing
  <2> QED
    BY <2>1, <2>2, <2>3, ChangeSettles
<1> QED
  BY <1>2, <1>3, <1>4

LEMMA FieldSettles ==
  ASSUME StartInv, NEW e \in Entities, NEW s \in DOMAIN storages, NEW f \in Fields, GetField(s, f)
  PROVE  Settled(e)
<1>1. PICK new : FieldSet(s, f, new)
  BY FieldIsSet
<1>2. /\ new # NoStorage /\ TypeOf[f] \in Entities
      /\ entityMap' = [entityMap EXCEPT ![TypeOf[f]] = new]
  BY <1>1 DEF FieldSet
<1>3. /\ DOMAIN storages' = DOMAIN storages \cup {new}
      /\ storages'[new] = NewStorage(TypeOf[f])
      /\ \A t \in DOMAIN storages \ {s} : storages'[t] = storages[t]
  BY <1>1 DEF FieldSet
<1>4. /\ DOMAIN storages'[s].fields = DOMAIN storages[s].fields
      /\ storages'[s].fields[f] = new
      /\ \A g \in DOMAIN storages[s].fields \ {f} : storages'[s].fields[g] = storages[s].fields[g]
  BY <1>1 DEF FieldSet
<1>5. /\ storages[s].state = "fields" /\ f \in DOMAIN storages[s].fields
      /\ storages[s].fields[f] = NoStorage
  BY DEF GetField
<1>6. \A r \in Requests : pc'[r] # pc[r] => pc'[r] = "working"
  BY DEF GetField
<1>7. \A r \in Requests : Asks(r, e)' => Asks(r, e)
  BY <1>6 DEF Asks
<1>8. Lacks(s, f, TypeOf[f])
  BY <1>5 DEF Lacks, Missing
<1>9. \A t \in DOMAIN storages' : \A g \in Fields : Lacks(t, g, e)' => Lacks(t, g, e)
  <2>1. ASSUME NEW t \in DOMAIN storages', NEW g \in Fields, Lacks(t, g, e)' PROVE Lacks(t, g, e)
    <3>1. CASE t = s
      <4>1. /\ g \in DOMAIN storages'[s].fields /\ storages'[s].fields[g] = NoStorage
            /\ TypeOf[g] = e
        BY <2>1, <3>1 DEF Lacks, Missing
      <4>2. g \in DOMAIN storages[s].fields /\ storages[s].fields[g] = NoStorage
        BY <1>2, <1>4, <4>1
      <4> QED
        BY <1>5, <3>1, <4>1, <4>2 DEF Lacks, Missing
    <3>2. CASE t # s /\ t \in DOMAIN storages
      BY <1>3, <2>1, <3>2 DEF Lacks, Missing
    <3>3. CASE t = new /\ t \notin DOMAIN storages
      <4>1. storages'[t].state = "none"
        BY <1>2, <1>3, <3>3, NewStorageIs
      <4> QED
        BY <2>1, <4>1 DEF Lacks, Missing
    <3> QED
      BY <1>3, <3>1, <3>2, <3>3
  <2> QED
    BY <2>1
<1>10. CASE e = TypeOf[f]
  BY <1>7, <1>8, <1>9, <1>10 DEF Settled
<1>11. CASE e # TypeOf[f]
  <2>1. entityMap'[e] = entityMap[e]
    BY <1>2, <1>11 DEF StartInv, Shapes
  <2> QED
    BY <1>7, <1>9, <2>1 DEF Settled
<1> QED
  BY <1>10, <1>11

LEMMA NextSettles ==
  ASSUME StartInv, [Next]_vars, NEW e \in Entities, entityMap[e] # NoStorage
  PROVE  Settled(e)
<1>1. ASSUME NEW r \in Requests, FactoryGet(r) \/ InitEnv(r) \/ Work(r) \/ Answer(r) PROVE Settled(e)
  BY <1>1, RequestSettles
<1>2. CASE EnvOpened \/ EnvFails \/ \E r \in Requests : GetAfterInit(r)
  BY <1>2, EnvSettles
<1>3. ASSUME NEW s \in DOMAIN storages,
             OpenStorage(s) \/ PhaseDone(s) \/ PhaseFails(s) \/ GetStorages(s)
      PROVE  Settled(e)
  BY <1>3, StorageSettles
<1>4. ASSUME NEW r \in Requests, InitStorage(r) PROVE Settled(e)
  <2>1. PICK s : s = handed[r]
    OBVIOUS
  <2>2. s \in DOMAIN storages
    BY <1>4, <2>1 DEF InitStorage, StartInv, RequestInv, Refers, Holding
  <2> QED
    BY <1>4, <2>1, <2>2, StorageSettles
<1>5. ASSUME NEW s \in DOMAIN storages, NEW f \in Fields, GetField(s, f) PROVE Settled(e)
  BY <1>5, FieldSettles
<1>6. CASE OpenEnv \/ UNCHANGED vars
  BY <1>6, QuietSettles DEF OpenEnv, vars, Asks
<1> QED
  BY <1>1, <1>2, <1>3, <1>4, <1>5, <1>6 DEF Next, Reactor

LEMMA EnvRanks == /\ EnvRank("none") = 0 /\ EnvRank("scheduled") = 1 /\ EnvRank("opening") = 2
                  /\ EnvRank("done") = 3 /\ EnvRank("failed") = 3
<1> DEFINE ranks == <<{"none"}, {"scheduled"}, {"opening"}, {"done", "failed"}>>
<1>1. \A i \in 0..3 : i = 0 \/ i = 1 \/ i = 2 \/ i = 3
  OBVIOUS
<1>2. /\ ranks[0 + 1] = {"none"} /\ ranks[1 + 1] = {"scheduled"} /\ ranks[2 + 1] = {"opening"}
      /\ ranks[3 + 1] = {"done", "failed"}
  OBVIOUS
<1> HIDE DEF ranks
<1>3. ASSUME NEW state, NEW n \in 0..3, \A i \in 0..3 : state \in ranks[i + 1] <=> i = n
      PROVE  (CHOOSE i \in 0..3 : state \in ranks[i + 1]) = n
  BY <1>3
<1>4. \A state : EnvRank(state) = CHOOSE i \in 0..3 : state \in ranks[i + 1]
  BY DEF EnvRank, ranks
<1> QED
  BY <1>1, <1>2, <1>3, <1>4

LEMMA StorageRanks ==
  /\ StorageRank("none") = 0 /\ StorageRank("scheduled") = 1 /\ StorageRank("opening") = 2
  /\ StorageRank("fields") = 3 /\ StorageRank("done") = 4 /\ StorageRank("failed") = 4
<1> DEFINE ranks == <<{"none"}, {"scheduled"}, {"opening"}, {"fields"}, {"done", "failed"}>>
<1>1. \A i \in 0..4 : i = 0 \/ i = 1 \/ i = 2 \/ i = 3 \/ i = 4
  OBVIOUS
<1>2. /\ ranks[0 + 1] = {"none"} /\ ranks[1 + 1] = {"scheduled"} /\ ranks[2 + 1] = {"opening"}
      /\ ranks[3 + 1] = {"fields"} /\ ranks[4 + 1] = {"done", "failed"}
  OBVIOUS
<1> HIDE DEF ranks
<1>3. ASSUME NEW state, NEW n \in 0..4, \A i \in 0..4 : state \in ranks[i + 1] <=> i = n
      PROVE  (CHOOSE i \in 0..4 : state \in ranks[i + 1]) = n
  BY <1>3
<1>4. \A state : StorageRank(state) = CHOOSE i \in 0..4 : state \in ranks[i + 1]
  BY DEF StorageRank, ranks
<1> QED
  BY <1>1, <1>2, <1>3, <1>4

\* The environment and each storage are initialized at most once, however many
\* callers meet, and an init that ended has ended; once an entity has a storage
\* in the map, only gets that were under way by then can replace it
\* (sabsddb.py:31-35, 59-65, 110-114).
THEOREM NeverBack == Spec => NothingGoesBack
<1>1. StartInv /\ [Next]_vars =>
        [/\ EnvRank(env'.state) >= EnvRank(env.state)
         /\ env.state \in {"done", "failed"} => env'.state = env.state
         /\ \A s \in DOMAIN storages :
              /\ StorageRank(storages'[s].state) >= StorageRank(storages[s].state)
              /\ storages[s].state \in {"done", "failed"} => storages'[s].state = storages[s].state]_vars
  <2> SUFFICES ASSUME StartInv, [Next]_vars
               PROVE  /\ EnvRank(env'.state) >= EnvRank(env.state)
                      /\ env.state \in {"done", "failed"} => env'.state = env.state
                      /\ \A s \in DOMAIN storages :
                           /\ StorageRank(storages'[s].state) >= StorageRank(storages[s].state)
                           /\ storages[s].state \in {"done", "failed"} =>
                                storages'[s].state = storages[s].state
    OBVIOUS
  <2>1. /\ EnvGoesOn /\ StoragesGoOn /\ env.state \in EnvStates
        /\ \A s \in DOMAIN storages : storages[s].state \in StorageStates
    <3>1. EnvGoesOn /\ StoragesGoOn
      BY NextGoesOn DEF GoesOn
    <3>2. env.state \in EnvStates /\ storages \in Seq(StorageRecords)
      BY DEF StartInv, Shapes
    <3>3. \A s \in DOMAIN storages : storages[s] \in StorageRecords
      BY <3>2, ElementOfSeq
    <3> QED
      BY <3>1, <3>2, <3>3 DEF StorageRecords
  <2>2. /\ EnvRank(env'.state) >= EnvRank(env.state)
        /\ env.state \in {"done", "failed"} => env'.state = env.state
    BY <2>1, EnvRanks DEF EnvGoesOn, EnvMoves, EnvStates
  <2>3. ASSUME NEW s \in DOMAIN storages
        PROVE  /\ StorageRank(storages'[s].state) >= StorageRank(storages[s].state)
               /\ storages[s].state \in {"done", "failed"} => storages'[s].state = storages[s].state
    <3>1. \/ storages'[s].state = storages[s].state
          \/ <<storages[s].state, storages'[s].state>> \in StorageMoves
      BY <2>1 DEF StoragesGoOn, StorageGoesOn
    <3> QED
      BY <2>1, <3>1, StorageRanks DEF StorageMoves, StorageStates
  <2> QED
    BY <2>2, <2>3
<1>2. StartInv /\ [Next]_vars =>
        [\A e \in Entities : entityMap[e] # NoStorage =>
           /\ PendingGets(e)' \subseteq PendingGets(e)
           /\ PendingGets(e) = {} => entityMap'[e] = entityMap[e]]_vars
  BY NextSettles, SettledMap
<1>3. Spec => InitOnce
  BY <1>1, StartInvHolds, PTL DEF Spec, InitOnce
<1>4. Spec => MapSettles
  BY <1>2, StartInvHolds, PTL DEF Spec, MapSettles
<1> QED
  BY <1>3, <1>4, PTL DEF NothingGoesBack

-----------------------------------------------------------------------------
(* AbsddbStorage: its calls of the pool.                                   *)

\* The executor: what waits and what is replied, as sets.
Waits  == Range(waiting)
Under  == {replies[i] : i \in DOMAIN replies}
Callers(R) == {p.call : p \in R}
OneCallEach ==
  /\ \A i, k \in DOMAIN waiting : waiting[i] = waiting[k] => i = k
  /\ \A i, k \in DOMAIN replies : replies[i].call = replies[k].call => i = k
  /\ Waits \cap Callers(Under) = {}
LineTypes == waiting \in Seq(Chains) /\ replies \in Seq([call : Chains, outcome : Outcomes])


LEMMA ElementsAre ==
  ASSUME NEW S, NEW s \in Seq(S)
  PROVE  \A i \in DOMAIN s : s[i] \in S
<1> QED
  BY ElementOfSeq, LenProperties

LEMMA RepliesAre ==
  ASSUME LineTypes
  PROVE  /\ \A p \in Under : p.call \in Chains /\ p.outcome \in Outcomes
         /\ Waits \subseteq Chains
<1> DEFINE Replies == [call : Chains, outcome : Outcomes]
<1>0. replies \in Seq(Replies)
  BY DEF LineTypes
<1>1. \A i \in DOMAIN replies : replies[i] \in Replies
  <2> HIDE DEF Replies
  <2> QED
    BY <1>0, ElementsAre
<1>2. \A i \in DOMAIN waiting : waiting[i] \in Chains
  BY ElementsAre DEF LineTypes
<1> QED
  BY <1>1, <1>2 DEF Under, Waits, Range

\* The element at the head of a sequence without repetitions is not in its tail.
LEMMA TailOf ==
  ASSUME NEW S, NEW s \in Seq(S), s # <<>>
  PROVE  /\ Head(s) \in S /\ Tail(s) \in Seq(S)
         /\ Head(s) = s[1] /\ 1 \in DOMAIN s
         /\ DOMAIN Tail(s) = 1..(Len(s) - 1) /\ Len(s) \in Nat \ {0}
         /\ \A i \in DOMAIN Tail(s) : i + 1 \in DOMAIN s /\ Tail(s)[i] = s[i + 1]
         /\ \A i \in DOMAIN s \ {1} : i - 1 \in DOMAIN Tail(s) /\ Tail(s)[i - 1] = s[i]
<1>1. Len(s) \in Nat \ {0} /\ DOMAIN s = 1..Len(s)
  BY EmptySeq, LenProperties
<1>2. Head(s) \in S /\ Tail(s) \in Seq(S) /\ Len(Tail(s)) = Len(s) - 1
      /\ \A i \in 1..Len(Tail(s)) : Tail(s)[i] = s[i + 1]
  BY HeadTailProperties
<1>3. Head(s) = s[1]
  OBVIOUS
<1>4. DOMAIN Tail(s) = 1..(Len(s) - 1)
  BY <1>2, LenProperties
<1>5. \A i \in DOMAIN s \ {1} : i - 1 \in DOMAIN Tail(s) /\ Tail(s)[i - 1] = s[i]
  <2> SUFFICES ASSUME NEW i \in DOMAIN s \ {1}
               PROVE  i - 1 \in DOMAIN Tail(s) /\ Tail(s)[i - 1] = s[i]
    OBVIOUS
  <2>1. i - 1 \in 1..(Len(s) - 1) /\ (i - 1) + 1 = i
    BY <1>1
  <2> QED
    BY <1>2, <1>4, <2>1
<1> QED
  BY <1>1, <1>2, <1>3, <1>4, <1>5

LEMMA AcceptLine ==
  ASSUME LineTypes, OneCallEach, NEW c \in Chains, Executor!Accept(c)
  PROVE  /\ LineTypes' /\ OneCallEach'
         /\ Waits' = Waits \cup {c} /\ Under' = Under
<1> USE DEF LineTypes
<1>1. /\ c \notin Range(waiting) /\ c \notin {replies[i].call : i \in DOMAIN replies}
      /\ waiting' = Append(waiting, c) /\ replies' = replies
  BY DEF Executor!Accept, Executor!Outstanding, Executor!Executed, Executor!Range, Range
<1>2. /\ DOMAIN waiting = 1..Len(waiting) /\ Len(waiting) \in Nat
      /\ DOMAIN waiting' = 1..(Len(waiting) + 1) /\ waiting'[Len(waiting) + 1] = c
      /\ \A i \in DOMAIN waiting : waiting'[i] = waiting[i]
  BY <1>1, AppendProperties, LenProperties
<1>3. Waits' = Waits \cup {c} /\ Under' = Under
  BY <1>1, <1>2 DEF Waits, Under, Range
<1>4. \A i \in DOMAIN waiting : waiting[i] # c
  BY <1>1 DEF Range
<1>5. \A i, k \in DOMAIN waiting' : waiting'[i] = waiting'[k] => i = k
  BY <1>2, <1>4 DEF OneCallEach
<1>6. (Waits \cap Callers(Under))' = {}
  BY <1>1, <1>3 DEF OneCallEach, Callers, Under
<1> QED
  BY <1>1, <1>3, <1>5, <1>6 DEF OneCallEach

LEMMA ExecuteLine ==
  ASSUME LineTypes, OneCallEach, NEW o \in Outcomes, Executor!Execute(o)
  PROVE  /\ LineTypes' /\ OneCallEach' /\ Head(waiting) \in Waits \cap Chains
         /\ Waits' = Waits \ {Head(waiting)}
         /\ Under' = Under \cup {[call |-> Head(waiting), outcome |-> o]}
<1> USE DEF LineTypes
<1> DEFINE p == [call |-> Head(waiting), outcome |-> o]
<1>1. waiting # <<>> /\ waiting' = Tail(waiting) /\ replies' = Append(replies, p)
  BY DEF Executor!Execute
<1>2. /\ Head(waiting) \in Chains /\ Tail(waiting) \in Seq(Chains)
      /\ Head(waiting) = waiting[1] /\ 1 \in DOMAIN waiting
      /\ DOMAIN waiting' = 1..(Len(waiting) - 1) /\ Len(waiting) \in Nat \ {0}
      /\ \A i \in DOMAIN waiting' : i + 1 \in DOMAIN waiting /\ waiting'[i] = waiting[i + 1]
      /\ \A i \in DOMAIN waiting \ {1} : i - 1 \in DOMAIN waiting' /\ waiting'[i - 1] = waiting[i]
  BY <1>1, TailOf
<1>3. p \in [call : Chains, outcome : Outcomes] /\ p.call = Head(waiting)
  BY <1>2
<1> HIDE DEF p
<1>4. /\ replies' \in Seq([call : Chains, outcome : Outcomes])
      /\ DOMAIN replies = 1..Len(replies) /\ Len(replies) \in Nat
      /\ DOMAIN replies' = 1..(Len(replies) + 1) /\ replies'[Len(replies) + 1] = p
      /\ \A i \in DOMAIN replies : replies'[i] = replies[i]
  BY <1>1, <1>3, AppendProperties, LenProperties
<1>5. Head(waiting) \in Waits
  BY <1>2 DEF Waits, Range
<1>6. Waits' = Waits \ {Head(waiting)}
  <2>1. Waits' \subseteq Waits
    BY <1>2 DEF Waits, Range
  <2>2. Head(waiting) \notin Waits'
    <3> SUFFICES ASSUME NEW i \in DOMAIN waiting', waiting'[i] = waiting[1] PROVE FALSE
      BY <1>2 DEF Waits, Range
    <3>1. i + 1 \in DOMAIN waiting /\ waiting[i + 1] = waiting[1] /\ i \in Nat /\ i > 0
      BY <1>2
    <3>2. i + 1 = 1
      BY <1>2, <3>1 DEF OneCallEach
    <3> QED
      BY <3>1, <3>2
  <2>3. ASSUME NEW i \in DOMAIN waiting, waiting[i] # Head(waiting) PROVE waiting[i] \in Waits'
    <3>1. i - 1 \in DOMAIN waiting' /\ waiting'[i - 1] = waiting[i]
      BY <1>2, <2>3
    <3> QED
      BY <3>1 DEF Waits, Range
  <2>4. Waits \ {Head(waiting)} \subseteq Waits'
    BY <2>3 DEF Waits, Range
  <2> QED
    BY <2>1, <2>2, <2>4
<1>7. Under' = Under \cup {p}
  <2>1. Under' \subseteq Under \cup {p}
    BY <1>4 DEF Under
  <2>2. \A i \in DOMAIN replies : replies[i] \in Under'
    BY <1>4 DEF Under
  <2>3. p \in Under'
    BY <1>4 DEF Under
  <2> QED
    BY <2>1, <2>2, <2>3 DEF Under
<1>8. \A i, k \in DOMAIN waiting' : waiting'[i] = waiting'[k] => i = k
  <2> SUFFICES ASSUME NEW i \in DOMAIN waiting', NEW k \in DOMAIN waiting', waiting'[i] = waiting'[k]
               PROVE  i = k
    OBVIOUS
  <2>1. i + 1 \in DOMAIN waiting /\ k + 1 \in DOMAIN waiting /\ waiting[i + 1] = waiting[k + 1]
    BY <1>2
  <2>2. i + 1 = k + 1
    BY <2>1 DEF OneCallEach
  <2> QED
    BY <1>2, <2>2
<1>9. \A i \in DOMAIN replies : replies[i].call # Head(waiting)
  BY <1>5 DEF OneCallEach, Callers, Under
<1>10. \A i, k \in DOMAIN replies' : replies'[i].call = replies'[k].call => i = k
  BY <1>3, <1>4, <1>9 DEF OneCallEach
<1>11. (Waits \cap Callers(Under))' = {}
  BY <1>3, <1>6, <1>7 DEF OneCallEach, Callers
<1> QED
  BY <1>1, <1>2, <1>4, <1>5, <1>6, <1>7, <1>8, <1>10, <1>11 DEF OneCallEach, p

LEMMA AnswerLine ==
  ASSUME LineTypes, OneCallEach, NEW c, NEW o, replies # <<>>,
         Head(replies) = [call |-> c, outcome |-> o], replies' = Tail(replies)
  PROVE  /\ replies' \in Seq([call : Chains, outcome : Outcomes])
         /\ c \in Chains \ Waits /\ o \in Outcomes
         /\ [call |-> c, outcome |-> o] \in Under
         /\ Under' = Under \ {[call |-> c, outcome |-> o]}
         /\ \A p \in Under' : p.call # c
         /\ \A i, k \in DOMAIN replies' : replies'[i].call = replies'[k].call => i = k
<1> USE DEF LineTypes
<1> DEFINE q == [call |-> c, outcome |-> o]
<1>1. q.call = c /\ q.outcome = o
  OBVIOUS
<1>2. Head(replies) = q
  OBVIOUS
<1> HIDE DEF q
<1>3. /\ q \in [call : Chains, outcome : Outcomes]
      /\ replies' \in Seq([call : Chains, outcome : Outcomes])
      /\ q = replies[1] /\ 1 \in DOMAIN replies
      /\ DOMAIN replies' = 1..(Len(replies) - 1) /\ Len(replies) \in Nat \ {0}
      /\ \A i \in DOMAIN replies' : i + 1 \in DOMAIN replies /\ replies'[i] = replies[i + 1]
      /\ \A i \in DOMAIN replies \ {1} : i - 1 \in DOMAIN replies' /\ replies'[i - 1] = replies[i]
  BY <1>2, TailOf
<1>4. c \in Chains /\ o \in Outcomes
  BY <1>1, <1>3
<1>5. q \in Under
  BY <1>3 DEF Under
<1>6. c \notin Waits
  BY <1>1, <1>5 DEF OneCallEach, Callers
<1>7. \A p \in Under' : p \in Under /\ p.call # c
  <2> SUFFICES ASSUME NEW i \in DOMAIN replies'
               PROVE  replies'[i] \in Under /\ replies'[i].call # c
    BY DEF Under
  <2>1. i + 1 \in DOMAIN replies /\ replies'[i] = replies[i + 1] /\ i + 1 # 1
    BY <1>3
  <2>2. replies[i + 1].call # replies[1].call
    BY <1>3, <2>1 DEF OneCallEach
  <2> QED
    BY <1>1, <1>3, <2>1, <2>2 DEF Under
<1>8. Under \ {q} \subseteq Under'
  <2> SUFFICES ASSUME NEW i \in DOMAIN replies, replies[i] # q PROVE replies[i] \in Under'
    BY DEF Under
  <2>1. i - 1 \in DOMAIN replies' /\ replies'[i - 1] = replies[i]
    BY <1>3
  <2> QED
    BY <2>1 DEF Under
<1>9. Under' = Under \ {q}
  BY <1>1, <1>7, <1>8
<1>10. \A i, k \in DOMAIN replies' : replies'[i].call = replies'[k].call => i = k
  <2> SUFFICES ASSUME NEW i \in DOMAIN replies', NEW k \in DOMAIN replies',
                      replies'[i].call = replies'[k].call
               PROVE  i = k
    OBVIOUS
  <2>1. /\ i + 1 \in DOMAIN replies /\ k + 1 \in DOMAIN replies
        /\ replies[i + 1].call = replies[k + 1].call
    BY <1>3
  <2>2. i + 1 = k + 1
    BY <2>1 DEF OneCallEach
  <2> QED
    BY <1>3, <2>2
<1> QED
  BY <1>3, <1>4, <1>5, <1>6, <1>7, <1>9, <1>10 DEF q

LEMMA AnswerOnlyLine ==
  ASSUME LineTypes, OneCallEach, NEW c, NEW o, Executor!Answer(c, o)
  PROVE  /\ LineTypes' /\ OneCallEach' /\ c \in Chains \ Waits /\ o \in Outcomes
         /\ Waits' = Waits
         /\ [call |-> c, outcome |-> o] \in Under
         /\ Under' = Under \ {[call |-> c, outcome |-> o]}
         /\ \A p \in Under' : p.call # c
<1>1. /\ replies # <<>> /\ Head(replies) = [call |-> c, outcome |-> o]
      /\ replies' = Tail(replies) /\ waiting' = waiting
  BY DEF Executor!Answer
<1>2. /\ replies' \in Seq([call : Chains, outcome : Outcomes])
      /\ c \in Chains \ Waits /\ o \in Outcomes
      /\ [call |-> c, outcome |-> o] \in Under
      /\ Under' = Under \ {[call |-> c, outcome |-> o]}
      /\ \A p \in Under' : p.call # c
      /\ \A i, k \in DOMAIN replies' : replies'[i].call = replies'[k].call => i = k
  BY <1>1, AnswerLine
<1>3. Waits' = Waits
  BY <1>1 DEF Waits
<1>4. (Waits \cap Callers(Under))' = {}
  BY <1>2, <1>3 DEF OneCallEach, Callers
<1> QED
  BY <1>1, <1>2, <1>3, <1>4 DEF LineTypes, OneCallEach

LEMMA AnswerThenAcceptLine ==
  ASSUME LineTypes, OneCallEach, NEW c, NEW o, Executor!AnswerThenAccept(c, o)
  PROVE  /\ LineTypes' /\ OneCallEach' /\ c \in Chains \ Waits /\ o \in Outcomes
         /\ Waits' = Waits \cup {c}
         /\ [call |-> c, outcome |-> o] \in Under
         /\ Under' = Under \ {[call |-> c, outcome |-> o]}
         /\ \A p \in Under' : p.call # c
<1>1. /\ replies # <<>> /\ Head(replies) = [call |-> c, outcome |-> o]
      /\ replies' = Tail(replies) /\ waiting' = Append(waiting, c)
  BY DEF Executor!AnswerThenAccept
<1>2. /\ replies' \in Seq([call : Chains, outcome : Outcomes])
      /\ c \in Chains \ Waits /\ o \in Outcomes
      /\ [call |-> c, outcome |-> o] \in Under
      /\ Under' = Under \ {[call |-> c, outcome |-> o]}
      /\ \A p \in Under' : p.call # c
      /\ \A i, k \in DOMAIN replies' : replies'[i].call = replies'[k].call => i = k
  BY <1>1, AnswerLine
<1>3. /\ DOMAIN waiting = 1..Len(waiting) /\ Len(waiting) \in Nat
      /\ waiting' \in Seq(Chains)
      /\ DOMAIN waiting' = 1..(Len(waiting) + 1) /\ waiting'[Len(waiting) + 1] = c
      /\ \A i \in DOMAIN waiting : waiting'[i] = waiting[i]
  BY <1>1, <1>2, AppendProperties, LenProperties DEF LineTypes
<1>4. Waits' = Waits \cup {c}
  BY <1>3 DEF Waits, Range
<1>5. \A i \in DOMAIN waiting : waiting[i] # c
  BY <1>2 DEF Waits, Range
<1>6. \A i, k \in DOMAIN waiting' : waiting'[i] = waiting'[k] => i = k
  BY <1>3, <1>5 DEF OneCallEach
<1>7. (Waits \cap Callers(Under))' = {}
  BY <1>2, <1>4 DEF OneCallEach, Callers
<1> QED
  BY <1>1, <1>2, <1>3, <1>4, <1>6, <1>7 DEF LineTypes, OneCallEach

-----------------------------------------------------------------------------
(* The invariant. *)

CallOf(c) == <<c, "call">>
RefOf(c)  == <<c, "reference">>
ChainPCs       == {"idle", "begun", "exists", "missed", "load", "create", "reference", "put", "delete"}
Asking    == {"exists", "load", "put", "delete"}

RecordsOf(id) == {d \in Records : IF id \in Children THEN d.ref \in Parents ELSE d.ref = None}
Objects       == [id : Ids, val : Vals, ref : Nat \cup {None, Failure}]
ChainRecords  == [pc : ChainPCs, op : {"get", "put", "remove", None}, id : Ids \cup {None},
                  obj : Nat \cup {None}, data : Records \cup {None}]

AbsddbShapes ==
  /\ pdb \in [Ids -> Records \cup {None}]
  /\ idCache \in [Ids -> Nat \cup {None}]
  /\ objs \in Seq(Objects)
  /\ LineTypes
  /\ chains \in [Chains -> ChainRecords]
  /\ held \in [Clients -> Nat \cup {None}]
  /\ answer \in [Clients -> {None, "ok", "failed"}]
  /\ calls \in [Clients -> 0..MaxOps]
  /\ during \in [Chains -> [there : BOOLEAN, absent : BOOLEAN]]

\* What a chain works with in each state.
ChainOK(ch) ==
  LET c == chains[ch] IN
    /\ c.pc = "idle" => c = Idle
    /\ c.pc # "idle" => c.id \in Ids
    /\ c.pc \in {"begun", "exists"} => c.op \in {"get", "remove"}
    /\ c.pc \in {"missed", "load", "create", "reference"} => c.op = "get"
    /\ c.pc = "put" => c.op = "put"
    /\ c.pc = "delete" => c.op = "remove"
    /\ c.pc # "idle" /\ c.op = "remove" => \E o \in Instances : objs[o].id = c.id
    /\ c.pc \in {"create", "put"} => c.data \in RecordsOf(c.id)
    /\ c.pc \in {"put", "reference"} => c.obj \in Instances /\ objs[c.obj].id = c.id
    /\ c.pc \in {"missed", "load", "create", "reference", "delete"} => during[ch].there

ClientOK(c) ==
  LET call == chains[CallOf(c)]
      ref  == chains[RefOf(c)]
  IN /\ ChainOK(CallOf(c)) /\ ChainOK(RefOf(c))
     /\ ref.pc # "idle" <=> call.pc = "reference"
     /\ call.pc = "reference" => call.id \in Children /\ objs[call.obj].ref = None
     /\ ref.pc # "idle" => ref.op = "get" /\ ref.id \in Parents /\ ref.pc # "reference"
     /\ held[c] \in Instances \cup {None}

ReplyOK(p) ==
  LET c   == chains[p.call]
      met == during[p.call]
  IN /\ c.pc = "exists" => IF p.outcome.ok THEN met.there ELSE met.absent
     /\ c.pc = "load" => IF p.outcome.data = None THEN met.absent
                         ELSE p.outcome.data \in RecordsOf(c.id)
     /\ c.pc = "delete" => met.absent /\ (p.outcome.ok => met.there)

LineOK ==
  /\ OneCallEach
  /\ \A ch \in Waits \cup Callers(Under) : chains[ch].pc \in Asking
  /\ \A p \in Under : ReplyOK(p)

ObjOK(o) ==
  /\ objs[o].ref \notin {None, Failure} =>
       objs[o].ref \in Instances /\ objs[o].id \in Children /\ objs[objs[o].ref].id \in Parents
  /\ objs[o].id \in Children /\ objs[o].ref = None =>
       \E c \in Clients : chains[CallOf(c)].pc = "reference" /\ chains[CallOf(c)].obj = o

Apart == \A c, d \in Clients :
           /\ chains[CallOf(c)].pc = "reference" /\ chains[CallOf(d)].pc = "reference"
           /\ chains[CallOf(c)].obj = chains[CallOf(d)].obj
           => c = d

Fresh(id) == pdb[id] = None /\ \A o \in Instances : objs[o].id # id
FreshOK ==
  \A id \in Ids : Fresh(id) =>
    /\ \A ch \in Chains : chains[ch].id = id => chains[ch].pc \in {"begun", "exists"}
    /\ \A p \in Under : chains[p.call].id = id => ~p.outcome.ok

ClientRefs(c, R) ==
  LET call == chains[CallOf(c)] IN
    /\ call.pc \in {"create", "put"} /\ call.id \in Children => call.data.ref = R[call.id]
    /\ call.pc = "reference" => chains[RefOf(c)].id = R[call.id]
ObjRef(o, R) == objs[o].ref \notin {None, Failure} => objs[objs[o].ref].id = R[objs[o].id]
ReplyRef(p, R) ==
  chains[p.call].pc = "load" /\ chains[p.call].id \in Children /\ p.outcome.data # None =>
    p.outcome.data.ref = R[chains[p.call].id]
RefsOK(R) ==
  /\ \A id \in Children : pdb[id] # None => pdb[id].ref = R[id]
  /\ \A c \in Clients : ClientRefs(c, R)
  /\ \A o \in Instances : ObjRef(o, R)
  /\ \A p \in Under : ReplyRef(p, R)

CacheOK == \A id \in Ids : idCache[id] # None =>
             idCache[id] \in Instances /\ objs[idCache[id]].id = id

TidyInv ==
  /\ AbsddbShapes
  /\ \A id \in Ids : pdb[id] # None => pdb[id] \in RecordsOf(id)
  /\ CacheOK /\ LineOK /\ Apart /\ FreshOK
  /\ \A c \in Clients : ClientOK(c)
  /\ \A o \in Instances : ObjOK(o)

\* What the reference of each identity is, if it has ever had one.
References == [Children -> Ids \cup {None}]
StoreInv   == TidyInv /\ \E R \in References : RefsOK(R)

-----------------------------------------------------------------------------
(* A step of one client.                                                   *)

LEMMA ChainsAre ==
  /\ \A c \in Clients : /\ CallOf(c) \in Chains /\ RefOf(c) \in Chains
                        /\ CallOf(c)[1] = c /\ RefOf(c)[1] = c
  /\ \A ch \in Chains : ch[1] \in Clients /\ (ch = CallOf(ch[1]) \/ ch = RefOf(ch[1]))
  /\ \A c, d : CallOf(c) # RefOf(d)
<1> QED
  BY DEF Chains, CallOf, RefOf

\* The chains of c move, and what they set is a reference that c was loading.
Moves(c) ==
  /\ pdb' = pdb
  /\ \A d \in Clients \ {c} : /\ chains'[CallOf(d)] = chains[CallOf(d)]
                              /\ chains'[RefOf(d)] = chains[RefOf(d)]
                              /\ held'[d] = held[d]
  /\ \A ch \in Chains : ch[1] # c => during'[ch] = during[ch]
  /\ OneCallEach' /\ Under' \subseteq Under /\ Waits' \subseteq Waits \cup {CallOf(c), RefOf(c)}
  /\ \A p \in Under' : p.call[1] # c
  /\ \A ch \in Waits' : ch[1] = c => chains'[ch].pc \in Asking
  /\ \A o \in Instances : o \in Instances' /\ objs'[o].id = objs[o].id
  /\ \A o \in Instances : \/ objs'[o].ref = objs[o].ref
                          \/ /\ objs[o].ref = None
                             /\ chains[CallOf(c)].pc = "reference" /\ chains[CallOf(c)].obj = o

\* What is to be shown of the client that moves.
Goes(c) ==
  LET call == CallOf(c) IN
    /\ ClientOK(c)' /\ CacheOK'
    /\ chains'[call].pc = "reference" =>
         \/ chains[call].pc = "reference" /\ chains'[call].obj = chains[call].obj
         \/ chains'[call].obj \notin Instances
    /\ chains[call].pc = "reference" =>
         \/ chains'[call].pc = "reference" /\ chains'[call].obj = chains[call].obj
         \/ objs'[chains[call].obj].ref = Failure
         \/ /\ objs'[chains[call].obj].ref \in Instances' \ {None}
            /\ objs'[objs'[chains[call].obj].ref].id \in Parents
    /\ \A o \in Instances' \ Instances : ObjOK(o)'
    /\ \A id \in Ids : Fresh(id)' =>
         \A ch \in {call, RefOf(c)} : chains'[ch].id = id => chains'[ch].pc \in {"begun", "exists"}

LEMMA OthersKeep ==
  ASSUME TidyInv, NEW c \in Clients, Moves(c), NEW d \in Clients, d # c
  PROVE  ClientOK(d)'
<1>1. /\ chains'[CallOf(d)] = chains[CallOf(d)] /\ chains'[RefOf(d)] = chains[RefOf(d)]
      /\ held'[d] = held[d]
      /\ during'[CallOf(d)] = during[CallOf(d)] /\ during'[RefOf(d)] = during[RefOf(d)]
  BY ChainsAre DEF Moves
<1>2. \A o \in Instances : o \in Instances' /\ objs'[o].id = objs[o].id
  BY DEF Moves
<1>3. ClientOK(d)
  BY DEF TidyInv
<1>4. ChainOK(CallOf(d))'
  BY <1>1, <1>2, <1>3 DEF ClientOK, ChainOK
<1>5. ChainOK(RefOf(d))'
  BY <1>1, <1>2, <1>3 DEF ClientOK, ChainOK
<1>6. chains[CallOf(d)].pc = "reference" => objs'[chains[CallOf(d)].obj].ref = None
  <2> SUFFICES ASSUME chains[CallOf(d)].pc = "reference"
               PROVE  objs'[chains[CallOf(d)].obj].ref = None
    OBVIOUS
  <2>1. chains[CallOf(d)].obj \in Instances /\ objs[chains[CallOf(d)].obj].ref = None
    BY <1>3 DEF ClientOK, ChainOK
  <2>2. chains[CallOf(c)].pc = "reference" => chains[CallOf(c)].obj # chains[CallOf(d)].obj
    BY DEF TidyInv, Apart
  <2> QED
    BY <2>1, <2>2 DEF Moves
<1>7. held'[d] \in Instances' \cup {None}
  BY <1>1, <1>2, <1>3 DEF ClientOK
<1> QED
  BY <1>1, <1>3, <1>4, <1>5, <1>6, <1>7 DEF ClientOK

LEMMA ClientStep ==
  ASSUME TidyInv, NEW c \in Clients, Moves(c), Goes(c), AbsddbShapes'
  PROVE  TidyInv'
<1>1. /\ pdb' = pdb /\ OneCallEach' /\ Under' \subseteq Under
      /\ \A o \in Instances : o \in Instances' /\ objs'[o].id = objs[o].id
      /\ \A d \in Clients \ {c} : /\ chains'[CallOf(d)] = chains[CallOf(d)]
                                  /\ chains'[RefOf(d)] = chains[RefOf(d)]
  BY DEF Moves
<1>2. \A id \in Ids : pdb'[id] # None => pdb'[id] \in RecordsOf(id)
  BY <1>1 DEF TidyInv
<1>3. \A d \in Clients : ClientOK(d)'
  BY OthersKeep DEF Goes
<1>4. \A ch \in Chains : ch[1] # c => chains'[ch] = chains[ch] /\ during'[ch] = during[ch]
  BY ChainsAre DEF Moves
<1>5. LineTypes' /\ LineTypes
  BY DEF AbsddbShapes, TidyInv
<1>6. (\A p \in Under' : p.call \in Chains) /\ Waits' \subseteq Chains
  <2> DEFINE Replies == [call : Chains, outcome : Outcomes]
  <2>0. replies' \in Seq(Replies)
    BY <1>5 DEF LineTypes
  <2>1. \A i \in DOMAIN replies' : replies'[i] \in Replies
    <3> HIDE DEF Replies
    <3> QED
      BY <2>0, ElementsAre
  <2>2. Waits' \subseteq Chains
    BY <1>5, RangeOfSeq DEF LineTypes, Waits
  <2> QED
    BY <2>1, <2>2 DEF Under
<1>7. LineOK'
  <2>1. ASSUME NEW p \in Under' PROVE ReplyOK(p)' /\ chains'[p.call].pc \in Asking
    <3>1. p \in Under /\ chains'[p.call] = chains[p.call] /\ during'[p.call] = during[p.call]
      BY <1>1, <1>4, <1>6 DEF Moves
    <3>2. ReplyOK(p) /\ chains[p.call].pc \in Asking
      BY <3>1 DEF TidyInv, LineOK, Callers
    <3> QED
      BY <3>1, <3>2 DEF ReplyOK
  <2>2. ASSUME NEW ch \in Waits' PROVE chains'[ch].pc \in Asking
    <3>1. CASE ch[1] = c
      BY <3>1 DEF Moves
    <3>2. CASE ch[1] # c
      <4>1. ch \in Waits
        BY <3>2, ChainsAre DEF Moves
      <4>2. chains[ch].pc \in Asking
        BY <4>1 DEF TidyInv, LineOK
      <4> QED
        BY <1>4, <1>6, <3>2, <4>2
    <3> QED
      BY <3>1, <3>2
  <2> QED
    BY <1>1, <2>1, <2>2 DEF LineOK, Callers
<1>8. Apart'
  <2>1. ASSUME NEW d \in Clients, d # c, chains'[CallOf(c)].pc = "reference",
               chains'[CallOf(d)].pc = "reference"
        PROVE  chains'[CallOf(c)].obj # chains'[CallOf(d)].obj
    <3>1. chains'[CallOf(d)] = chains[CallOf(d)] /\ chains[CallOf(d)].obj \in Instances
      BY <1>1, <2>1 DEF TidyInv, ClientOK, ChainOK
    <3> QED
      BY <2>1, <3>1 DEF Goes, TidyInv, Apart
  <2>2. ASSUME NEW d \in Clients \ {c}, NEW e \in Clients \ {c}, chains'[CallOf(e)].pc = "reference",
               chains'[CallOf(d)].pc = "reference", chains'[CallOf(d)].obj = chains'[CallOf(e)].obj
        PROVE  d = e
    BY <1>1, <2>2 DEF TidyInv, Apart
  <2> QED
    BY <2>1, <2>2 DEF Apart
<1>9. FreshOK'
  <2> SUFFICES ASSUME NEW id \in Ids, Fresh(id)'
               PROVE  /\ \A ch \in Chains : chains'[ch].id = id => chains'[ch].pc \in {"begun", "exists"}
                      /\ \A p \in Under' : chains'[p.call].id = id => ~p.outcome.ok
    BY DEF FreshOK
  <2>1. Fresh(id)
    BY <1>1 DEF Fresh
  <2>2. /\ \A ch \in Chains : chains[ch].id = id => chains[ch].pc \in {"begun", "exists"}
        /\ \A p \in Under : chains[p.call].id = id => ~p.outcome.ok
    BY <2>1 DEF TidyInv, FreshOK
  <2>3. ASSUME NEW ch \in Chains, chains'[ch].id = id PROVE chains'[ch].pc \in {"begun", "exists"}
    <3>1. CASE ch[1] = c
      BY <2>3, <3>1, ChainsAre DEF Goes
    <3>2. CASE ch[1] # c
      BY <1>4, <2>2, <2>3, <3>2
    <3> QED
      BY <3>1, <3>2
  <2>4. ASSUME NEW p \in Under', chains'[p.call].id = id PROVE ~p.outcome.ok
    <3>1. p \in Under /\ chains'[p.call] = chains[p.call]
      BY <1>1, <1>4, <1>6 DEF Moves
    <3> QED
      BY <2>2, <2>4, <3>1
  <2> QED
    BY <2>3, <2>4
<1>10. ASSUME NEW o \in Instances' PROVE ObjOK(o)'
  <2>1. CASE o \notin Instances
    BY <2>1 DEF Goes
  <2>2. CASE o \in Instances /\ objs'[o].ref = objs[o].ref
    <3>1. ObjOK(o) /\ objs'[o].id = objs[o].id
      BY <1>1, <2>2 DEF TidyInv
    <3>2. ASSUME objs[o].ref \notin {None, Failure}
          PROVE  /\ objs'[o].ref \in Instances' /\ objs'[o].id \in Children
                 /\ objs'[objs'[o].ref].id \in Parents
      BY <1>1, <2>2, <3>1, <3>2 DEF ObjOK
    <3>3. ASSUME objs[o].id \in Children, objs[o].ref = None
          PROVE  \E d \in Clients : chains'[CallOf(d)].pc = "reference" /\ chains'[CallOf(d)].obj = o
      <4>1. PICK d \in Clients : chains[CallOf(d)].pc = "reference" /\ chains[CallOf(d)].obj = o
        BY <3>1, <3>3 DEF ObjOK
      <4>2. CASE d # c
        BY <1>1, <4>1, <4>2
      <4>3. CASE d = c
        BY <2>2, <3>3, <4>1, <4>3, StorageAssumption DEF Goes
      <4> QED
        BY <4>2, <4>3
    <3> QED
      BY <2>2, <3>1, <3>2, <3>3 DEF ObjOK
  <2>3. CASE o \in Instances /\ objs'[o].ref # objs[o].ref
    <3>1. /\ objs[o].ref = None /\ chains[CallOf(c)].pc = "reference" /\ chains[CallOf(c)].obj = o
          /\ objs'[o].id = objs[o].id
      BY <2>3 DEF Moves
    <3>2. objs[o].id \in Children
      BY <3>1 DEF TidyInv, ClientOK, ChainOK
    <3>3. \/ chains'[CallOf(c)].pc = "reference" /\ chains'[CallOf(c)].obj = o
          \/ objs'[o].ref = Failure
          \/ objs'[o].ref \in Instances' \ {None} /\ objs'[objs'[o].ref].id \in Parents
      BY <3>1 DEF Goes
    <3>4. chains'[CallOf(c)].pc = "reference" /\ chains'[CallOf(c)].obj = o => objs'[o].ref = None
      BY <1>3 DEF ClientOK
    <3> QED
      BY <2>3, <3>1, <3>2, <3>3, <3>4, StorageAssumption DEF ObjOK
  <2> QED
    BY <2>1, <2>2, <2>3
<1> QED
  BY <1>2, <1>3, <1>7, <1>8, <1>9, <1>10 DEF TidyInv, Goes

\* The references known, when c moves.
LEMMA RefsStep ==
  ASSUME TidyInv, NEW c \in Clients, Moves(c), NEW R, RefsOK(R), ClientRefs(c, R)', LineTypes',
         \A o \in Instances' \ Instances : ObjRef(o, R)',
         \A o \in Instances : objs'[o].ref # objs[o].ref => ObjRef(o, R)'
  PROVE  RefsOK(R)'
<1>1. \A id \in Children : pdb'[id] # None => pdb'[id].ref = R[id]
  BY DEF RefsOK, Moves
<1>2. ASSUME NEW d \in Clients, d # c PROVE ClientRefs(d, R)'
  BY <1>2 DEF RefsOK, Moves, ClientRefs
<1>3. ASSUME NEW o \in Instances, objs'[o].ref = objs[o].ref PROVE ObjRef(o, R)'
  <2>1. ObjRef(o, R) /\ objs'[o].id = objs[o].id
    BY DEF RefsOK, Moves
  <2>2. objs[o].ref \notin {None, Failure} => objs'[objs[o].ref].id = objs[objs[o].ref].id
    BY DEF TidyInv, ObjOK, Moves
  <2> QED
    BY <1>3, <2>1, <2>2 DEF ObjRef
<1>4. ASSUME NEW p \in Under' PROVE ReplyRef(p, R)'
  <2> DEFINE Replies == [call : Chains, outcome : Outcomes]
  <2>0. replies' \in Seq(Replies)
    BY DEF LineTypes
  <2>1. \A i \in DOMAIN replies' : replies'[i] \in Replies
    <3> HIDE DEF Replies
    <3> QED
      BY <2>0, ElementsAre
  <2>2. p.call \in Chains /\ p.call[1] # c /\ p \in Under
    BY <2>1 DEF Under, Moves
  <2>3. chains'[p.call] = chains[p.call]
    BY <2>2, ChainsAre DEF Moves
  <2> QED
    BY <2>2, <2>3 DEF RefsOK, ReplyRef
<1> QED
  BY <1>1, <1>2, <1>3, <1>4 DEF RefsOK

-----------------------------------------------------------------------------
(* Steps of the event loop.                                                *)

\* A chain at work is the only one of its client that can have a call in the pool.
LEMMA Alone ==
  ASSUME TidyInv, NEW ch \in Chains, chains[ch].pc \notin {"idle", "reference"},
         NEW o \in Chains, o[1] = ch[1], o # ch
  PROVE  /\ chains[o].pc \in {"idle", "reference"}
         /\ o \notin Waits /\ o \notin Callers(Under)
<1>1. ClientOK(ch[1]) /\ ch[1] \in Clients
  BY ChainsAre DEF TidyInv
<1>2. chains[o].pc \in {"idle", "reference"}
  <2>1. CASE ch = CallOf(ch[1])
    <3>1. o = RefOf(ch[1])
      BY <2>1, ChainsAre
    <3> QED
      BY <1>1, <2>1, <3>1 DEF ClientOK
  <2>2. CASE ch = RefOf(ch[1])
    <3>1. o = CallOf(ch[1])
      BY <2>2, ChainsAre
    <3> QED
      BY <1>1, <2>2, <3>1 DEF ClientOK
  <2> QED
    BY <2>1, <2>2, ChainsAre
<1> QED
  BY <1>2 DEF TidyInv, LineOK, Asking

\* What the event loop takes from the pool and hands to it when chain ch moves.
LineMoves(ch) ==
  /\ LineTypes' /\ OneCallEach'
  /\ Under' \subseteq Under /\ Waits' \subseteq Waits \cup {ch}
  /\ \A p \in Under' : p.call # ch
  /\ ch \in Waits' => chains'[ch].pc \in Asking

LEMMA LineAlone ==
  ASSUME TidyInv, NEW ch \in Chains, chains[ch].pc \notin {"idle", "reference"}, LineMoves(ch)
  PROVE  /\ OneCallEach' /\ Under' \subseteq Under
         /\ Waits' \subseteq Waits \cup {CallOf(ch[1]), RefOf(ch[1])}
         /\ \A p \in Under' : p.call[1] # ch[1]
         /\ \A o \in Waits' : o[1] = ch[1] => chains'[o].pc \in Asking
<1>1. LineTypes
  BY DEF TidyInv, AbsddbShapes
<1>2. (\A p \in Under : p.call \in Chains) /\ Waits \subseteq Chains
  BY <1>1, RepliesAre
<1>3. ASSUME NEW p \in Under', p.call[1] = ch[1] PROVE FALSE
  <2>1. p \in Under /\ p.call \in Chains /\ p.call # ch
    BY <1>2 DEF LineMoves
  <2>2. p.call \notin Callers(Under)
    BY <1>3, <2>1, Alone
  <2> QED
    BY <2>1, <2>2 DEF Callers
<1>4. ASSUME NEW o \in Waits', o[1] = ch[1], o # ch PROVE FALSE
  <2>1. o \in Waits /\ o \in Chains
    BY <1>2, <1>4 DEF LineMoves
  <2> QED
    BY <1>4, <2>1, Alone
<1> QED
  BY <1>3, <1>4, ChainsAre DEF LineMoves

\* A chain goes on to its next state: nothing but the pool, the caches and the
\* chain itself changes.
ChainGoesOn(ch, new) ==
  /\ chains' = [chains EXCEPT ![ch] = new]
  /\ chains[ch].pc \notin {"idle", "reference"}
  /\ new.op = chains[ch].op /\ new.id = chains[ch].id
  /\ \/ new.pc = "exists" /\ chains[ch].pc = "begun"
     \/ /\ new.pc \in {"missed", "load", "create"} /\ new.op = "get"
        /\ during[ch].there /\ ~Fresh(new.id)
     \/ /\ new.pc = "delete" /\ new.op = "remove"
        /\ during[ch].there /\ ~Fresh(new.id)
  /\ new.pc = "create" => new.data \in RecordsOf(new.id)
  /\ UNCHANGED <<pdb, objs, held, answer, calls, during>>
  /\ LineMoves(ch)
  /\ idCache' \in [Ids -> Nat \cup {None}] /\ CacheOK'

LEMMA GoOn ==
  ASSUME TidyInv, NEW ch \in Chains, NEW new \in ChainRecords, ChainGoesOn(ch, new)
  PROVE  /\ TidyInv'
         /\ \A R : /\ RefsOK(R)
                   /\ ch = CallOf(ch[1]) /\ new.pc = "create" /\ new.id \in Children
                        => new.data.ref = R[new.id]
                   => RefsOK(R)'
<1> DEFINE c == ch[1]
<1>1. /\ c \in Clients /\ ClientOK(c) /\ CallOf(c) \in Chains /\ RefOf(c) \in Chains
      /\ ch \in {CallOf(c), RefOf(c)} /\ CallOf(c) # RefOf(c)
  BY ChainsAre DEF TidyInv
<1>2. /\ chains \in [Chains -> ChainRecords] /\ AbsddbShapes
      /\ chains'[ch] = new /\ \A o \in Chains : o # ch => chains'[o] = chains[o]
  BY DEF TidyInv, AbsddbShapes, ChainGoesOn
<1>3. UNCHANGED <<pdb, objs, held, answer, calls, during>> /\ Instances' = Instances
  BY DEF ChainGoesOn, Instances
<1>4. Moves(c)
  <2>1. /\ OneCallEach' /\ Under' \subseteq Under
        /\ Waits' \subseteq Waits \cup {CallOf(c), RefOf(c)}
        /\ \A p \in Under' : p.call[1] # c
        /\ \A o \in Waits' : o[1] = c => chains'[o].pc \in Asking
    BY LineAlone DEF ChainGoesOn
  <2>2. \A d \in Clients \ {c} : /\ chains'[CallOf(d)] = chains[CallOf(d)]
                                 /\ chains'[RefOf(d)] = chains[RefOf(d)]
    BY <1>2, ChainsAre
  <2> QED
    BY <1>3, <2>1, <2>2 DEF Moves
<1>5. ChainOK(ch) /\ new.pc \notin {"idle", "reference", "put", "begun"}
  BY <1>1 DEF ClientOK, ChainGoesOn
<1>6. ChainOK(ch)'
  BY <1>2, <1>3, <1>5 DEF ChainOK, ChainGoesOn, Idle
<1>7. \A o \in {CallOf(c), RefOf(c)} : o # ch => ChainOK(o)'
  BY <1>1, <1>2, <1>3 DEF ClientOK, ChainOK
<1>8. ClientOK(c)'
  <2>1. CASE ch = CallOf(c)
    BY <1>1, <1>2, <1>3, <1>5, <1>6, <1>7, <2>1 DEF ClientOK, ChainGoesOn
  <2>2. CASE ch = RefOf(c)
    BY <1>1, <1>2, <1>3, <1>5, <1>6, <1>7, <2>2 DEF ClientOK, ChainGoesOn
  <2> QED
    BY <1>1, <2>1, <2>2
<1>9. /\ chains'[CallOf(c)].pc = "reference" => chains'[CallOf(c)] = chains[CallOf(c)]
      /\ chains[CallOf(c)].pc = "reference" => chains'[CallOf(c)] = chains[CallOf(c)]
  BY <1>1, <1>2, <1>5 DEF ChainGoesOn
<1>10. ASSUME NEW id \in Ids, Fresh(id)', NEW o \in {CallOf(c), RefOf(c)}, chains'[o].id = id
       PROVE  chains'[o].pc \in {"begun", "exists"}
  <2>1. Fresh(id)
    BY <1>3, <1>10 DEF Fresh
  <2>2. CASE o = ch
    BY <1>2, <1>10, <2>1, <2>2 DEF ChainGoesOn
  <2>3. CASE o # ch
    BY <1>1, <1>2, <1>10, <2>1, <2>3 DEF TidyInv, FreshOK
  <2> QED
    BY <2>2, <2>3
<1>11. Goes(c)
  BY <1>3, <1>8, <1>9, <1>10 DEF Goes, ChainGoesOn
<1>12. AbsddbShapes'
  <2>1. chains' \in [Chains -> ChainRecords]
    BY <1>2 DEF ChainGoesOn
  <2> QED
    BY <1>2, <1>3, <2>1 DEF AbsddbShapes, ChainGoesOn, LineMoves
<1>13. TidyInv'
  <2> HIDE DEF c
  <2> QED
    BY <1>1, <1>4, <1>11, <1>12, ClientStep
<1>14. ASSUME NEW R, RefsOK(R),
              ch = CallOf(ch[1]) /\ new.pc = "create" /\ new.id \in Children
                => new.data.ref = R[new.id]
       PROVE  RefsOK(R)'
  <2>1. ClientRefs(c, R)
    BY <1>1, <1>14 DEF RefsOK
  <2>2. ClientRefs(c, R)'
    <3>1. CASE ch = CallOf(c)
      BY <1>2, <1>5, <1>14, <3>1 DEF ClientRefs
    <3>2. CASE ch = RefOf(c)
      <4>1. chains'[CallOf(c)] = chains[CallOf(c)] /\ chains'[RefOf(c)].id = chains[RefOf(c)].id
        BY <1>1, <1>2, <3>2 DEF ChainGoesOn
      <4> QED
        BY <2>1, <4>1 DEF ClientRefs
    <3> QED
      BY <1>1, <3>1, <3>2
  <2>3. LineTypes'
    BY DEF ChainGoesOn, LineMoves
  <2> HIDE DEF c
  <2> QED
    BY <1>1, <1>3, <1>4, <1>14, <2>2, <2>3, RefsStep
<1> QED
  BY <1>13, <1>14

\* What a reply that is delivered tells.
LEMMA Delivered ==
  ASSUME TidyInv, NEW ch \in Chains, NEW state, Answered(ch, state)
  PROVE  /\ LineMoves(ch) /\ chains[ch].pc = state /\ state \in Asking
         /\ Outcome.ok \in BOOLEAN /\ Outcome.data \in Records \cup {None}
         /\ state = "exists" => IF Outcome.ok THEN during[ch].there ELSE during[ch].absent
         /\ state = "load" => IF Outcome.data = None THEN during[ch].absent
                           ELSE Outcome.data \in RecordsOf(chains[ch].id)
         /\ state = "delete" => during[ch].absent /\ (Outcome.ok => during[ch].there)
         /\ chains[ch].id \in Ids /\ (Fresh(chains[ch].id) => ~Outcome.ok)
         /\ \A R : RefsOK(R) /\ state = "load" /\ chains[ch].id \in Children /\ Outcome.data # None
              => Outcome.data.ref = R[chains[ch].id]
<1> DEFINE p == [call |-> ch, outcome |-> Outcome]
<1>1. LineTypes /\ OneCallEach /\ Executor!Answer(ch, Outcome) /\ chains[ch].pc = state
  BY DEF TidyInv, AbsddbShapes, LineOK, Answered, Outcome
<1>2. /\ LineTypes' /\ OneCallEach' /\ ch \in Chains \ Waits /\ Outcome \in Outcomes
      /\ Waits' = Waits /\ p \in Under /\ Under' = Under \ {p} /\ \A q \in Under' : q.call # ch
  BY <1>1, AnswerOnlyLine
<1>3. ReplyOK(p) /\ state \in Asking
  BY <1>1, <1>2 DEF TidyInv, LineOK, Callers
<1>4. LineMoves(ch)
  BY <1>2 DEF LineMoves
<1>5. chains[ch].id \in Ids
  BY <1>1, <1>3, ChainsAre DEF TidyInv, ClientOK, ChainOK, Asking
<1>6. Fresh(chains[ch].id) => ~Outcome.ok
  BY <1>2, <1>5 DEF TidyInv, FreshOK
<1>7. ASSUME NEW R, RefsOK(R), state = "load", chains[ch].id \in Children, Outcome.data # None
      PROVE  Outcome.data.ref = R[chains[ch].id]
  BY <1>1, <1>2, <1>7 DEF RefsOK, ReplyRef
<1>8. Outcome.ok \in BOOLEAN /\ Outcome.data \in Records \cup {None}
  BY <1>2 DEF Outcomes
<1> QED
  BY <1>1, <1>3, <1>4, <1>5, <1>6, <1>7, <1>8 DEF ReplyOK

\* A step that keeps the invariant, and every reference known.
Keeps == TidyInv' /\ \A R : RefsOK(R) => RefsOK(R)'

LEMMA ChainAtWork ==
  ASSUME TidyInv, NEW ch \in Chains
  PROVE  /\ ChainOK(ch) /\ chains[ch] \in ChainRecords /\ CacheOK
         /\ idCache \in [Ids -> Nat \cup {None}]
         /\ chains[ch].id \in Ids /\ Fresh(chains[ch].id) => chains[ch].pc \in {"begun", "exists"}
<1>1. ChainOK(ch)
  BY ChainsAre DEF TidyInv, ClientOK
<1> QED
  BY <1>1 DEF TidyInv, AbsddbShapes, FreshOK

\* A chain hands a call to the pool.
LEMMA HandsOver ==
  ASSUME TidyInv, NEW ch \in Chains, Executor!Accept(ch), chains'[ch].pc \in Asking
  PROVE  LineMoves(ch)
<1>1. LineTypes /\ OneCallEach
  BY DEF TidyInv, AbsddbShapes, LineOK
<1>2. LineTypes' /\ OneCallEach' /\ Waits' = Waits \cup {ch} /\ Under' = Under
  BY <1>1, AcceptLine
<1>3. \A p \in Under : p.call # ch
  BY DEF Executor!Accept, Executor!Outstanding, Executor!Executed, Under
<1> QED
  BY <1>2, <1>3 DEF LineMoves

LEMMA CheckExistsKeeps ==
  ASSUME TidyInv, NEW ch \in Chains, CheckExists(ch)
  PROVE  Keeps
<1> DEFINE new == [chains[ch] EXCEPT !.pc = "exists"]
<1>1. ChainOK(ch) /\ chains[ch] \in ChainRecords /\ CacheOK /\ idCache \in [Ids -> Nat \cup {None}]
  BY ChainAtWork
<1>2. /\ new \in ChainRecords /\ new.pc = "exists"
      /\ new.op = chains[ch].op /\ new.id = chains[ch].id
  BY <1>1 DEF ChainRecords, ChainPCs
<1>3. chains' = [chains EXCEPT ![ch] = new] /\ chains[ch].pc = "begun"
  BY DEF CheckExists
<1>4. LineMoves(ch)
  <2>1. chains'[ch].pc = "exists"
    BY <1>2, <1>3 DEF TidyInv, AbsddbShapes
  <2> QED
    BY <2>1, HandsOver DEF CheckExists, Asking
<1>5. CacheOK' /\ idCache' \in [Ids -> Nat \cup {None}]
  BY <1>1 DEF CheckExists, CacheOK, Instances
<1>6. ChainGoesOn(ch, new)
  <2> HIDE DEF new
  <2> QED
    BY <1>2, <1>3, <1>4, <1>5 DEF CheckExists, ChainGoesOn
<1> HIDE DEF new
<1> QED
  BY <1>2, <1>6, GoOn DEF Keeps

LEMMA CacheMissKeeps ==
  ASSUME TidyInv, NEW ch \in Chains, CacheMiss(ch)
  PROVE  Keeps
<1> DEFINE new == [chains[ch] EXCEPT !.pc = "missed"]
<1>1. ChainOK(ch) /\ chains[ch] \in ChainRecords /\ CacheOK /\ idCache \in [Ids -> Nat \cup {None}]
  BY ChainAtWork
<1>2. /\ new \in ChainRecords /\ new.pc = "missed"
      /\ new.op = chains[ch].op /\ new.id = chains[ch].id
  BY <1>1 DEF ChainRecords, ChainPCs
<1>3. chains' = [chains EXCEPT ![ch] = new] /\ chains[ch].op = "get"
  BY DEF CacheMiss
<1>4. Answered(ch, "exists") /\ Outcome.ok
  BY DEF CacheMiss
<1>5. LineMoves(ch) /\ chains[ch].pc = "exists" /\ during[ch].there /\ ~Fresh(chains[ch].id)
  BY <1>4, Delivered
<1>6. CacheOK' /\ idCache' \in [Ids -> Nat \cup {None}]
  BY <1>1 DEF CacheMiss, CacheOK, Instances
<1>7. ChainGoesOn(ch, new)
  <2> HIDE DEF new
  <2> QED
    BY <1>2, <1>3, <1>5, <1>6 DEF CacheMiss, ChainGoesOn
<1> HIDE DEF new
<1> QED
  BY <1>2, <1>7, GoOn DEF Keeps

LEMMA LoadKeeps ==
  ASSUME TidyInv, NEW ch \in Chains, Load(ch)
  PROVE  Keeps
<1> DEFINE new == [chains[ch] EXCEPT !.pc = "load"]
<1>1. ChainOK(ch) /\ chains[ch] \in ChainRecords /\ CacheOK /\ idCache \in [Ids -> Nat \cup {None}]
  BY ChainAtWork
<1>2. /\ new \in ChainRecords /\ new.pc = "load"
      /\ new.op = chains[ch].op /\ new.id = chains[ch].id
  BY <1>1 DEF ChainRecords, ChainPCs
<1>3. chains' = [chains EXCEPT ![ch] = new] /\ chains[ch].pc = "missed"
  BY DEF Load
<1>4. chains[ch].op = "get" /\ during[ch].there /\ ~Fresh(chains[ch].id)
  BY <1>1, <1>3, ChainAtWork DEF ChainOK
<1>5. LineMoves(ch)
  <2>1. chains'[ch].pc = "load"
    BY <1>2, <1>3 DEF TidyInv, AbsddbShapes
  <2> QED
    BY <2>1, HandsOver DEF Load, Asking
<1>6. CacheOK' /\ idCache' \in [Ids -> Nat \cup {None}]
  BY <1>1 DEF Load, CacheOK, Instances
<1>7. ChainGoesOn(ch, new)
  <2> HIDE DEF new
  <2> QED
    BY <1>2, <1>3, <1>4, <1>5, <1>6 DEF Load, ChainGoesOn
<1> HIDE DEF new
<1> QED
  BY <1>2, <1>7, GoOn DEF Keeps

LEMMA RemoveFromCacheKeeps ==
  ASSUME TidyInv, NEW ch \in Chains, RemoveFromCache(ch)
  PROVE  Keeps
<1> DEFINE new == [chains[ch] EXCEPT !.pc = "delete"]
           p   == [call |-> ch, outcome |-> Outcome]
<1>1. ChainOK(ch) /\ chains[ch] \in ChainRecords /\ CacheOK /\ idCache \in [Ids -> Nat \cup {None}]
  BY ChainAtWork
<1>2. /\ new \in ChainRecords /\ new.pc = "delete"
      /\ new.op = chains[ch].op /\ new.id = chains[ch].id
  BY <1>1 DEF ChainRecords, ChainPCs
<1>3. /\ chains' = [chains EXCEPT ![ch] = new] /\ chains[ch].op = "remove"
      /\ chains[ch].pc = "exists" /\ Outcome.ok /\ Executor!AnswerThenAccept(ch, Outcome)
      /\ idCache' = [idCache EXCEPT ![chains[ch].id] = None]
      /\ UNCHANGED <<pdb, objs, held, answer, calls, during>>
  BY DEF RemoveFromCache
<1>4. LineTypes /\ OneCallEach
  BY DEF TidyInv, AbsddbShapes, LineOK
<1>5. /\ LineTypes' /\ OneCallEach' /\ Waits' = Waits \cup {ch} /\ p \in Under
      /\ Under' = Under \ {p} /\ \A q \in Under' : q.call # ch
  BY <1>3, <1>4, AnswerThenAcceptLine
<1>6. chains'[ch].pc = "delete"
  BY <1>2, <1>3 DEF TidyInv, AbsddbShapes
<1>7. LineMoves(ch)
  BY <1>5, <1>6 DEF LineMoves, Asking
<1>8. ReplyOK(p) /\ chains[ch].id \in Ids /\ (Fresh(chains[ch].id) => ~Outcome.ok)
  BY <1>1, <1>3, <1>5 DEF TidyInv, LineOK, FreshOK, ChainOK
<1>9. during[ch].there /\ ~Fresh(chains[ch].id)
  BY <1>3, <1>8 DEF ReplyOK
<1>10. CacheOK' /\ idCache' \in [Ids -> Nat \cup {None}]
  <2>1. Instances' = Instances
    BY <1>3 DEF Instances
  <2> QED
    BY <1>1, <1>3, <2>1 DEF CacheOK
<1>11. ChainGoesOn(ch, new)
  <2> HIDE DEF new
  <2> QED
    BY <1>2, <1>3, <1>7, <1>9, <1>10 DEF ChainGoesOn
<1> HIDE DEF new
<1> QED
  BY <1>2, <1>11, GoOn DEF Keeps

LEMMA RecordGoesOn ==
  ASSUME TidyInv, NEW ch \in Chains, Loaded(ch), Outcome.data # None
  PROVE  Keeps
<1> DEFINE new == [chains[ch] EXCEPT !.pc = "create", !.data = Outcome.data]
<1>1. ChainOK(ch) /\ chains[ch] \in ChainRecords /\ CacheOK /\ idCache \in [Ids -> Nat \cup {None}]
  BY ChainAtWork
<1>2. Answered(ch, "load")
  BY DEF Loaded
<1>3. /\ LineMoves(ch) /\ chains[ch].pc = "load" /\ Outcome.data \in RecordsOf(chains[ch].id)
      /\ \A R : RefsOK(R) /\ chains[ch].id \in Children => Outcome.data.ref = R[chains[ch].id]
      /\ Outcome.data \in Records \cup {None}
  BY <1>2, Delivered
<1>4. chains[ch].op = "get" /\ during[ch].there /\ ~Fresh(chains[ch].id)
  BY <1>1, <1>3, ChainAtWork DEF ChainOK
<1>5. /\ new \in ChainRecords /\ new.pc = "create" /\ new.data = Outcome.data
      /\ new.op = chains[ch].op /\ new.id = chains[ch].id
  BY <1>1, <1>3 DEF ChainRecords, ChainPCs
<1>6. /\ chains' = [chains EXCEPT ![ch] = new]
      /\ UNCHANGED <<pdb, idCache, objs, held, answer, calls, during>>
  BY DEF Loaded
<1>7. CacheOK' /\ idCache' \in [Ids -> Nat \cup {None}]
  BY <1>1, <1>6 DEF CacheOK, Instances
<1>8. ChainGoesOn(ch, new)
  <2> HIDE DEF new
  <2> QED
    BY <1>3, <1>4, <1>5, <1>6, <1>7 DEF ChainGoesOn
<1> HIDE DEF new
<1> QED
  BY <1>3, <1>5, <1>8, GoOn DEF Keeps

-----------------------------------------------------------------------------
(* A chain ends.                                                           *)

\* What a chain ends with, and what it leaves in the caches.
EndsWith(ch, ending, instance, heap) ==
  /\ chains[ch].pc \notin {"idle", "reference"}
  /\ Finish(ch, ending, instance, heap)
  /\ ending \in {"ok", "failed"}
  /\ heap \in Seq(Objects)
  /\ \A o \in Instances : o \in DOMAIN heap /\ heap[o] = objs[o]
  /\ \A o \in DOMAIN heap \ Instances : heap[o].id \in Parents /\ heap[o].ref = None
  /\ ending = "ok" => instance \in DOMAIN heap \cup {None}
  /\ ending = "ok" /\ chains[ch].op = "get" =>
       instance \in DOMAIN heap /\ heap[instance].id = chains[ch].id
  /\ UNCHANGED <<pdb, calls, during>>
  /\ LineMoves(ch)
  /\ idCache' \in [Ids -> Nat \cup {None}]
  /\ \A id \in Ids : idCache'[id] # None =>
       idCache'[id] \in DOMAIN heap /\ heap[idCache'[id]].id = id

\* The chains of the client after that: both are over, and the client holds an
\* instance or nothing.
LEMMA EndOfChains ==
  ASSUME TidyInv, NEW ch \in Chains, NEW ending, NEW instance, NEW heap,
         EndsWith(ch, ending, instance, heap)
  PROVE  /\ ch[1] \in Clients /\ ch \in {CallOf(ch[1]), RefOf(ch[1])}
         /\ CallOf(ch[1]) \in Chains /\ RefOf(ch[1]) \in Chains
         /\ chains' \in [Chains -> ChainRecords]
         /\ chains'[CallOf(ch[1])] = Idle /\ chains'[RefOf(ch[1])] = Idle
         /\ \A o \in Chains : o[1] # ch[1] => chains'[o] = chains[o]
         /\ held' \in [Clients -> Nat \cup {None}]
         /\ held'[ch[1]] \in DOMAIN heap \cup {None}
         /\ \A d \in Clients : d # ch[1] => held'[d] = held[d]
         /\ answer' \in [Clients -> {None, "ok", "failed"}]
<1> DEFINE c == ch[1]
<1>1. /\ c \in Clients /\ ch \in {CallOf(c), RefOf(c)}
      /\ CallOf(c) \in Chains /\ RefOf(c) \in Chains /\ CallOf(c) # RefOf(c)
      /\ CallOf(c)[1] = c /\ RefOf(c)[1] = c
  BY ChainsAre
<1>2. /\ ClientOK(c) /\ chains \in [Chains -> ChainRecords]
      /\ held \in [Clients -> Nat \cup {None}] /\ answer \in [Clients -> {None, "ok", "failed"}]
  BY <1>1 DEF TidyInv, AbsddbShapes
<1>3. Idle \in ChainRecords
  BY DEF Idle, ChainRecords, ChainPCs
<1>4. DOMAIN heap \subseteq Nat /\ heap \in Seq(Objects)
  BY LenProperties DEF EndsWith
<1>5. ending \in {"ok", "failed"} /\ (ending = "ok" => instance \in DOMAIN heap \cup {None})
  BY DEF EndsWith
<1> HIDE DEF c
<1>6. CASE ch = CallOf(c)
  <2>1. /\ held' = [held EXCEPT ![c] = IF ending = "ok" THEN instance ELSE @]
        /\ answer' = [answer EXCEPT ![c] = ending]
        /\ chains' = [chains EXCEPT ![CallOf(c)] = Idle]
    BY <1>6 DEF EndsWith, Finish, CallOf, c
  <2>2. chains[RefOf(c)] = Idle
    BY <1>2, <1>6 DEF EndsWith, ClientOK, ChainOK
  <2>3. held[c] \in DOMAIN heap \cup {None}
    BY <1>1, <1>2 DEF ClientOK, EndsWith
  <2>4. held'[c] \in DOMAIN heap \cup {None} /\ held' \in [Clients -> Nat \cup {None}]
    BY <1>1, <1>2, <1>4, <1>5, <2>1, <2>3
  <2>5. /\ chains' \in [Chains -> ChainRecords]
        /\ chains'[CallOf(c)] = Idle /\ chains'[RefOf(c)] = Idle
        /\ \A o \in Chains : o[1] # c => chains'[o] = chains[o]
    BY <1>1, <1>2, <1>3, <2>1, <2>2
  <2> QED
    BY <1>1, <1>2, <1>5, <2>1, <2>4, <2>5 DEF c
<1>7. CASE ch = RefOf(c)
  <2>1. ch # CallOf(c)
    BY <1>1, <1>7
  <2>2. /\ held' = [held EXCEPT ![c] = chains[CallOf(c)].obj]
        /\ answer' = [answer EXCEPT ![c] = "ok"]
        /\ chains' = [chains EXCEPT ![RefOf(c)] = Idle, ![CallOf(c)] = Idle]
    BY <1>7, <2>1 DEF EndsWith, Finish, CallOf, c
  <2>3. chains[CallOf(c)].obj \in Instances
    BY <1>1, <1>2, <1>7 DEF ClientOK, ChainOK, EndsWith
  <2>4. held'[c] \in DOMAIN heap /\ held' \in [Clients -> Nat \cup {None}]
    BY <1>1, <1>2, <1>4, <2>2, <2>3 DEF EndsWith
  <2>5. /\ chains' \in [Chains -> ChainRecords]
        /\ chains'[CallOf(c)] = Idle /\ chains'[RefOf(c)] = Idle
        /\ \A o \in Chains : o[1] # c => chains'[o] = chains[o]
    BY <1>1, <1>2, <1>3, <2>2
  <2> QED
    BY <1>1, <1>2, <2>2, <2>4, <2>5 DEF c
<1> QED
  BY <1>1, <1>6, <1>7

\* The instances after that: the one the client was loading has its reference.
LEMMA EndOfInstances ==
  ASSUME TidyInv, NEW ch \in Chains, NEW ending, NEW instance, NEW heap,
         EndsWith(ch, ending, instance, heap)
  PROVE  /\ objs' \in Seq(Objects) /\ Instances' = DOMAIN heap /\ Instances \subseteq Instances'
         /\ \A o \in Instances' : objs'[o].id = heap[o].id
         /\ \A o \in Instances' : \/ objs'[o].ref = heap[o].ref
                                  \/ ch = RefOf(ch[1]) /\ o = chains[CallOf(ch[1])].obj
         /\ ch = RefOf(ch[1]) =>
              /\ chains[CallOf(ch[1])].obj \in Instances
              /\ chains[CallOf(ch[1])].pc = "reference"
              /\ objs[chains[CallOf(ch[1])].obj].ref = None
              /\ chains[ch].id \in Parents
              /\ objs'[chains[CallOf(ch[1])].obj].ref = IF ending = "ok" THEN instance ELSE Failure
              /\ ending = "ok" => instance \in Instances' /\ objs'[instance].id = chains[ch].id
<1> DEFINE c == ch[1]
           mine == chains[CallOf(c)].obj
<1>1. /\ c \in Clients /\ ch \in {CallOf(c), RefOf(c)} /\ CallOf(c) # RefOf(c) /\ ClientOK(c)
  BY ChainsAre DEF TidyInv
<1>2. /\ heap \in Seq(Objects) /\ DOMAIN heap \subseteq Nat
      /\ \A o \in Instances : o \in DOMAIN heap /\ heap[o] = objs[o]
      /\ ending \in {"ok", "failed"} /\ chains[ch].pc \notin {"idle", "reference"}
      /\ ending = "ok" /\ chains[ch].op = "get" =>
           instance \in DOMAIN heap /\ heap[instance].id = chains[ch].id
  BY LenProperties DEF EndsWith
<1>3. CASE ch = CallOf(c)
  <2>1. objs' = heap
    BY <1>3 DEF EndsWith, Finish, CallOf
  <2> QED
    BY <1>1, <1>2, <1>3, <2>1 DEF Instances
<1>4. CASE ch = RefOf(c)
  <2>1. ch # CallOf(c)
    BY <1>1, <1>4
  <2>2. objs' = [heap EXCEPT ![mine].ref = IF ending = "ok" THEN instance ELSE Failure]
    BY <1>4, <2>1 DEF EndsWith, Finish, CallOf
  <2>3. /\ chains[CallOf(c)].pc = "reference" /\ mine \in Instances /\ objs[mine].ref = None
        /\ chains[ch].op = "get" /\ chains[ch].id \in Parents
    BY <1>1, <1>2, <1>4 DEF ClientOK, ChainOK
  <2> HIDE DEF mine
  <2>4. DOMAIN objs' = DOMAIN heap /\ mine \in DOMAIN heap
    BY <1>2, <2>2, <2>3
  <2>5. ending = "ok" => instance \in DOMAIN heap /\ heap[instance].id = chains[ch].id
    BY <1>2, <2>3
  <2>6. /\ heap[mine] \in Objects
        /\ \A o \in DOMAIN heap : heap[o] \in Objects
    BY <1>2, <2>4, ElementsAre
  <2>7. (IF ending = "ok" THEN instance ELSE Failure) \in Nat \cup {None, Failure}
    BY <1>2, <2>5
  <2>8. /\ objs'[mine] = [heap[mine] EXCEPT !.ref = IF ending = "ok" THEN instance ELSE Failure]
        /\ \A o \in DOMAIN heap : o # mine => objs'[o] = heap[o]
    BY <2>2, <2>4
  <2>9. /\ objs'[mine] \in Objects /\ objs'[mine].id = heap[mine].id
        /\ objs'[mine].ref = IF ending = "ok" THEN instance ELSE Failure
    BY <2>6, <2>7, <2>8 DEF Objects
  <2>10. objs' \in Seq(Objects)
    <3>1. DOMAIN heap = 1..Len(heap) /\ Len(heap) \in Nat
      BY <1>2, LenProperties
    <3>2. objs' = [i \in 1..Len(heap) |-> objs'[i]]
      BY <2>2, <3>1
    <3>3. \A i \in 1..Len(heap) : objs'[i] \in Objects
      BY <2>6, <2>8, <2>9, <3>1
    <3> HIDE DEF mine
    <3>4. [i \in 1..Len(heap) |-> objs'[i]] \in Seq(Objects)
      BY <3>1, <3>3, IsASeq
    <3> QED
      BY <3>2, <3>4
  <2>11. \A o \in DOMAIN heap : objs'[o].id = heap[o].id /\ (o # mine => objs'[o].ref = heap[o].ref)
    BY <2>8, <2>9
  <2> QED
    BY <1>1, <1>2, <1>4, <2>3, <2>4, <2>5, <2>9, <2>10, <2>11 DEF Instances, mine
<1> QED
  BY <1>1, <1>3, <1>4

LEMMA EndKeeps ==
  ASSUME TidyInv, NEW ch \in Chains, NEW ending, NEW instance, NEW heap,
         EndsWith(ch, ending, instance, heap)
  PROVE  Keeps
<1> DEFINE c == ch[1]
           mine == chains[CallOf(c)].obj
<1>1. /\ c \in Clients /\ ch \in {CallOf(c), RefOf(c)} /\ CallOf(c) # RefOf(c)
      /\ CallOf(c) \in Chains /\ RefOf(c) \in Chains
      /\ chains' \in [Chains -> ChainRecords]
      /\ chains'[CallOf(c)] = Idle /\ chains'[RefOf(c)] = Idle
      /\ \A o \in Chains : o[1] # c => chains'[o] = chains[o]
      /\ held' \in [Clients -> Nat \cup {None}]
      /\ held'[c] \in DOMAIN heap \cup {None}
      /\ \A d \in Clients : d # c => held'[d] = held[d]
      /\ answer' \in [Clients -> {None, "ok", "failed"}]
  BY EndOfChains, ChainsAre
<1>2. /\ objs' \in Seq(Objects) /\ Instances' = DOMAIN heap /\ Instances \subseteq Instances'
      /\ \A o \in Instances' : objs'[o].id = heap[o].id
      /\ \A o \in Instances' : objs'[o].ref = heap[o].ref \/ (ch = RefOf(c) /\ o = mine)
      /\ ch = RefOf(c) =>
           /\ mine \in Instances /\ chains[CallOf(c)].pc = "reference" /\ objs[mine].ref = None
           /\ chains[ch].id \in Parents
           /\ objs'[mine].ref = IF ending = "ok" THEN instance ELSE Failure
           /\ ending = "ok" => instance \in Instances' /\ objs'[instance].id = chains[ch].id
  BY EndOfInstances
<1>3. /\ chains[ch].pc \notin {"idle", "reference"}
      /\ \A o \in Instances : o \in DOMAIN heap /\ heap[o] = objs[o]
      /\ \A o \in DOMAIN heap \ Instances : heap[o].id \in Parents /\ heap[o].ref = None
      /\ UNCHANGED <<pdb, calls, during>> /\ LineMoves(ch)
      /\ idCache' \in [Ids -> Nat \cup {None}]
      /\ \A id \in Ids : idCache'[id] # None =>
           idCache'[id] \in DOMAIN heap /\ heap[idCache'[id]].id = id
  BY DEF EndsWith
<1>4. /\ ClientOK(c) /\ AbsddbShapes /\ Instances' \subseteq Nat
  BY <1>1, <1>2, LenProperties DEF TidyInv, Instances
<1> HIDE DEF c, mine
<1>5. Moves(c)
  <2>1. /\ OneCallEach' /\ Under' \subseteq Under
        /\ Waits' \subseteq Waits \cup {CallOf(c), RefOf(c)}
        /\ \A p \in Under' : p.call[1] # c
        /\ \A o \in Waits' : o[1] = c => chains'[o].pc \in Asking
    BY <1>3, LineAlone DEF c
  <2>2. \A d \in Clients \ {c} : /\ chains'[CallOf(d)] = chains[CallOf(d)]
                                 /\ chains'[RefOf(d)] = chains[RefOf(d)]
                                 /\ held'[d] = held[d]
    BY <1>1, ChainsAre
  <2>3. \A o \in Instances : o \in Instances' /\ objs'[o].id = objs[o].id
    BY <1>2, <1>3
  <2>4. ASSUME NEW o \in Instances, objs'[o].ref # objs[o].ref
        PROVE  objs[o].ref = None /\ chains[CallOf(c)].pc = "reference" /\ mine = o
    BY <1>2, <1>3, <2>4
  <2> QED
    BY <1>3, <2>1, <2>2, <2>3, <2>4 DEF Moves, mine
<1>6. ChainOK(CallOf(c))' /\ ChainOK(RefOf(c))'
  BY <1>1 DEF ChainOK, Idle
<1>7. ClientOK(c)'
  BY <1>1, <1>2, <1>6 DEF ClientOK, Idle
<1>8. CacheOK'
  BY <1>2, <1>3 DEF CacheOK
<1>9. ASSUME chains[CallOf(c)].pc = "reference"
      PROVE  \/ objs'[mine].ref = Failure
             \/ /\ objs'[mine].ref \in Instances' \ {None}
                /\ objs'[objs'[mine].ref].id \in Parents
  <2>1. ch = RefOf(c)
    BY <1>1, <1>3, <1>9
  <2>2. CASE ending = "ok"
    BY <1>2, <1>4, <2>1, <2>2, StorageAssumption
  <2>3. CASE ending # "ok"
    BY <1>2, <2>1, <2>3
  <2> QED
    BY <2>2, <2>3
<1>10. \A o \in Instances' \ Instances : objs'[o].ref = None /\ objs'[o].id \in Parents
  BY <1>2, <1>3
<1>11. \A o \in Instances' \ Instances : ObjOK(o)'
  BY <1>10, StorageAssumption DEF ObjOK
<1>12. \A id \in Ids, o \in {CallOf(c), RefOf(c)} : chains'[o].id # id
  BY <1>1, StorageAssumption DEF Idle, Ids
<1>13. Goes(c)
  <2>1. chains'[CallOf(c)].pc = "idle"
    BY <1>1 DEF Idle
  <2> QED
    BY <1>7, <1>8, <1>9, <1>11, <1>12, <2>1 DEF Goes, mine
<1>14. AbsddbShapes'
  BY <1>1, <1>2, <1>3, <1>4 DEF AbsddbShapes, LineMoves
<1>15. TidyInv'
  BY <1>1, <1>5, <1>13, <1>14, ClientStep
<1>16. ASSUME NEW R, RefsOK(R) PROVE RefsOK(R)'
  <2>1. ClientRefs(c, R)'
    BY <1>1 DEF ClientRefs, Idle
  <2>2. \A o \in Instances' \ Instances : ObjRef(o, R)'
    BY <1>10 DEF ObjRef
  <2>3. ASSUME NEW o \in Instances, objs'[o].ref # objs[o].ref PROVE ObjRef(o, R)'
    <3>1. ch = RefOf(c) /\ o = mine
      BY <1>2, <1>3, <2>3
    <3>2. chains[ch].id = R[chains[CallOf(c)].id]
      BY <1>1, <1>2, <1>16, <3>1 DEF RefsOK, ClientRefs
    <3>3. objs'[mine].id = chains[CallOf(c)].id
      BY <1>2, <1>3, <1>4, <3>1 DEF ClientOK, ChainOK, mine
    <3>4. objs'[mine].ref # Failure => objs'[objs'[mine].ref].id = chains[ch].id
      BY <1>2, <3>1
    <3> QED
      BY <3>1, <3>2, <3>3, <3>4 DEF ObjRef
  <2>4. LineTypes'
    BY <1>14 DEF AbsddbShapes
  <2> QED
    BY <1>1, <1>5, <1>16, <2>1, <2>2, <2>3, <2>4, RefsStep
<1> QED
  BY <1>15, <1>16 DEF Keeps

\* An answer that ends a chain and makes no instance.
LEMMA AnswerEnds ==
  ASSUME TidyInv, NEW ch \in Chains, NEW state, NEW ending, NEW instance,
         Answered(ch, state), Finish(ch, ending, instance, objs),
         ending \in {"ok", "failed"}, ending = "ok" => instance \in Instances \cup {None},
         ending = "ok" /\ chains[ch].op = "get" =>
           instance \in Instances /\ objs[instance].id = chains[ch].id,
         UNCHANGED <<pdb, idCache, calls, during>>
  PROVE  EndsWith(ch, ending, instance, objs)
<1>1. LineMoves(ch) /\ chains[ch].pc \in Asking
  BY Delivered
<1>2. objs \in Seq(Objects) /\ CacheOK /\ idCache \in [Ids -> Nat \cup {None}]
  BY DEF TidyInv, AbsddbShapes
<1> QED
  BY <1>1, <1>2 DEF EndsWith, Asking, CacheOK, Instances

LEMMA NotExistsEnds ==
  ASSUME TidyInv, NEW ch \in Chains, NotExists(ch)
  PROVE  EndsWith(ch, "failed", None, objs)
BY AnswerEnds DEF NotExists

LEMMA CacheHitEnds ==
  ASSUME TidyInv, NEW ch \in Chains, CacheHit(ch)
  PROVE  EndsWith(ch, "ok", idCache[chains[ch].id], objs)
<1>1. Answered(ch, "exists") /\ idCache[chains[ch].id] # None
  BY DEF CacheHit
<1>2. chains[ch].id \in Ids
  BY <1>1, Delivered
<1>3. idCache[chains[ch].id] \in Instances /\ objs[idCache[chains[ch].id]].id = chains[ch].id
  BY <1>1, <1>2 DEF TidyInv, CacheOK
<1> QED
  BY <1>1, <1>3, AnswerEnds DEF CacheHit

LEMMA NoRecordEnds ==
  ASSUME TidyInv, NEW ch \in Chains, Loaded(ch), Outcome.data = None
  PROVE  EndsWith(ch, "failed", None, objs)
BY AnswerEnds DEF Loaded

LEMMA RemovedEnds ==
  ASSUME TidyInv, NEW ch \in Chains, Removed(ch)
  PROVE  EndsWith(ch, IF Outcome.ok THEN "ok" ELSE "failed", held[ch[1]], objs)
<1>1. Answered(ch, "delete")
  BY DEF Removed
<1>2. chains[ch].pc = "delete"
  BY <1>1, Delivered
<1>3. held[ch[1]] \in Instances \cup {None}
  BY ChainsAre DEF TidyInv, ClientOK
<1>4. chains[ch].op = "remove"
  BY <1>2, ChainAtWork DEF ChainOK
<1> DEFINE e == IF Outcome.ok THEN "ok" ELSE "failed"
<1>5. e \in {"ok", "failed"} /\ Finish(ch, e, held[ch[1]], objs)
  BY DEF Removed
<1> HIDE DEF e
<1>6. EndsWith(ch, e, held[ch[1]], objs)
  BY <1>1, <1>3, <1>4, <1>5, AnswerEnds DEF Removed
<1> QED
  BY <1>6 DEF e

LEMMA PutDoneEnds ==
  ASSUME TidyInv, NEW ch \in Chains, PutDone(ch)
  PROVE  EndsWith(ch, "ok", chains[ch].obj, objs)
<1>1. Answered(ch, "put")
  BY DEF PutDone
<1>2. chains[ch].pc = "put"
  BY <1>1, Delivered
<1>3. chains[ch].obj \in Instances /\ objs[chains[ch].obj].id = chains[ch].id
  BY <1>2, ChainAtWork DEF ChainOK
<1> QED
  BY <1>1, <1>3, AnswerEnds DEF PutDone

\* The instance made for a record has no reference to load.
LEMMA AddedEnds ==
  ASSUME TidyInv, NEW ch \in Chains, AddToCache(ch), chains[ch].data.ref = None
  PROVE  /\ chains[ch].op = "get" /\ during[ch].there
         /\ EndsWith(ch, "ok", Len(objs) + 1,
                     Append(objs, [id |-> chains[ch].id, val |-> chains[ch].data.val, ref |-> None]))
<1> DEFINE obj  == [id |-> chains[ch].id, val |-> chains[ch].data.val, ref |-> None]
           heap == Append(objs, obj)
           new  == Len(objs) + 1
<1>1. /\ chains[ch].pc = "create" /\ Finish(ch, "ok", new, heap)
      /\ idCache' = [idCache EXCEPT ![chains[ch].id] = new]
      /\ UNCHANGED <<pdb, waiting, replies, calls, during>>
  BY DEF AddToCache
<1>2. /\ chains[ch].data \in RecordsOf(chains[ch].id) /\ chains[ch].id \in Ids
      /\ chains[ch].op = "get" /\ during[ch].there
      /\ CacheOK /\ idCache \in [Ids -> Nat \cup {None}]
  BY <1>1, ChainAtWork DEF ChainOK
<1>3. chains[ch].id \in Parents
  BY <1>2, StorageAssumption DEF RecordsOf, Ids
<1>4. obj \in Objects /\ obj.id = chains[ch].id /\ obj.ref = None
  BY <1>2 DEF RecordsOf, Records, Objects
<1>5. objs \in Seq(Objects)
  BY DEF TidyInv, AbsddbShapes
<1> HIDE DEF obj
<1>6. /\ heap \in Seq(Objects) /\ DOMAIN heap = 1..new /\ heap[new] = obj /\ Len(objs) \in Nat
      /\ DOMAIN objs = 1..Len(objs)
      /\ \A o \in 1..Len(objs) : heap[o] = objs[o]
  BY <1>4, <1>5, AppendProperties, LenProperties
<1> HIDE DEF heap
<1>7. DOMAIN heap \ Instances = {new} /\ Instances \subseteq DOMAIN heap /\ new \in DOMAIN heap
  BY <1>6 DEF Instances
<1>8. LineMoves(ch)
  <2>1. LineTypes /\ LineOK
    BY DEF TidyInv, AbsddbShapes
  <2>2. ch \notin Waits /\ \A p \in Under : p.call # ch
    BY <1>1, <2>1 DEF LineOK, Callers, Asking
  <2>3. Waits' = Waits /\ Under' = Under /\ LineTypes'
    BY <1>1, <2>1 DEF Waits, Under, LineTypes
  <2> QED
    BY <1>1, <2>1, <2>2, <2>3 DEF LineMoves, LineOK, OneCallEach
<1>9. \A id \in Ids : idCache'[id] # None =>
        idCache'[id] \in DOMAIN heap /\ heap[idCache'[id]].id = id
  BY <1>1, <1>2, <1>4, <1>6, <1>7 DEF CacheOK, Instances
<1>10. idCache' \in [Ids -> Nat \cup {None}]
  BY <1>1, <1>2, <1>6
<1>11. EndsWith(ch, "ok", new, heap)
  BY <1>1, <1>3, <1>4, <1>6, <1>7, <1>8, <1>9, <1>10 DEF EndsWith, Instances
<1> QED
  BY <1>2, <1>11 DEF heap, obj

\* The instance made for a record has a reference: the get of it begins.
LEMMA ReferenceKeeps ==
  ASSUME TidyInv, NEW ch \in Chains, AddToCache(ch), chains[ch].data.ref # None
  PROVE  Keeps
<1> DEFINE c    == ch[1]
           id   == chains[ch].id
           data == chains[ch].data
           obj  == [id |-> id, val |-> data.val, ref |-> None]
           new  == Len(objs) + 1
           call == [chains[ch] EXCEPT !.pc = "reference", !.obj = new, !.data = None]
           ref  == [Idle EXCEPT !.pc = "begun", !.op = "get", !.id = data.ref]
           met  == [there |-> pdb[data.ref] # None, absent |-> pdb[data.ref] = None]
<1>1. chains[ch].pc = "create"
  BY DEF AddToCache
<1>2. /\ data \in RecordsOf(id) /\ id \in Ids /\ chains[ch].op = "get"
      /\ during[ch].there /\ CacheOK /\ idCache \in [Ids -> Nat \cup {None}]
      /\ chains[ch] \in ChainRecords
  BY <1>1, ChainAtWork DEF ChainOK
<1>3. /\ c \in Clients /\ ch \in {CallOf(c), RefOf(c)} /\ CallOf(c) # RefOf(c) /\ ClientOK(c)
      /\ CallOf(c) \in Chains /\ RefOf(c) \in Chains
  BY ChainsAre DEF TidyInv
<1>4. id \in Children /\ data.ref \in Parents
  BY <1>2 DEF RecordsOf
<1>5. ch = CallOf(c)
  BY <1>1, <1>3, <1>4, StorageAssumption DEF ClientOK
<1>6. /\ idCache' = [idCache EXCEPT ![id] = new]
      /\ objs' = Append(objs, obj)
      /\ chains' = [chains EXCEPT ![CallOf(c)] = call, ![RefOf(c)] = ref]
      /\ during' = [during EXCEPT ![RefOf(c)] = met]
      /\ UNCHANGED <<pdb, waiting, replies, held, answer, calls>>
  <2>1. /\ idCache' = [idCache EXCEPT ![id] = new]
        /\ objs' = Append(objs, obj)
        /\ chains' = [chains EXCEPT ![ch].pc = "reference", ![ch].obj = new, ![ch].data = None,
                                    ![RefOf(c)] = ref]
        /\ during' = [during EXCEPT ![RefOf(c)] = met]
        /\ UNCHANGED <<pdb, waiting, replies, held, answer, calls>>
    BY DEF AddToCache, RefOf
  <2>2. chains' = [chains EXCEPT ![CallOf(c)] = call, ![RefOf(c)] = ref]
    BY <1>3, <1>5, <2>1
  <2> QED
    BY <2>1, <2>2
<1>7. obj \in Objects /\ obj.id = id /\ obj.ref = None
  BY <1>2 DEF RecordsOf, Records, Objects
<1>8. /\ AbsddbShapes /\ objs \in Seq(Objects) /\ chains \in [Chains -> ChainRecords]
      /\ during \in [Chains -> [there : BOOLEAN, absent : BOOLEAN]]
  BY DEF TidyInv, AbsddbShapes
<1> HIDE DEF obj
<1>9. /\ objs' \in Seq(Objects) /\ DOMAIN objs' = 1..new /\ objs'[new] = obj
      /\ DOMAIN objs = 1..Len(objs) /\ Len(objs) \in Nat
      /\ \A o \in 1..Len(objs) : objs'[o] = objs[o]
  BY <1>6, <1>7, <1>8, AppendProperties, LenProperties
<1>10. /\ new \in Instances' /\ new \notin Instances /\ Instances' = Instances \cup {new}
       /\ \A o \in Instances : objs'[o] = objs[o]
       /\ new \in Nat
  BY <1>9 DEF Instances
<1>11. /\ call \in ChainRecords /\ call.pc = "reference" /\ call.obj = new
       /\ call.op = "get" /\ call.id = id
  BY <1>2, <1>10 DEF ChainRecords, ChainPCs
<1>12. /\ ref \in ChainRecords /\ ref.pc = "begun" /\ ref.op = "get" /\ ref.id = data.ref
  BY <1>4 DEF ChainRecords, ChainPCs, Idle, Ids
<1>13. met \in [there : BOOLEAN, absent : BOOLEAN]
  OBVIOUS
<1> HIDE DEF call, ref, met, c, id, data, new
<1>14. /\ chains' \in [Chains -> ChainRecords]
       /\ chains'[CallOf(c)] = call /\ chains'[RefOf(c)] = ref
       /\ \A o \in Chains : o[1] # c => chains'[o] = chains[o]
  BY <1>3, <1>6, <1>8, <1>11, <1>12, ChainsAre
<1>15. /\ during' \in [Chains -> [there : BOOLEAN, absent : BOOLEAN]]
       /\ \A o \in Chains : o # RefOf(c) => during'[o] = during[o]
  BY <1>3, <1>6, <1>8, <1>13
<1>16. \A o \in {CallOf(c), RefOf(c)} : o \notin Waits /\ o \notin Callers(Under)
  <2>1. ch \notin Waits /\ ch \notin Callers(Under)
    BY <1>1 DEF TidyInv, LineOK, Asking
  <2>2. RefOf(c)[1] = ch[1]
    BY <1>3, ChainsAre DEF c
  <2> QED
    BY <1>1, <1>3, <1>5, <2>1, <2>2, Alone
<1>17. Moves(c)
  <2>1. Waits' = Waits /\ Under' = Under /\ OneCallEach'
    BY <1>6 DEF Waits, Under, OneCallEach, TidyInv, LineOK, Callers
  <2>2. \A d \in Clients \ {c} : /\ chains'[CallOf(d)] = chains[CallOf(d)]
                                 /\ chains'[RefOf(d)] = chains[RefOf(d)]
                                 /\ held'[d] = held[d]
    BY <1>6, <1>14, ChainsAre
  <2>3. (\A p \in Under : p.call \in Chains) /\ Waits \subseteq Chains
    BY <1>8, RepliesAre DEF AbsddbShapes
  <2>4. ASSUME NEW p \in Under', p.call[1] = c PROVE FALSE
    <3>1. p.call \in {CallOf(c), RefOf(c)} /\ p.call \in Callers(Under)
      BY <2>1, <2>3, <2>4, ChainsAre DEF Callers
    <3> QED
      BY <1>16, <3>1
  <2>5. ASSUME NEW o \in Waits', o[1] = c PROVE FALSE
    <3>1. o \in {CallOf(c), RefOf(c)} /\ o \in Waits
      BY <2>1, <2>3, <2>5, ChainsAre
    <3> QED
      BY <1>16, <3>1
  <2>6. \A o \in Chains : o[1] # c => during'[o] = during[o]
    BY <1>3, <1>15, ChainsAre
  <2> QED
    BY <1>6, <1>10, <2>1, <2>2, <2>4, <2>5, <2>6 DEF Moves
<1>18. ClientOK(c)'
  <2>1. ChainOK(CallOf(c))'
    <3>1. during'[CallOf(c)].there
      BY <1>2, <1>3, <1>5, <1>15
    <3> QED
      BY <1>2, <1>7, <1>9, <1>10, <1>11, <1>14, <3>1 DEF ChainOK
  <2>2. ChainOK(RefOf(c))'
    BY <1>4, <1>12, <1>14 DEF ChainOK, Ids
  <2>3. held'[c] \in Instances' \cup {None}
    BY <1>3, <1>6, <1>10 DEF ClientOK
  <2> QED
    BY <1>4, <1>7, <1>9, <1>11, <1>12, <1>14, <2>1, <2>2, <2>3 DEF ClientOK
<1>19. CacheOK'
  <2> SUFFICES ASSUME NEW i \in Ids, idCache'[i] # None
               PROVE  idCache'[i] \in Instances' /\ objs'[idCache'[i]].id = i
    BY DEF CacheOK
  <2>1. CASE i = id
    BY <1>2, <1>6, <1>7, <1>9, <1>10, <2>1
  <2>2. CASE i # id
    <3>1. idCache'[i] = idCache[i]
      BY <1>2, <1>6, <2>2
    <3> QED
      BY <1>2, <1>10, <3>1 DEF CacheOK
  <2> QED
    BY <2>1, <2>2
<1>20. ASSUME NEW o \in Instances' \ Instances PROVE ObjOK(o)'
  <2>0. o = new
    BY <1>10
  <2>1. chains'[CallOf(c)].pc = "reference" /\ chains'[CallOf(c)].obj = o
    BY <1>11, <1>14, <2>0
  <2>2. objs'[o].ref = None
    BY <1>7, <1>9, <2>0
  <2> QED
    BY <1>3, <2>1, <2>2 DEF ObjOK
<1>21. \A i \in Ids : Fresh(i)' =>
         \A o \in {CallOf(c), RefOf(c)} : chains'[o].id = i => chains'[o].pc \in {"begun", "exists"}
  BY <1>7, <1>9, <1>10, <1>11, <1>12, <1>14 DEF Fresh
<1>22. Goes(c)
  <2>1. chains[CallOf(c)].pc # "reference"
    BY <1>1, <1>5
  <2>2. chains'[CallOf(c)].obj \notin Instances
    BY <1>10, <1>11, <1>14
  <2> QED
    BY <1>18, <1>19, <1>20, <1>21, <2>1, <2>2 DEF Goes
<1>23. AbsddbShapes'
  <2>1. idCache' \in [Ids -> Nat \cup {None}]
    BY <1>2, <1>6, <1>10
  <2> QED
    BY <1>6, <1>8, <1>9, <1>14, <1>15, <2>1 DEF AbsddbShapes, LineTypes
<1>24. TidyInv'
  BY <1>3, <1>17, <1>22, <1>23, ClientStep
<1>25. ASSUME NEW R, RefsOK(R) PROVE RefsOK(R)'
  <2>1. data.ref = R[id]
    BY <1>1, <1>3, <1>4, <1>5, <1>25 DEF RefsOK, ClientRefs, data, id
  <2>2. ClientRefs(c, R)'
    BY <1>11, <1>12, <1>14, <2>1 DEF ClientRefs
  <2>3. \A o \in Instances' \ Instances : ObjRef(o, R)'
    BY <1>7, <1>9, <1>10 DEF ObjRef
  <2>4. \A o \in Instances : objs'[o].ref = objs[o].ref
    BY <1>10
  <2>5. LineTypes'
    BY <1>23 DEF AbsddbShapes
  <2> QED
    BY <1>3, <1>17, <1>25, <2>2, <2>3, <2>4, <2>5, RefsStep
<1> QED
  BY <1>24, <1>25 DEF Keeps

-----------------------------------------------------------------------------
(* Steps of the clients.                                                   *)

\* A client that has no call under way has nothing in the pool.
LEMMA Quiet ==
  ASSUME TidyInv, NEW c \in Clients, Free(c)
  PROVE  /\ chains[CallOf(c)] = Idle /\ chains[RefOf(c)] = Idle
         /\ \A p \in Under : p.call \in Chains /\ p.call[1] # c
         /\ \A o \in Waits : o \in Chains /\ o[1] # c
<1>1. chains[CallOf(c)].pc = "idle"
  BY DEF Free, CallOf
<1>2. chains[CallOf(c)] = Idle /\ chains[RefOf(c)] = Idle
  BY <1>1 DEF TidyInv, ClientOK, ChainOK
<1>3. (\A p \in Under : p.call \in Chains) /\ Waits \subseteq Chains
  BY RepliesAre DEF TidyInv, AbsddbShapes
<1>4. \A o \in Chains : o[1] = c => chains[o].pc = "idle"
  BY <1>2, ChainsAre DEF Idle
<1>5. \A o \in Waits \cup Callers(Under) : chains[o].pc # "idle"
  BY DEF TidyInv, LineOK, Asking
<1> QED
  BY <1>2, <1>3, <1>4, <1>5 DEF Callers

\* The client's call begins.
Starts(c, new) ==
  /\ Free(c)
  /\ chains' = [chains EXCEPT ![CallOf(c)] = new]
  /\ new.pc \in {"begun", "put"}
  /\ new.pc = "put" => ~Fresh(new.id)
  /\ ChainOK(CallOf(c))'
  /\ UNCHANGED <<pdb, idCache, objs, answer, replies>>
  /\ LineTypes' /\ OneCallEach' /\ Waits' \subseteq Waits \cup {CallOf(c)}
  /\ CallOf(c) \in Waits' => new.pc \in Asking
  /\ calls' \in [Clients -> 0..MaxOps]
  /\ held' \in [Clients -> Nat \cup {None}] /\ held'[c] \in Instances \cup {None}
  /\ \A d \in Clients : d # c => held'[d] = held[d]
  /\ during' \in [Chains -> [there : BOOLEAN, absent : BOOLEAN]]
  /\ \A o \in Chains : o # CallOf(c) => during'[o] = during[o]

LEMMA StartKeeps ==
  ASSUME TidyInv, NEW c \in Clients, NEW new \in ChainRecords, Starts(c, new)
  PROVE  /\ TidyInv'
         /\ \A R : /\ RefsOK(R)
                   /\ new.pc = "put" /\ new.id \in Children => new.data.ref = R[new.id]
                   => RefsOK(R)'
<1>1. /\ CallOf(c) \in Chains /\ RefOf(c) \in Chains /\ CallOf(c) # RefOf(c)
      /\ CallOf(c)[1] = c /\ RefOf(c)[1] = c
      /\ AbsddbShapes /\ chains \in [Chains -> ChainRecords] /\ CacheOK /\ ClientOK(c)
  BY ChainsAre DEF TidyInv, AbsddbShapes
<1>2. /\ chains[CallOf(c)] = Idle /\ chains[RefOf(c)] = Idle
      /\ \A p \in Under : p.call[1] # c
      /\ \A o \in Waits : o \in Chains /\ o[1] # c
  BY Quiet DEF Starts
<1>3. /\ chains' \in [Chains -> ChainRecords] /\ chains'[CallOf(c)] = new
      /\ chains'[RefOf(c)] = Idle /\ \A o \in Chains : o[1] # c => chains'[o] = chains[o]
  BY <1>1, <1>2 DEF Starts
<1>4. UNCHANGED <<pdb, idCache, objs>> /\ Instances' = Instances /\ Under' = Under
  BY DEF Starts, Instances, Under
<1>5. Moves(c)
  <2>1. \A d \in Clients \ {c} : /\ chains'[CallOf(d)] = chains[CallOf(d)]
                                 /\ chains'[RefOf(d)] = chains[RefOf(d)]
                                 /\ held'[d] = held[d]
    BY <1>3, ChainsAre DEF Starts
  <2>2. \A o \in Waits' : o[1] = c => chains'[o].pc \in Asking
    BY <1>2, <1>3 DEF Starts
  <2>3. \A o \in Chains : o[1] # c => during'[o] = during[o]
    BY <1>1 DEF Starts
  <2> QED
    BY <1>2, <1>4, <2>1, <2>2, <2>3 DEF Moves, Starts
<1>6. ClientOK(c)'
  <2>1. ChainOK(RefOf(c))'
    BY <1>3 DEF ChainOK, Idle
  <2> QED
    BY <1>3, <1>4, <2>1 DEF ClientOK, Starts, Idle
<1>7. CacheOK'
  BY <1>1, <1>4 DEF CacheOK
<1>8. \A id \in Ids : Fresh(id)' =>
         \A o \in {CallOf(c), RefOf(c)} : chains'[o].id = id => chains'[o].pc \in {"begun", "exists"}
  <2>1. \A id : Fresh(id)' => Fresh(id)
    BY <1>4 DEF Fresh
  <2>2. \A id \in Ids : chains'[RefOf(c)].id # id
    BY <1>3, StorageAssumption DEF Idle, Ids
  <2> QED
    BY <1>3, <2>1, <2>2 DEF Starts
<1>9. Goes(c)
  <2>1. chains'[CallOf(c)].pc # "reference" /\ chains[CallOf(c)].pc # "reference"
    BY <1>2, <1>3 DEF Starts, Idle
  <2> QED
    BY <1>4, <1>6, <1>7, <1>8, <2>1 DEF Goes
<1>10. AbsddbShapes'
  BY <1>1, <1>3 DEF AbsddbShapes, Starts
<1>11. TidyInv'
  BY <1>5, <1>9, <1>10, ClientStep
<1>12. ASSUME NEW R, RefsOK(R), new.pc = "put" /\ new.id \in Children => new.data.ref = R[new.id]
       PROVE  RefsOK(R)'
  <2>1. ClientRefs(c, R)'
    BY <1>3, <1>12 DEF ClientRefs, Starts
  <2>2. LineTypes'
    BY DEF Starts
  <2> QED
    BY <1>4, <1>5, <1>12, <2>1, <2>2, RefsStep
<1> QED
  BY <1>11, <1>12

LEMMA CallHandedOver ==
  ASSUME TidyInv, NEW c \in Clients, Free(c),
         waiting' = Append(waiting, CallOf(c)), replies' = replies
  PROVE  Executor!Accept(CallOf(c))
<1>1. /\ \A p \in Under : p.call[1] # c
      /\ \A w \in Waits : w[1] # c
  BY Quiet
<1> QED
  BY <1>1, ChainsAre
  DEF Executor!Accept, Executor!Outstanding, Executor!Executed, Executor!Range, Waits, Under, Range

LEMMA CallTypes ==
  ASSUME TidyInv, NEW c \in Clients, calls[c] < MaxOps, calls' = [calls EXCEPT ![c] = @ + 1]
  PROVE  calls' \in [Clients -> 0..MaxOps]
<1>1. calls \in [Clients -> 0..MaxOps] /\ MaxOps \in Nat
  BY StorageAssumption DEF TidyInv, AbsddbShapes
<1>2. calls[c] + 1 \in 0..MaxOps
  BY <1>1
<1> QED
  BY <1>1, <1>2

LEMMA BeginKeeps ==
  ASSUME TidyInv, NEW c \in Clients, NEW op \in {"get", "remove"}, NEW id \in Ids, Call(c, op, id),
         op = "remove" => \E o \in Instances : objs[o].id = id,
         held' \in [Clients -> Nat \cup {None}], held'[c] \in Instances \cup {None},
         \A d \in Clients : d # c => held'[d] = held[d],
         UNCHANGED <<pdb, idCache, objs, waiting, replies, answer>>
  PROVE  Keeps
<1> DEFINE new == [Idle EXCEPT !.pc = "begun", !.op = op, !.id = id]
           met == [there |-> pdb[id] # None, absent |-> pdb[id] = None]
<1>1. /\ Free(c) /\ calls[c] < MaxOps /\ calls' = [calls EXCEPT ![c] = @ + 1]
      /\ chains' = [chains EXCEPT ![CallOf(c)] = new]
      /\ during' = [during EXCEPT ![CallOf(c)] = met]
  BY DEF Call, Begin, CallOf
<1>2. new \in ChainRecords /\ new.pc = "begun" /\ new.op = op /\ new.id = id
  BY DEF Idle, ChainRecords, ChainPCs
<1>3. met \in [there : BOOLEAN, absent : BOOLEAN]
  OBVIOUS
<1> HIDE DEF new, met
<1>4. CallOf(c) \in Chains /\ chains \in [Chains -> ChainRecords] /\ LineTypes /\ OneCallEach
      /\ during \in [Chains -> [there : BOOLEAN, absent : BOOLEAN]]
  BY ChainsAre DEF TidyInv, AbsddbShapes, LineOK
<1>5. chains'[CallOf(c)] = new /\ Instances' = Instances
  BY <1>1, <1>4 DEF Instances
<1>6. ChainOK(CallOf(c))'
  BY <1>2, <1>5 DEF ChainOK
<1>7. /\ during' \in [Chains -> [there : BOOLEAN, absent : BOOLEAN]]
      /\ \A o \in Chains : o # CallOf(c) => during'[o] = during[o]
  BY <1>1, <1>3, <1>4
<1>8. Waits' = Waits /\ LineTypes' /\ OneCallEach'
  BY <1>4 DEF Waits, LineTypes, OneCallEach, Under, Callers
<1>9. CallOf(c) \notin Waits
  BY <1>1, Quiet, ChainsAre
<1>10. Starts(c, new)
  BY <1>1, <1>2, <1>6, <1>7, <1>8, <1>9, CallTypes DEF Starts
<1> QED
  BY <1>2, <1>10, StartKeeps DEF Keeps

LEMMA GetKeeps ==
  ASSUME TidyInv, NEW c \in Clients, NEW id \in Ids, Get(c, id)
  PROVE  Keeps
<1>1. held \in [Clients -> Nat \cup {None}]
  BY DEF TidyInv, AbsddbShapes
<1> QED
  BY <1>1, BeginKeeps DEF Get

LEMMA RemoveKeeps ==
  ASSUME TidyInv, NEW c \in Clients, Remove(c)
  PROVE  Keeps
<1>1. held \in [Clients -> Nat \cup {None}] /\ objs \in Seq(Objects) /\ held[c] \in Instances
  BY DEF TidyInv, AbsddbShapes, Remove
<1>2. objs[held[c]] \in Objects
  BY <1>1, ElementsAre DEF Instances
<1>3. objs[held[c]].id \in Ids
  BY <1>2 DEF Objects
<1> QED
  BY <1>1, <1>3, BeginKeeps DEF Remove

\* The invariant looks at no field of an instance but its identity and its
\* reference.
LEMMA SameStores ==
  ASSUME TidyInv, AbsddbShapes', UNCHANGED <<pdb, idCache, waiting, replies, chains, held, during>>,
         Instances' = Instances,
         \A o \in Instances : objs'[o].id = objs[o].id /\ objs'[o].ref = objs[o].ref
  PROVE  Keeps
<1>1. Waits' = Waits /\ Under' = Under /\ Callers(Under)' = Callers(Under)
  BY DEF Waits, Under, Callers
<1>2. ASSUME NEW o \in Instances, ObjOK(o) PROVE ObjOK(o)'
  BY <1>2 DEF ObjOK
<1>3. ASSUME NEW ch \in Chains, ChainOK(ch) PROVE ChainOK(ch)'
  BY <1>3 DEF ChainOK
<1>4. \A c \in Clients : ClientOK(c)'
  BY <1>3, ChainsAre DEF TidyInv, ClientOK, ChainOK
<1>5. LineOK'
  BY <1>1 DEF TidyInv, LineOK, OneCallEach, ReplyOK
<1>6. FreshOK'
  BY <1>1 DEF TidyInv, FreshOK, Fresh
<1>7. CacheOK' /\ Apart' /\ \A id \in Ids : pdb'[id] # None => pdb'[id] \in RecordsOf(id)
  BY DEF TidyInv, CacheOK, Apart
<1>8. TidyInv'
  BY <1>2, <1>4, <1>5, <1>6, <1>7 DEF TidyInv
<1>9. ASSUME NEW R, RefsOK(R) PROVE RefsOK(R)'
  <2>1. \A o \in Instances : ObjRef(o, R)'
    BY <1>9 DEF RefsOK, ObjRef, TidyInv, ObjOK
  <2> QED
    BY <1>1, <1>9, <2>1 DEF RefsOK, ClientRefs, ReplyRef
<1> QED
  BY <1>8, <1>9 DEF Keeps

\* An instance: what its fields are, and what put pickles of it.
LEMMA InstanceIs ==
  ASSUME TidyInv, NEW o \in Instances
  PROVE  objs[o] \in Objects /\ objs[o].id \in Ids /\ ObjOK(o) /\ ~Fresh(objs[o].id)
<1>1. objs \in Seq(Objects)
  BY DEF TidyInv, AbsddbShapes
<1>2. objs[o] \in Objects
  BY <1>1, ElementsAre DEF Instances
<1>3. objs[o].id \in Ids
  BY <1>2 DEF Objects
<1> QED
  BY <1>2, <1>3 DEF TidyInv, Fresh

LEMMA PutKeeps ==
  ASSUME TidyInv, NEW c \in Clients, Put(c)
  PROVE  Keeps
<1> DEFINE o    == objs[held[c]]
           fail == o.id \in Children /\ o.ref \in {None, Failure}
           data == [val |-> o.val, ref |-> IF o.id \in Children THEN objs[o.ref].id ELSE None]
           new  == [pc |-> "put", op |-> "put", id |-> o.id, obj |-> held[c], data |-> data]
<1>1. /\ held[c] \in Instances /\ Free(c) /\ calls[c] < MaxOps
      /\ calls' = [calls EXCEPT ![c] = @ + 1]
      /\ UNCHANGED <<pdb, idCache, objs, replies, held, during>>
  BY DEF Put
<1>2. o \in Objects /\ o.id \in Ids /\ ObjOK(held[c]) /\ ~Fresh(o.id)
  BY <1>1, InstanceIs
<1>3. calls' \in [Clients -> 0..MaxOps]
  BY <1>1, CallTypes
<1>4. /\ CallOf(c) \in Chains /\ chains \in [Chains -> ChainRecords] /\ LineTypes /\ OneCallEach
      /\ during \in [Chains -> [there : BOOLEAN, absent : BOOLEAN]]
      /\ held \in [Clients -> Nat \cup {None}] /\ AbsddbShapes
  BY ChainsAre DEF TidyInv, AbsddbShapes, LineOK
<1>5. CASE fail
  <2>1. answer' = [answer EXCEPT ![c] = "failed"] /\ UNCHANGED <<waiting, chains>>
    BY <1>5 DEF Put
  <2>2. AbsddbShapes'
    BY <1>1, <1>3, <1>4, <2>1 DEF AbsddbShapes, LineTypes
  <2>3. UNCHANGED <<pdb, idCache, objs, waiting, replies, chains, held, during>>
    BY <1>1, <2>1
  <2>4. /\ Instances' = Instances
        /\ \A i \in Instances : objs'[i].id = objs[i].id /\ objs'[i].ref = objs[i].ref
    BY <2>3 DEF Instances
  <2> QED
    BY <2>2, <2>3, <2>4, SameStores
<1>6. CASE ~fail
  <2>1. /\ waiting' = Append(waiting, CallOf(c)) /\ answer' = answer
        /\ chains' = [chains EXCEPT ![CallOf(c)] = new]
    BY <1>6 DEF Put, CallOf
  <2>2. data \in RecordsOf(o.id)
    <3>1. CASE o.id \in Children
      <4>1. o.ref \in Instances /\ objs[o.ref].id \in Parents
        BY <1>2, <1>6, <3>1 DEF ObjOK
      <4> QED
        BY <1>2, <3>1, <4>1 DEF RecordsOf, Records, Objects, Ids
    <3>2. CASE o.id \notin Children
      BY <1>2, <3>2 DEF RecordsOf, Records, Objects
    <3> QED
      BY <3>1, <3>2
  <2>3. /\ new.pc = "put" /\ new.op = "put" /\ new.id = o.id /\ new.obj = held[c]
        /\ new.data = data
    OBVIOUS
  <2>4. new \in ChainRecords
    BY <1>1, <1>2, <1>4, <2>2, LenProperties DEF ChainRecords, ChainPCs, RecordsOf, Instances
  <2>5. ASSUME NEW R, RefsOK(R), o.id \in Children PROVE data.ref = R[o.id]
    BY <1>1, <1>2, <1>6, <2>5 DEF RefsOK, ObjRef
  <2> HIDE DEF new, data
  <2>6. chains'[CallOf(c)] = new /\ Instances' = Instances
    BY <1>1, <1>4, <2>1 DEF Instances
  <2>7. ChainOK(CallOf(c))'
    BY <1>1, <1>2, <2>2, <2>3, <2>6 DEF ChainOK
  <2>8. Executor!Accept(CallOf(c))
    BY <1>1, <2>1, CallHandedOver
  <2>9. LineTypes' /\ OneCallEach' /\ Waits' = Waits \cup {CallOf(c)}
    BY <1>4, <2>8, AcceptLine
  <2>10. held[c] \in Instances \cup {None}
    BY <1>1
  <2>11. Starts(c, new)
    BY <1>1, <1>2, <1>3, <1>4, <2>1, <2>3, <2>7, <2>9, <2>10 DEF Starts, Asking
  <2> QED
    BY <2>3, <2>4, <2>5, <2>11, StartKeeps DEF Keeps
<1> QED
  BY <1>5, <1>6

\* The code above sets a field: no reference and no identity changes.
LEMMA ModifyKeeps ==
  ASSUME TidyInv, NEW c \in Clients, NEW v \in Vals, Modify(c, v)
  PROVE  Keeps
<1>1. /\ held[c] \in Instances /\ Free(c) /\ objs' = [objs EXCEPT ![held[c]].val = v]
      /\ UNCHANGED <<pdb, idCache, waiting, replies, chains, held, answer, calls, during>>
  BY DEF Modify
<1>2. objs[held[c]] \in Objects /\ objs \in Seq(Objects) /\ AbsddbShapes
  BY <1>1, InstanceIs DEF TidyInv, AbsddbShapes
<1>3. /\ Instances' = Instances
      /\ \A o \in Instances : objs'[o].id = objs[o].id /\ objs'[o].ref = objs[o].ref
  BY <1>1, <1>2 DEF Instances, Objects
<1>4. objs' \in Seq(Objects)
  <2>1. DOMAIN objs = 1..Len(objs) /\ Len(objs) \in Nat
    BY <1>2, LenProperties
  <2>2. \A i \in 1..Len(objs) : objs[i] \in Objects
    BY <1>2, <2>1, ElementsAre
  <2>3. [objs[held[c]] EXCEPT !.val = v] \in Objects
    BY <1>2 DEF Objects
  <2>4. \A i \in 1..Len(objs) : objs'[i] \in Objects
    BY <1>1, <2>1, <2>2, <2>3 DEF Instances
  <2>5. objs' = [i \in 1..Len(objs) |-> objs'[i]]
    BY <1>1, <2>1
  <2>6. [i \in 1..Len(objs) |-> objs'[i]] \in Seq(Objects)
    BY <2>1, <2>4, IsASeq
  <2> QED
    BY <2>5, <2>6
<1>5. AbsddbShapes'
  BY <1>1, <1>2, <1>4 DEF AbsddbShapes, LineTypes
<1> QED
  BY <1>1, <1>3, <1>5, SameStores DEF Keeps

\* An identity that nothing has seen yet: no chain works with it beyond asking
\* whether it exists, so its reference can be what is given to it now.
LEMMA CreateKeeps ==
  ASSUME TidyInv, NEW c \in Clients, NEW id \in Ids, NEW v \in Vals, Create(c, id, v)
  PROVE  /\ TidyInv'
         /\ \A R \in References : RefsOK(R) => \E S \in References : RefsOK(S)'
<1> DEFINE obj == [id |-> id, val |-> v, ref |-> IF id \in Children THEN held[c] ELSE None]
           new == Len(objs) + 1
<1>1. /\ Free(c) /\ Fresh(id)
      /\ id \in Children => held[c] \in Instances /\ objs[held[c]].id \in Parents
      /\ objs' = Append(objs, obj) /\ held' = [held EXCEPT ![c] = new]
      /\ UNCHANGED <<pdb, idCache, waiting, replies, chains, answer, calls, during>>
  BY DEF Create, Fresh
<1>2. /\ objs \in Seq(Objects) /\ AbsddbShapes /\ held \in [Clients -> Nat \cup {None}]
      /\ LineTypes /\ OneCallEach /\ ClientOK(c) /\ CacheOK
  BY DEF TidyInv, AbsddbShapes, LineOK
<1>3. /\ obj \in Objects /\ obj.id = id
      /\ obj.ref = IF id \in Children THEN held[c] ELSE None
  BY <1>2 DEF Objects
<1> HIDE DEF obj
<1>4. /\ objs' \in Seq(Objects) /\ DOMAIN objs' = 1..new /\ objs'[new] = obj
      /\ DOMAIN objs = 1..Len(objs) /\ Len(objs) \in Nat
      /\ \A o \in 1..Len(objs) : objs'[o] = objs[o]
  BY <1>1, <1>2, <1>3, AppendProperties, LenProperties
<1>5. /\ new \in Instances' /\ new \notin Instances /\ Instances' = Instances \cup {new}
      /\ \A o \in Instances : objs'[o] = objs[o]
      /\ new \in Nat /\ Instances \subseteq Nat
  BY <1>4 DEF Instances
<1> HIDE DEF new
<1>6. Waits' = Waits /\ Under' = Under
  BY <1>1 DEF Waits, Under
<1>7. \A o \in Waits \cup Callers(Under) : o \in Chains /\ o[1] # c
  BY <1>1, Quiet DEF Callers
<1>8. Moves(c)
  <2>1. OneCallEach'
    BY <1>1, <1>2, <1>6 DEF OneCallEach, Callers
  <2>2. \A d \in Clients \ {c} : held'[d] = held[d]
    BY <1>1, <1>2
  <2> QED
    BY <1>1, <1>5, <1>6, <1>7, <2>1, <2>2 DEF Moves, Callers
<1>9. chains[CallOf(c)] = Idle /\ chains[RefOf(c)] = Idle
  BY <1>1, Quiet
<1>10. ClientOK(c)'
  <2>1. ChainOK(CallOf(c))' /\ ChainOK(RefOf(c))'
    BY <1>1, <1>9 DEF ChainOK, Idle
  <2>2. held'[c] = new
    BY <1>1, <1>2
  <2> QED
    BY <1>1, <1>5, <1>9, <2>1, <2>2 DEF ClientOK, Idle
<1>11. CacheOK'
  BY <1>1, <1>2, <1>5 DEF CacheOK
<1>12. ASSUME NEW o \in Instances' \ Instances PROVE ObjOK(o)'
  <2>1. o = new /\ objs'[o] = obj
    BY <1>4, <1>5, <1>12
  <2>2. CASE id \in Children
    <3>1. /\ objs'[o].ref = held[c] /\ held[c] \in Instances /\ held[c] \in Instances'
          /\ objs'[o].id = id /\ objs'[held[c]].id \in Parents
      BY <1>1, <1>3, <1>5, <2>1, <2>2
    <3>2. held[c] # None
      BY <1>5, <3>1, StorageAssumption
    <3> QED
      BY <2>2, <3>1, <3>2 DEF ObjOK
  <2>3. CASE id \notin Children
    BY <1>3, <2>1, <2>3 DEF ObjOK
  <2> QED
    BY <2>2, <2>3
<1>13. Goes(c)
  <2>1. \A i \in Ids, o \in {CallOf(c), RefOf(c)} : chains'[o].id # i
    BY <1>1, <1>9, StorageAssumption DEF Idle, Ids
  <2>2. chains[CallOf(c)].pc = "idle" /\ chains'[CallOf(c)].pc = "idle"
    BY <1>1, <1>9 DEF Idle
  <2> QED
    BY <1>10, <1>11, <1>12, <2>1, <2>2 DEF Goes
<1>14. AbsddbShapes'
  <2>1. held' \in [Clients -> Nat \cup {None}]
    BY <1>1, <1>2, <1>5
  <2> QED
    BY <1>1, <1>2, <1>4, <2>1 DEF AbsddbShapes, LineTypes
<1>15. TidyInv'
  BY <1>8, <1>13, <1>14, ClientStep
<1>16. ASSUME NEW R \in References, RefsOK(R)
       PROVE  \E S \in References : RefsOK(S)'
  <2>1. PICK S : S = [R EXCEPT ![id] = IF id \in Children THEN objs[held[c]].id ELSE @]
    OBVIOUS
  <2>2. /\ S \in References
        /\ \A i \in Children : i # id => S[i] = R[i]
        /\ id \in Children => S[id] = objs[held[c]].id
    BY <1>1, <1>16, <2>1 DEF References, Ids
  <2>3. RefsOK(S)
    <3>1. \A i \in Children : pdb[i] # None => pdb[i].ref = S[i]
      BY <1>1, <1>16, <2>2 DEF RefsOK, Fresh
    <3>2. ASSUME NEW d \in Clients PROVE ClientRefs(d, S)
      <4>1. ClientRefs(d, R) /\ ClientOK(d)
        BY <1>16 DEF RefsOK, TidyInv
      <4>2. chains[CallOf(d)].id = id => chains[CallOf(d)].pc \in {"begun", "exists"}
        BY <1>1, ChainsAre DEF TidyInv, FreshOK
      <4> QED
        BY <2>2, <4>1, <4>2 DEF ClientRefs, ClientOK
    <3>3. ASSUME NEW o \in Instances PROVE ObjRef(o, S)
      BY <1>1, <1>16, <2>2 DEF RefsOK, ObjRef, Fresh, TidyInv, ObjOK
    <3>4. ASSUME NEW p \in Under PROVE ReplyRef(p, S)
      <4>1. p.call \in Chains
        BY <1>2, RepliesAre
      <4>2. chains[p.call].id = id => chains[p.call].pc \in {"begun", "exists"}
        BY <1>1, <4>1 DEF TidyInv, FreshOK
      <4> QED
        BY <1>16, <2>2, <4>2 DEF RefsOK, ReplyRef
    <3> QED
      BY <3>1, <3>2, <3>3, <3>4 DEF RefsOK
  <2>4. ClientRefs(c, S)'
    BY <1>1, <1>9 DEF ClientRefs, Idle
  <2>5. ASSUME NEW o \in Instances' \ Instances PROVE ObjRef(o, S)'
    <3>1. objs'[o] = obj
      BY <1>4, <1>5, <2>5
    <3>2. id \in Children => objs'[held[c]] = objs[held[c]]
      BY <1>1, <1>5
    <3> QED
      BY <1>3, <2>2, <3>1, <3>2 DEF ObjRef
  <2>6. \A o \in Instances : objs'[o].ref = objs[o].ref
    BY <1>5
  <2>7. LineTypes'
    BY <1>14 DEF AbsddbShapes
  <2>8. RefsOK(S)'
    BY <1>8, <2>3, <2>4, <2>5, <2>6, <2>7, RefsStep
  <2> QED
    BY <2>2, <2>8
<1> QED
  BY <1>15, <1>16

-----------------------------------------------------------------------------
(* The pool's thread.                                                      *)

LEMMA ResultIsOutcome ==
  ASSUME TidyInv, waiting # <<>>
  PROVE  /\ Head(waiting) \in Chains /\ Head(waiting) \in Waits
         /\ ChainOK(Head(waiting)) /\ chains[Head(waiting)].pc \in Asking
         /\ chains[Head(waiting)].id \in Ids
         /\ pdb[chains[Head(waiting)].id] \in Records \cup {None}
         /\ Result(Head(waiting)) \in Outcomes
<1> DEFINE ch == Head(waiting)
<1>1. LineTypes /\ LineOK /\ pdb \in [Ids -> Records \cup {None}]
  BY DEF TidyInv, AbsddbShapes
<1>2. ch \in Chains /\ ch = waiting[1] /\ 1 \in DOMAIN waiting
  BY <1>1, TailOf DEF LineTypes
<1>3. ch \in Waits
  BY <1>2 DEF Waits, Range
<1> HIDE DEF ch
<1>4. ChainOK(ch) /\ chains[ch].pc \in Asking
  BY <1>1, <1>2, <1>3, ChainAtWork DEF LineOK
<1>5. chains[ch].id \in Ids
  BY <1>4 DEF ChainOK, Asking
<1>6. pdb[chains[ch].id] \in Records \cup {None}
  BY <1>1, <1>5
<1>7. Result(ch) \in Outcomes
  BY <1>6 DEF Result, Outcomes
<1> QED
  BY <1>2, <1>3, <1>4, <1>5, <1>6, <1>7 DEF ch

LEMMA ExecuteKeeps ==
  ASSUME TidyInv, Execute
  PROVE  Keeps
<1> DEFINE ch  == Head(waiting)
           rec == pdb[chains[ch].id]
<1>1. /\ waiting # <<>> /\ Executor!Execute(Result(ch)) /\ pdb' = Effect(ch)
      /\ UNCHANGED <<idCache, objs, chains, held, answer, calls>>
      /\ during' = [o \in Chains |->
                      IF chains[o].pc = "idle" THEN during[o]
                      ELSE [there  |-> during[o].there \/ pdb'[chains[o].id] # None,
                            absent |-> during[o].absent \/ pdb'[chains[o].id] = None]]
  BY DEF Execute
<1>2. /\ LineTypes /\ OneCallEach /\ AbsddbShapes /\ LineOK /\ FreshOK
      /\ pdb \in [Ids -> Records \cup {None}] /\ chains \in [Chains -> ChainRecords]
      /\ during \in [Chains -> [there : BOOLEAN, absent : BOOLEAN]]
      /\ \A id \in Ids : pdb[id] # None => pdb[id] \in RecordsOf(id)
  BY DEF TidyInv, AbsddbShapes, LineOK
<1>3. /\ ch \in Chains /\ ch \in Waits /\ ChainOK(ch) /\ chains[ch].pc \in Asking
      /\ chains[ch].id \in Ids /\ rec \in Records \cup {None} /\ Result(ch) \in Outcomes
  BY <1>1, ResultIsOutcome
<1>4. ChainOK(ch) /\ chains[ch].pc \in Asking
  BY <1>3
<1>5. chains[ch].id \in Ids
  BY <1>3
<1>6. rec \in Records \cup {None} /\ (rec # None => rec \in RecordsOf(chains[ch].id))
  BY <1>2, <1>3
<1>7. Result(ch) \in Outcomes
  BY <1>3
<1>0. PICK p : p = [call |-> ch, outcome |-> Result(ch)]
  OBVIOUS
<1>8. /\ LineTypes' /\ OneCallEach' /\ Waits' = Waits \ {ch} /\ Under' = Under \cup {p}
  BY <1>0, <1>1, <1>2, <1>7, ExecuteLine
<1>9. /\ p.call = ch
      /\ p.outcome.ok = (chains[ch].pc \in {"load", "put"} \/ rec # None)
      /\ p.outcome.data = IF chains[ch].pc = "load" THEN rec ELSE None
  BY <1>0 DEF Result
<1> HIDE DEF ch, rec
<1>10. /\ chains[ch].pc = "put" => pdb' = [pdb EXCEPT ![chains[ch].id] = chains[ch].data]
       /\ chains[ch].pc = "delete" => pdb' = [pdb EXCEPT ![chains[ch].id] = None]
       /\ chains[ch].pc \in {"exists", "load"} => pdb' = pdb
  BY <1>1 DEF Effect
<1>11. chains[ch].pc = "put" => chains[ch].data \in RecordsOf(chains[ch].id)
  BY <1>4 DEF ChainOK
<1>12. /\ pdb' \in [Ids -> Records \cup {None}]
       /\ \A id \in Ids : pdb'[id] # None => pdb'[id] \in RecordsOf(id)
  <2>1. CASE chains[ch].pc = "put"
    BY <1>2, <1>5, <1>10, <1>11, <2>1 DEF RecordsOf
  <2>2. CASE chains[ch].pc = "delete"
    BY <1>2, <1>5, <1>10, <2>2
  <2>3. CASE chains[ch].pc \in {"exists", "load"}
    BY <1>2, <1>10, <2>3
  <2> QED
    BY <1>4, <2>1, <2>2, <2>3 DEF Asking
<1>13. /\ during' \in [Chains -> [there : BOOLEAN, absent : BOOLEAN]]
       /\ \A o \in Chains : /\ during[o].there => during'[o].there
                            /\ during[o].absent => during'[o].absent
                            /\ chains[o].pc # "idle" =>
                                 IF pdb'[chains[o].id] # None THEN during'[o].there
                                 ELSE during'[o].absent
  <2>1. ASSUME NEW o \in Chains
        PROVE  /\ during'[o] \in [there : BOOLEAN, absent : BOOLEAN]
               /\ during[o].there => during'[o].there
               /\ during[o].absent => during'[o].absent
               /\ chains[o].pc # "idle" =>
                    IF pdb'[chains[o].id] # None THEN during'[o].there ELSE during'[o].absent
    <3>1. during[o] \in [there : BOOLEAN, absent : BOOLEAN]
      BY <1>2
    <3>2. CASE chains[o].pc = "idle"
      <4>1. during'[o] = during[o]
        BY <1>1, <3>2
      <4> QED
        BY <3>1, <3>2, <4>1
    <3>3. CASE chains[o].pc # "idle"
      <4>1. during'[o] = [there  |-> during[o].there \/ pdb'[chains[o].id] # None,
                          absent |-> during[o].absent \/ pdb'[chains[o].id] = None]
        BY <1>1, <3>3
      <4>2. /\ during'[o].there = (during[o].there \/ pdb'[chains[o].id] # None)
            /\ during'[o].absent = (during[o].absent \/ pdb'[chains[o].id] = None)
        BY <4>1
      <4>3. during'[o] \in [there : BOOLEAN, absent : BOOLEAN]
        BY <4>1
      <4> QED
        BY <4>2, <4>3
    <3> QED
      BY <3>2, <3>3
  <2>2. during' = [o \in Chains |-> during'[o]]
    BY <1>1
  <2> QED
    BY <2>1, <2>2
<1>14. AbsddbShapes'
  BY <1>1, <1>2, <1>8, <1>12, <1>13 DEF AbsddbShapes
<1>15. Instances' = Instances
  BY <1>1 DEF Instances
<1>16. \A o \in Chains : ChainOK(o)'
  <2> SUFFICES ASSUME NEW o \in Chains PROVE ChainOK(o)'
    OBVIOUS
  <2>1. ChainOK(o)
    BY ChainAtWork
  <2> QED
    BY <1>1, <1>13, <1>15, <2>1 DEF ChainOK
<1>17. \A c \in Clients : ClientOK(c)'
  BY <1>1, <1>15, <1>16, ChainsAre DEF TidyInv, ClientOK
<1>18. (\A o \in Instances' : ObjOK(o)') /\ CacheOK' /\ Apart'
  BY <1>1, <1>15 DEF TidyInv, ObjOK, CacheOK, Apart
<1>19. ReplyOK(p)'
  <2>1. CASE chains[ch].pc = "exists"
    BY <1>1, <1>3, <1>5, <1>9, <1>10, <1>13, <2>1 DEF ReplyOK, rec
  <2>2. CASE chains[ch].pc = "load"
    BY <1>1, <1>3, <1>6, <1>9, <1>10, <1>13, <2>2 DEF ReplyOK, rec
  <2>3. CASE chains[ch].pc = "put"
    BY <1>1, <1>9, <2>3 DEF ReplyOK
  <2>4. CASE chains[ch].pc = "delete"
    <3>1. pdb'[chains[ch].id] = None
      BY <1>2, <1>5, <1>10, <2>4
    <3>2. during'[ch].absent /\ during'[ch].there
      BY <1>3, <1>4, <1>13, <2>4, <3>1 DEF ChainOK
    <3> QED
      BY <1>1, <1>9, <2>4, <3>2 DEF ReplyOK
  <2> QED
    BY <1>4, <2>1, <2>2, <2>3, <2>4 DEF Asking
<1>20. LineOK'
  <2>1. ASSUME NEW q \in Under PROVE ReplyOK(q)'
    <3>1. q.call \in Chains /\ ReplyOK(q) /\ q.outcome.ok \in BOOLEAN
      BY <1>2, RepliesAre DEF LineOK, Outcomes
    <3> QED
      BY <1>1, <1>13, <3>1 DEF ReplyOK
  <2>2. \A q \in Under' : ReplyOK(q)'
    BY <1>8, <1>19, <2>1
  <2>3. \A o \in Waits' \cup Callers(Under)' : chains'[o].pc \in Asking
    BY <1>1, <1>2, <1>3, <1>8, <1>9 DEF LineOK, Callers
  <2> QED
    BY <1>8, <2>2, <2>3 DEF LineOK
<1>21. FreshOK'
  <2> SUFFICES ASSUME NEW id \in Ids, Fresh(id)'
               PROVE  /\ \A o \in Chains : chains[o].id = id => chains[o].pc \in {"begun", "exists"}
                      /\ \A q \in Under' : chains[q.call].id = id => ~q.outcome.ok
    BY <1>1 DEF FreshOK
  <2>1. pdb'[id] = None /\ \A o \in Instances : objs[o].id # id
    BY <1>1, <1>15 DEF Fresh
  <2>2. pdb[id] = None
    <3>1. CASE chains[ch].pc = "delete"
      <4>1. chains[ch].id # id
        BY <1>4, <2>1, <3>1 DEF ChainOK
      <4> QED
        BY <1>2, <1>10, <2>1, <3>1, <4>1
    <3>2. CASE chains[ch].pc = "put"
      <4>1. chains[ch].id # id
        BY <1>4, <2>1, <3>2 DEF ChainOK
      <4> QED
        BY <1>2, <1>10, <2>1, <3>2, <4>1
    <3>3. CASE chains[ch].pc \in {"exists", "load"}
      BY <1>10, <2>1, <3>3
    <3> QED
      BY <1>4, <3>1, <3>2, <3>3 DEF Asking
  <2>3. Fresh(id)
    BY <2>1, <2>2 DEF Fresh
  <2>4. /\ \A o \in Chains : chains[o].id = id => chains[o].pc \in {"begun", "exists"}
        /\ \A q \in Under : chains[q.call].id = id => ~q.outcome.ok
    BY <1>2, <2>3 DEF FreshOK
  <2>5. chains[ch].id = id => ~p.outcome.ok
    BY <1>3, <1>9, <2>2, <2>4 DEF rec
  <2> QED
    BY <1>8, <1>9, <2>4, <2>5
<1>22. TidyInv'
  BY <1>12, <1>14, <1>17, <1>18, <1>20, <1>21 DEF TidyInv
<1>23. ASSUME NEW R, RefsOK(R) PROVE RefsOK(R)'
  <2>1. ASSUME NEW id \in Children, pdb'[id] # None PROVE pdb'[id].ref = R[id]
    <3>1. CASE pdb'[id] = pdb[id]
      BY <1>23, <2>1, <3>1 DEF RefsOK
    <3>2. CASE pdb'[id] # pdb[id]
      <4>1. chains[ch].pc = "put" /\ chains[ch].id = id /\ pdb'[id] = chains[ch].data
        BY <1>2, <1>4, <1>5, <1>10, <2>1, <3>2 DEF Asking, Ids
      <4>2. ch[1] \in Clients /\ ch = CallOf(ch[1])
        BY <1>3, <1>4, <4>1, ChainsAre DEF TidyInv, ClientOK, ChainOK
      <4> QED
        BY <1>23, <2>1, <4>1, <4>2 DEF RefsOK, ClientRefs
    <3> QED
      BY <3>1, <3>2
  <2>2. \A c \in Clients : ClientRefs(c, R)'
    BY <1>1, <1>23 DEF RefsOK, ClientRefs
  <2>3. \A o \in Instances' : ObjRef(o, R)'
    BY <1>1, <1>15, <1>23 DEF RefsOK, ObjRef
  <2>4. ReplyRef(p, R)'
    BY <1>1, <1>9, <1>23 DEF RefsOK, ReplyRef, rec
  <2>5. \A q \in Under : ReplyRef(q, R)'
    BY <1>1, <1>23 DEF RefsOK, ReplyRef
  <2> QED
    BY <1>8, <2>1, <2>2, <2>3, <2>4, <2>5 DEF RefsOK
<1> QED
  BY <1>22, <1>23 DEF Keeps

-----------------------------------------------------------------------------
(* The invariant holds of every state.                                     *)

LEMMA ChainKeeps ==
  ASSUME TidyInv, NEW ch \in Chains,
         \/ CheckExists(ch) \/ NotExists(ch) \/ CacheHit(ch) \/ CacheMiss(ch) \/ Load(ch)
         \/ Loaded(ch) \/ AddToCache(ch) \/ RemoveFromCache(ch) \/ Removed(ch) \/ PutDone(ch)
  PROVE  Keeps
<1>1. CASE CheckExists(ch)
  BY <1>1, CheckExistsKeeps
<1>2. CASE NotExists(ch)
  BY <1>2, NotExistsEnds, EndKeeps
<1>3. CASE CacheHit(ch)
  BY <1>3, CacheHitEnds, EndKeeps
<1>4. CASE CacheMiss(ch)
  BY <1>4, CacheMissKeeps
<1>5. CASE Load(ch)
  BY <1>5, LoadKeeps
<1>6. CASE Loaded(ch)
  BY <1>6, NoRecordEnds, EndKeeps, RecordGoesOn
<1>7. CASE AddToCache(ch)
  BY <1>7, AddedEnds, EndKeeps, ReferenceKeeps
<1>8. CASE RemoveFromCache(ch)
  BY <1>8, RemoveFromCacheKeeps
<1>9. CASE Removed(ch)
  BY <1>9, RemovedEnds, EndKeeps
<1>10. CASE PutDone(ch)
  BY <1>10, PutDoneEnds, EndKeeps
<1> QED
  BY <1>1, <1>2, <1>3, <1>4, <1>5, <1>6, <1>7, <1>8, <1>9, <1>10

LEMMA NothingKeeps ==
  ASSUME TidyInv, UNCHANGED absddbVars
  PROVE  Keeps
<1>1. UNCHANGED <<pdb, idCache, objs, waiting, replies, chains, held, answer, calls, during>>
  BY DEF absddbVars
<1>2. AbsddbShapes'
  BY <1>1 DEF TidyInv, AbsddbShapes, LineTypes
<1>3. /\ Instances' = Instances
      /\ \A o \in Instances : objs'[o].id = objs[o].id /\ objs'[o].ref = objs[o].ref
  BY <1>1 DEF Instances
<1> QED
  BY <1>1, <1>2, <1>3, SameStores

\* A step that is not the making of a new entity keeps every reference known.
LEMMA StepKeeps ==
  ASSUME TidyInv, [AbsddbNext]_absddbVars
  PROVE  \/ Keeps
         \/ \E c \in Clients, id \in Ids, v \in Vals : Create(c, id, v)
<1>1. ASSUME NEW c \in Clients, NEW id \in Ids, Get(c, id) PROVE Keeps
  BY <1>1, GetKeeps
<1>2. ASSUME NEW c \in Clients, Remove(c) PROVE Keeps
  BY <1>2, RemoveKeeps
<1>3. ASSUME NEW c \in Clients, Put(c) PROVE Keeps
  BY <1>3, PutKeeps
<1>4. ASSUME NEW c \in Clients, NEW v \in Vals, Modify(c, v) PROVE Keeps
  BY <1>4, ModifyKeeps
<1>5. CASE Execute
  BY <1>5, ExecuteKeeps
<1>6. CASE EventLoop
  BY <1>6, ChainKeeps DEF EventLoop
<1>7. CASE UNCHANGED absddbVars
  BY <1>7, NothingKeeps
<1> QED
  BY <1>1, <1>2, <1>3, <1>4, <1>5, <1>6, <1>7 DEF AbsddbNext, Client

LEMMA StepPreserves ==
  ASSUME StoreInv, [AbsddbNext]_absddbVars
  PROVE  StoreInv'
<1>1. PICK R \in References : RefsOK(R)
  BY DEF StoreInv
<1>2. TidyInv
  BY DEF StoreInv
<1>3. CASE Keeps
  BY <1>1, <1>3 DEF Keeps, StoreInv, References, Ids
<1>4. ASSUME NEW c \in Clients, NEW id \in Ids, NEW v \in Vals, Create(c, id, v) PROVE StoreInv'
  <2>1. TidyInv' /\ \E S \in References : RefsOK(S)'
    BY <1>1, <1>2, <1>4, CreateKeeps
  <2> QED
    BY <2>1 DEF StoreInv, References, Ids
<1> QED
  BY <1>2, <1>3, <1>4, StepKeeps

LEMMA StartsTidy ==
  ASSUME AbsddbInit
  PROVE  StoreInv
<1>1. /\ pdb \in [Ids -> Records \cup {None}]
      /\ \A id \in Children : pdb[id] # None => pdb[id].ref \in Parents
      /\ \A id \in Parents : pdb[id] # None => pdb[id].ref = None
      /\ idCache = [id \in Ids |-> None] /\ objs = <<>> /\ waiting = <<>> /\ replies = <<>>
      /\ chains = [ch \in Chains |-> Idle] /\ held = [c \in Clients |-> None]
      /\ answer = [c \in Clients |-> None] /\ calls = [c \in Clients |-> 0]
      /\ during = [ch \in Chains |-> [there |-> FALSE, absent |-> FALSE]]
  BY DEF AbsddbInit
<1>2. DOMAIN objs = {} /\ DOMAIN waiting = {} /\ DOMAIN replies = {}
  BY <1>1
<1>3. Instances = {} /\ Waits = {} /\ Under = {} /\ Callers(Under) = {}
  BY <1>2 DEF Instances, Waits, Under, Callers, Range
<1>4. AbsddbShapes
  <2>1. Idle \in ChainRecords
    BY DEF Idle, ChainRecords, ChainPCs
  <2>2. LineTypes /\ objs \in Seq(Objects)
    BY <1>1 DEF LineTypes
  <2>3. MaxOps \in Nat
    BY StorageAssumption
  <2> QED
    BY <1>1, <2>1, <2>2, <2>3 DEF AbsddbShapes
<1>5. \A id \in Ids : pdb[id] # None => pdb[id] \in RecordsOf(id)
  BY <1>1 DEF RecordsOf, Ids
<1>6. CacheOK
  BY <1>1 DEF CacheOK
<1>7. \A ch \in Chains : chains[ch] = Idle
  BY <1>1
<1>8. \A c \in Clients : ClientOK(c)
  <2>1. \A ch \in Chains : ChainOK(ch)
    BY <1>7 DEF ChainOK, Idle
  <2> QED
    BY <1>1, <1>7, <2>1, ChainsAre DEF ClientOK, Idle
<1>9. LineOK
  BY <1>2, <1>3 DEF LineOK, OneCallEach
<1>10. Apart
  BY <1>7, ChainsAre DEF Apart, Idle
<1>11. FreshOK
  BY <1>3, <1>7, StorageAssumption DEF FreshOK, Idle, Ids
<1>12. TidyInv
  BY <1>3, <1>4, <1>5, <1>6, <1>8, <1>9, <1>10, <1>11 DEF TidyInv
<1>13. PICK R : R = [id \in Children |-> IF pdb[id] = None THEN None ELSE pdb[id].ref]
  OBVIOUS
<1>14. R \in References
  BY <1>1, <1>13 DEF References, Ids
<1>15. RefsOK(R)
  BY <1>3, <1>7, <1>13, ChainsAre DEF RefsOK, ClientRefs, Idle
<1> QED
  BY <1>12, <1>14, <1>15 DEF StoreInv

LEMMA StoreInvHolds == AbsddbSpec => []StoreInv
<1>1. AbsddbInit => StoreInv
  BY StartsTidy
<1>2. StoreInv /\ [AbsddbNext]_absddbVars => StoreInv'
  BY StepPreserves
<1> QED
  BY <1>1, <1>2, PTL DEF AbsddbSpec

-----------------------------------------------------------------------------
(* What follows of every state.                                            *)

\* The storage's variables have their types, whatever the requests do.
THEOREM AbsddbTypes == AbsddbSpec => []AbsddbTypeOK
<1>1. StoreInv => AbsddbTypeOK
  <2> SUFFICES ASSUME StoreInv PROVE AbsddbTypeOK
    OBVIOUS
  <2>1. TidyInv /\ AbsddbShapes
    BY DEF StoreInv, TidyInv
  <2>2. /\ pdb \in [Ids -> Records \cup {None}]
        /\ \A id \in Children : pdb[id] # None => pdb[id].ref \in Parents
        /\ \A id \in Parents : pdb[id] # None => pdb[id].ref = None
    BY <2>1, StorageAssumption DEF TidyInv, AbsddbShapes, RecordsOf, Ids
  <2>3. \A o \in Instances : objs[o].ref \notin {None, Failure} =>
          /\ objs[o].ref \in Instances
          /\ objs[o].id \in Children /\ objs[objs[o].ref].id \in Parents
    BY <2>1 DEF TidyInv, ObjOK
  <2>4. ASSUME NEW ch \in Chains
        PROVE  /\ chains[ch].pc \in ChainPCs
               /\ (chains[ch].pc = "idle") <=> (chains[ch] = Idle)
               /\ chains[ch].pc # "idle" => chains[ch].id \in Ids
               /\ chains[ch].pc \in {"put", "reference"} => chains[ch].obj \in Instances
    <3>1. ChainOK(ch) /\ chains[ch] \in ChainRecords
      BY <2>1, ChainAtWork
    <3> QED
      BY <3>1 DEF ChainOK, ChainRecords, Idle
  <2>5. \A c \in Clients : held[c] \in Instances \cup {None}
    BY <2>1 DEF TidyInv, ClientOK
  <2>6. /\ answer \in [Clients -> {None, "ok", "failed"}]
        /\ calls \in [Clients -> 0..MaxOps] /\ CacheOK
    BY <2>1 DEF AbsddbShapes, TidyInv
  <2>7. \A ch \in Chains :
          LET c == chains[ch] IN
            /\ c.pc \in {"idle", "begun", "exists", "missed", "load", "create",
                         "reference", "put", "delete"}
            /\ (c.pc = "idle") <=> (c = Idle)
            /\ c.pc # "idle" => c.id \in Ids
            /\ c.pc \in {"put", "reference"} => c.obj \in Instances
    BY <2>4 DEF ChainPCs
  <2>8. \A id \in Ids : idCache[id] # None =>
          idCache[id] \in Instances /\ objs[idCache[id]].id = id
    BY <2>6 DEF CacheOK
  <2> QED
    BY <2>2, <2>3, <2>5, <2>6, <2>7, <2>8 DEF AbsddbTypeOK
<1> QED
  BY <1>1, StoreInvHolds, PTL

\* An instance of an entity with a reference field that has no reference yet is
\* being loaded by some request, which will set it (sabsddb.py:432-456): nobody
\* is left with an instance that nothing completes.
THEOREM HalfLoadedHolds == AbsddbSpec => []HalfLoadedIsLoading
<1>1. StoreInv => HalfLoadedIsLoading
  <2> SUFFICES ASSUME StoreInv, NEW o \in Instances, objs[o].id \in Children, objs[o].ref = None
               PROVE  \E c \in Clients : /\ chains[CallOf(c)].pc = "reference"
                                         /\ chains[CallOf(c)].obj = o
                                         /\ chains[RefOf(c)].pc # "idle"
    BY DEF HalfLoadedIsLoading, CallOf, RefOf
  <2>1. PICK c \in Clients : chains[CallOf(c)].pc = "reference" /\ chains[CallOf(c)].obj = o
    BY DEF StoreInv, TidyInv, ObjOK
  <2>2. chains[RefOf(c)].pc # "idle"
    BY <2>1 DEF StoreInv, TidyInv, ClientOK
  <2> QED
    BY <2>1, <2>2
<1> QED
  BY <1>1, StoreInvHolds, PTL

\* While a record stays stored its reference never changes: what any request
\* writes over it is the reference it had (sabsddb.py:188-189, 260).
THEOREM ReferencesHold == AbsddbSpec => ReferencesPreserved
<1>1. ASSUME StoreInv, [AbsddbNext]_absddbVars, NEW id \in Ids, pdb[id] # None, pdb'[id] # None
      PROVE  pdb'[id].ref = pdb[id].ref
  <2>1. PICK R \in References : RefsOK(R)
    BY <1>1 DEF StoreInv
  <2>2. TidyInv /\ StoreInv'
    BY <1>1, StepPreserves DEF StoreInv
  <2>3. CASE Keeps
    <3>1. CASE id \in Children
      BY <1>1, <2>1, <2>3, <3>1 DEF Keeps, RefsOK
    <3>2. CASE id \notin Children
      <4>1. pdb[id] \in RecordsOf(id) /\ pdb'[id] \in RecordsOf(id)
        BY <1>1, <2>2 DEF StoreInv, TidyInv
      <4> QED
        BY <3>2, <4>1 DEF RecordsOf
    <3> QED
      BY <3>1, <3>2
  <2>4. ASSUME NEW c \in Clients, NEW i \in Ids, NEW v \in Vals, Create(c, i, v)
        PROVE  pdb' = pdb
    BY <2>4 DEF Create
  <2> QED
    BY <1>1, <2>2, <2>3, <2>4, StepKeeps
<1>2. StoreInv /\ [AbsddbNext]_absddbVars =>
        \A id \in Ids : (pdb[id] # None /\ pdb'[id] # None) => pdb'[id].ref = pdb[id].ref
  BY <1>1
<1> QED
  BY <1>2, StoreInvHolds, PTL DEF AbsddbSpec, ReferencesPreserved

-----------------------------------------------------------------------------
(* What the calls answer.                                                  *)

\* The two halves of Truthful, of one step.
TruthTold ==
  /\ \A c \in Clients :
       Ends(c) =>
         /\ chains[CallOf(c)].op = "get" =>
              IF answer'[c] = "ok" THEN during[CallOf(c)].there ELSE during[CallOf(c)].absent
         /\ chains[CallOf(c)].op = "remove" =>
              during[CallOf(c)].absent /\ (answer'[c] = "ok" => during[CallOf(c)].there)
  /\ \A o \in Instances : objs'[o].ref # objs[o].ref =>
       \E c \in Clients :
         /\ chains[CallOf(c)].obj = o
         /\ IF objs'[o].ref = Failure THEN during[RefOf(c)].absent
            ELSE /\ during[RefOf(c)].there
                 /\ objs'[objs'[o].ref].id = chains[RefOf(c)].id

\* A step in which no call ends and no reference is set.
Silent == /\ \A c \in Clients : chains'[CallOf(c)].pc = "idle" => chains[CallOf(c)].pc = "idle"
          /\ \A o \in Instances : objs'[o].ref = objs[o].ref

LEMMA SilentIsTrue ==
  ASSUME Silent
  PROVE  TruthTold
BY DEF Silent, TruthTold, Ends, CallOf

\* A chain ends with the truth about what it was asked.
LEMMA EndIsTrue ==
  ASSUME TidyInv, NEW ch \in Chains, NEW ending, NEW instance, NEW heap,
         EndsWith(ch, ending, instance, heap),
         chains[ch].op = "get" => IF ending = "ok" THEN during[ch].there ELSE during[ch].absent,
         chains[ch].op = "remove" => during[ch].absent /\ (ending = "ok" => during[ch].there)
  PROVE  TruthTold
<1> DEFINE c == ch[1]
<1>1. /\ c \in Clients /\ ch \in {CallOf(c), RefOf(c)} /\ CallOf(c) # RefOf(c)
      /\ \A o \in Chains : o[1] # c => chains'[o] = chains[o]
      /\ ClientOK(c) /\ chains[ch].pc \notin {"idle", "reference"}
  BY EndOfChains, ChainsAre DEF TidyInv, EndsWith
<1>2. ASSUME NEW d \in Clients, Ends(d)
      PROVE  /\ chains[CallOf(d)].op = "get" =>
                  IF answer'[d] = "ok" THEN during[CallOf(d)].there ELSE during[CallOf(d)].absent
             /\ chains[CallOf(d)].op = "remove" =>
                  during[CallOf(d)].absent /\ (answer'[d] = "ok" => during[CallOf(d)].there)
  <2>1. d = c
    BY <1>1, <1>2, ChainsAre DEF Ends, CallOf
  <2>2. answer \in [Clients -> {None, "ok", "failed"}]
    BY DEF TidyInv, AbsddbShapes
  <2>3. CASE ch = CallOf(c)
    <3>1. answer'[c] = ending
      BY <1>1, <2>2, <2>3 DEF EndsWith, Finish, CallOf
    <3> QED
      BY <2>1, <2>3, <3>1
  <2>4. CASE ch = RefOf(c)
    <3>1. ch # CallOf(c)
      BY <1>1, <2>4
    <3>2. answer'[c] = "ok"
      BY <1>1, <2>2, <3>1 DEF EndsWith, Finish, CallOf
    <3>3. chains[CallOf(c)].op = "get" /\ during[CallOf(c)].there
      BY <1>1, <2>4 DEF ClientOK, ChainOK
    <3> QED
      BY <2>1, <3>2, <3>3
  <2> QED
    BY <1>1, <2>3, <2>4
<1>3. ASSUME NEW o \in Instances, objs'[o].ref # objs[o].ref
      PROVE  /\ chains[CallOf(c)].obj = o
             /\ IF objs'[o].ref = Failure THEN during[RefOf(c)].absent
                ELSE /\ during[RefOf(c)].there
                     /\ objs'[objs'[o].ref].id = chains[RefOf(c)].id
  <2>1. Instances \subseteq Instances' /\ heap[o] = objs[o]
    BY EndOfInstances DEF EndsWith
  <2>2. /\ ch = RefOf(c) /\ o = chains[CallOf(c)].obj
        /\ objs'[o].ref = IF ending = "ok" THEN instance ELSE Failure
        /\ ending = "ok" => instance \in Instances' /\ objs'[instance].id = chains[ch].id
    BY <1>3, <2>1, EndOfInstances
  <2>3. Instances' \subseteq Nat
    BY EndOfInstances, LenProperties DEF Instances
  <2>4. chains[ch].op = "get"
    BY <1>1, <2>2 DEF ClientOK
  <2>5. objs'[o].ref = Failure <=> ending # "ok"
    BY <2>2, <2>3, StorageAssumption
  <2> QED
    BY <2>2, <2>4, <2>5
<1> QED
  BY <1>1, <1>2, <1>3 DEF TruthTold

LEMMA ChainIsTrue ==
  ASSUME TidyInv, NEW ch \in Chains,
         \/ CheckExists(ch) \/ NotExists(ch) \/ CacheHit(ch) \/ CacheMiss(ch) \/ Load(ch)
         \/ Loaded(ch) \/ AddToCache(ch) \/ RemoveFromCache(ch) \/ Removed(ch) \/ PutDone(ch)
  PROVE  TruthTold
<1>1. /\ ChainOK(ch) /\ chains \in [Chains -> ChainRecords]
      /\ \A c \in Clients : CallOf(c) \in Chains
  BY ChainAtWork, ChainsAre DEF TidyInv, AbsddbShapes
<1>2. ASSUME NEW state, chains' = [chains EXCEPT ![ch].pc = state], state # "idle", objs' = objs
      PROVE  TruthTold
  <2>1. Silent
    BY <1>1, <1>2 DEF Silent
  <2> QED
    BY <2>1, SilentIsTrue
<1>3. CASE CheckExists(ch) \/ CacheMiss(ch) \/ Load(ch) \/ RemoveFromCache(ch)
  BY <1>2, <1>3 DEF CheckExists, CacheMiss, Load, RemoveFromCache
<1>4. CASE NotExists(ch)
  <2>1. Answered(ch, "exists") /\ ~Outcome.ok
    BY <1>4 DEF NotExists
  <2>2. during[ch].absent
    BY <2>1, Delivered
  <2> QED
    BY <1>4, <2>2, NotExistsEnds, EndIsTrue
<1>5. CASE CacheHit(ch)
  <2>1. Answered(ch, "exists") /\ Outcome.ok /\ chains[ch].op = "get"
    BY <1>5 DEF CacheHit
  <2>2. during[ch].there
    BY <2>1, Delivered
  <2> QED
    BY <1>5, <2>1, <2>2, CacheHitEnds, EndIsTrue
<1>6. CASE Loaded(ch)
  <2>1. Answered(ch, "load")
    BY <1>6 DEF Loaded
  <2>2. chains[ch].pc = "load" /\ (Outcome.data = None => during[ch].absent)
    BY <2>1, Delivered
  <2>3. chains[ch].op = "get"
    BY <1>1, <2>2 DEF ChainOK
  <2>4. CASE Outcome.data = None
    BY <1>6, <2>2, <2>3, <2>4, NoRecordEnds, EndIsTrue
  <2>5. CASE Outcome.data # None
    <3>1. /\ chains' = [chains EXCEPT ![ch].pc = "create", ![ch].data = Outcome.data]
          /\ objs' = objs
      BY <1>6, <2>5 DEF Loaded
    <3>2. chains[ch] \in ChainRecords /\ \A o \in Chains : o # ch => chains'[o] = chains[o]
      BY <1>1, <3>1
    <3>3. chains'[ch].pc = "create"
      BY <1>1, <3>1, <3>2 DEF ChainRecords
    <3>4. Silent
      BY <1>1, <3>1, <3>2, <3>3 DEF Silent
    <3> QED
      BY <3>4, SilentIsTrue
  <2> QED
    BY <2>4, <2>5
<1>7. CASE AddToCache(ch) /\ chains[ch].data.ref = None
  BY <1>7, AddedEnds, EndIsTrue
<1>8. CASE AddToCache(ch) /\ chains[ch].data.ref # None
  <2> DEFINE ref == <<ch[1], "reference">>
  <2>1. /\ objs' = Append(objs, [id |-> chains[ch].id, val |-> chains[ch].data.val, ref |-> None])
        /\ chains' = [chains EXCEPT
             ![ch].pc = "reference", ![ch].obj = Len(objs) + 1, ![ch].data = None,
             ![ref] = [Idle EXCEPT !.pc = "begun", !.op = "get", !.id = chains[ch].data.ref]]
    BY <1>8 DEF AddToCache
  <2> HIDE DEF ref
  <2>2. ASSUME NEW o \in Chains, chains'[o].pc = "idle" PROVE chains[o].pc = "idle"
    <3>1. chains[ch] \in ChainRecords
      BY <1>1
    <3>2. CASE o = ref
      BY <1>1, <2>1, <2>2, <3>2 DEF Idle
    <3>3. CASE o = ch /\ o # ref
      BY <1>1, <2>1, <2>2, <3>1, <3>3 DEF ChainRecords
    <3>4. CASE o # ch /\ o # ref
      BY <1>1, <2>1, <2>2, <3>4
    <3> QED
      BY <3>2, <3>3, <3>4
  <2>3. \A o \in Instances : objs'[o] = objs[o]
    <3>1. objs \in Seq(Objects)
      BY DEF TidyInv, AbsddbShapes
    <3> QED
      BY <2>1, <3>1, LenProperties DEF Instances
  <2>4. Silent
    BY <1>1, <2>2, <2>3 DEF Silent
  <2> QED
    BY <2>4, SilentIsTrue
<1>9. CASE Removed(ch)
  <2>1. Answered(ch, "delete")
    BY <1>9 DEF Removed
  <2>2. /\ chains[ch].pc = "delete" /\ during[ch].absent /\ (Outcome.ok => during[ch].there)
    BY <2>1, Delivered
  <2>3. chains[ch].op = "remove"
    BY <1>1, <2>2 DEF ChainOK
  <2>4. PICK e : e = IF Outcome.ok THEN "ok" ELSE "failed"
    OBVIOUS
  <2>5. EndsWith(ch, e, held[ch[1]], objs)
    BY <1>9, <2>4, RemovedEnds
  <2> QED
    BY <2>2, <2>3, <2>4, <2>5, EndIsTrue
<1>10. CASE PutDone(ch)
  <2>1. Answered(ch, "put")
    BY <1>10 DEF PutDone
  <2>2. chains[ch].pc = "put"
    BY <2>1, Delivered
  <2>3. chains[ch].op = "put"
    BY <1>1, <2>2 DEF ChainOK
  <2> QED
    BY <1>10, <2>3, PutDoneEnds, EndIsTrue
<1> QED
  BY <1>3, <1>4, <1>5, <1>6, <1>7, <1>8, <1>9, <1>10

LEMMA ClientIsTrue ==
  ASSUME TidyInv, Client
  PROVE  TruthTold
<1>1. chains \in [Chains -> ChainRecords] /\ objs \in Seq(Objects)
      /\ \A c \in Clients : CallOf(c) \in Chains
  BY ChainsAre DEF TidyInv, AbsddbShapes
<1>2. ASSUME NEW c \in Clients, NEW op, NEW id, Call(c, op, id), objs' = objs
      PROVE  Silent
  BY <1>1, <1>2 DEF Silent, Call, Begin, Free, CallOf, Idle
<1>3. ASSUME NEW c \in Clients, NEW id \in Ids, Get(c, id) PROVE Silent
  BY <1>2, <1>3 DEF Get
<1>4. ASSUME NEW c \in Clients, Remove(c) PROVE Silent
  BY <1>2, <1>4 DEF Remove
<1>5. ASSUME NEW c \in Clients, Put(c) PROVE Silent
  <2>1. objs' = objs
    BY <1>5 DEF Put
  <2>2. \/ chains' = chains
        \/ \E new : new.pc = "put" /\ chains' = [chains EXCEPT ![CallOf(c)] = new]
    BY <1>5 DEF Put, CallOf
  <2> QED
    BY <1>1, <2>1, <2>2 DEF Silent
<1>6. ASSUME NEW c \in Clients, NEW v \in Vals, Modify(c, v) PROVE Silent
  BY <1>1, <1>6, InstanceIs DEF Modify, Silent, Objects, Instances
<1>7. ASSUME NEW c \in Clients, NEW id \in Ids, NEW v \in Vals, Create(c, id, v) PROVE Silent
  <2>1. \A o \in Instances : objs'[o] = objs[o]
    BY <1>1, <1>7, LenProperties DEF Create, Instances
  <2> QED
    BY <1>7, <2>1 DEF Create, Silent
<1> QED
  BY <1>3, <1>4, <1>5, <1>6, <1>7, SilentIsTrue DEF Client

\* What a call answers, and what it sets a reference to, was true at some moment
\* of that call, whatever any number of other requests did in the meantime
\* (sabsddb.py:365-379, 436-456).
THEOREM TruthfulHolds == AbsddbSpec => Truthful
<1>1. ASSUME StoreInv, [AbsddbNext]_absddbVars PROVE TruthTold
  <2>1. TidyInv
    BY <1>1 DEF StoreInv
  <2>2. CASE Client
    BY <2>1, <2>2, ClientIsTrue
  <2>3. CASE Execute
    BY <2>3, SilentIsTrue DEF Execute, Silent
  <2>4. CASE EventLoop
    BY <2>1, <2>4, ChainIsTrue DEF EventLoop
  <2>5. CASE UNCHANGED absddbVars
    BY <2>5, SilentIsTrue DEF absddbVars, Silent
  <2> QED
    BY <1>1, <2>2, <2>3, <2>4, <2>5 DEF AbsddbNext
<1>2. TruthTold =>
        \A c \in Clients :
          LET call == chains[<<c, "call">>]
              met  == during[<<c, "call">>]
          IN Ends(c) =>
               /\ call.op = "get" => IF answer'[c] = "ok" THEN met.there ELSE met.absent
               /\ call.op = "remove" => met.absent /\ (answer'[c] = "ok" => met.there)
  BY DEF TruthTold, CallOf
<1>3. TruthTold =>
        \A o \in Instances : objs'[o].ref # objs[o].ref =>
          \E c \in Clients :
            /\ chains[<<c, "call">>].obj = o
            /\ IF objs'[o].ref = Failure THEN during[<<c, "reference">>].absent
               ELSE /\ during[<<c, "reference">>].there
                    /\ objs'[objs'[o].ref].id = chains[<<c, "reference">>].id
  BY DEF TruthTold, CallOf, RefOf
<1>4. StoreInv /\ [AbsddbNext]_absddbVars => TruthTold
  BY <1>1
<1> QED
  BY <1>2, <1>3, <1>4, StoreInvHolds, PTL DEF AbsddbSpec, Truthful, TruthfulAnswers, TruthfulReferences

-----------------------------------------------------------------------------
(* What the caches settle on.                                              *)

LoadingPCs == {"missed", "load", "create"}

\* A chain comes to load an identity only when its cache is empty, and only a
\* chain that has loaded it fills the cache.
LoadsFirst ==
  /\ \A o \in Chains : chains'[o].pc \in LoadingPCs =>
       \/ chains[o].pc \in LoadingPCs /\ chains'[o].id = chains[o].id
       \/ idCache[chains'[o].id] = None
  /\ \A id \in Ids : idCache'[id] \notin {None, idCache[id]} =>
       \E o \in Chains : chains[o].pc = "create" /\ chains[o].id = id

LEMMA EndLoads ==
  ASSUME TidyInv, NEW ch \in Chains, NEW ending, NEW instance, NEW heap,
         EndsWith(ch, ending, instance, heap)
  PROVE  \A o \in Chains : chains'[o].pc \in LoadingPCs =>
           chains[o].pc \in LoadingPCs /\ chains'[o].id = chains[o].id
<1>1. /\ chains'[CallOf(ch[1])] = Idle /\ chains'[RefOf(ch[1])] = Idle
      /\ \A o \in Chains : o[1] # ch[1] => chains'[o] = chains[o]
  BY EndOfChains
<1>2. \A o \in Chains : o[1] = ch[1] => chains'[o] = Idle
  BY <1>1, ChainsAre
<1> QED
  BY <1>1, <1>2 DEF Idle, LoadingPCs

LEMMA ChainLoads ==
  ASSUME TidyInv, NEW ch \in Chains,
         \/ CheckExists(ch) \/ NotExists(ch) \/ CacheHit(ch) \/ CacheMiss(ch) \/ Load(ch)
         \/ Loaded(ch) \/ AddToCache(ch) \/ RemoveFromCache(ch) \/ Removed(ch) \/ PutDone(ch)
  PROVE  LoadsFirst
<1>1. /\ chains \in [Chains -> ChainRecords] /\ chains[ch] \in ChainRecords
      /\ idCache \in [Ids -> Nat \cup {None}]
  BY DEF TidyInv, AbsddbShapes
<1>2. ASSUME NEW state, NEW data,
             \/ chains' = [chains EXCEPT ![ch].pc = state]
             \/ chains' = [chains EXCEPT ![ch].pc = state, ![ch].data = data]
      PROVE  /\ chains'[ch].pc = state /\ chains'[ch].id = chains[ch].id
             /\ \A o \in Chains : o # ch => chains'[o] = chains[o]
  BY <1>1, <1>2 DEF ChainRecords
<1>3. CASE CheckExists(ch)
  <2>1. chains' = [chains EXCEPT ![ch].pc = "exists"] /\ idCache' = idCache
    BY <1>3 DEF CheckExists
  <2>2. chains'[ch].pc = "exists" /\ \A o \in Chains : o # ch => chains'[o] = chains[o]
    BY <1>2, <2>1
  <2> QED
    BY <2>1, <2>2 DEF LoadsFirst, LoadingPCs
<1>4. CASE CacheMiss(ch)
  <2>1. chains' = [chains EXCEPT ![ch].pc = "missed"] /\ idCache' = idCache
        /\ idCache[chains[ch].id] = None
    BY <1>4 DEF CacheMiss
  <2>2. /\ chains'[ch].id = chains[ch].id
        /\ \A o \in Chains : o # ch => chains'[o] = chains[o]
    BY <1>2, <2>1
  <2> QED
    BY <2>1, <2>2 DEF LoadsFirst
<1>5. CASE Load(ch)
  <2>1. /\ chains' = [chains EXCEPT ![ch].pc = "load"] /\ idCache' = idCache
        /\ chains[ch].pc = "missed"
    BY <1>5 DEF Load
  <2>2. /\ chains'[ch].id = chains[ch].id
        /\ \A o \in Chains : o # ch => chains'[o] = chains[o]
    BY <1>2, <2>1
  <2> QED
    BY <2>1, <2>2 DEF LoadsFirst, LoadingPCs
<1>6. CASE Loaded(ch) /\ Outcome.data # None
  <2>1. /\ chains' = [chains EXCEPT ![ch].pc = "create", ![ch].data = Outcome.data]
        /\ idCache' = idCache /\ chains[ch].pc = "load"
    BY <1>6 DEF Loaded, Answered
  <2>2. /\ chains'[ch].id = chains[ch].id
        /\ \A o \in Chains : o # ch => chains'[o] = chains[o]
    BY <1>2, <2>1
  <2> QED
    BY <2>1, <2>2 DEF LoadsFirst, LoadingPCs
<1>7. CASE RemoveFromCache(ch)
  <2>1. /\ chains' = [chains EXCEPT ![ch].pc = "delete"]
        /\ idCache' = [idCache EXCEPT ![chains[ch].id] = None]
    BY <1>7 DEF RemoveFromCache
  <2>2. /\ chains'[ch].pc = "delete"
        /\ \A o \in Chains : o # ch => chains'[o] = chains[o]
    BY <1>2, <2>1
  <2>3. \A id \in Ids : idCache'[id] \in {None, idCache[id]}
    BY <1>1, <2>1
  <2> QED
    BY <2>2, <2>3 DEF LoadsFirst, LoadingPCs
<1>8. CASE AddToCache(ch)
  <2>1. /\ chains[ch].pc = "create" /\ idCache' = [idCache EXCEPT ![chains[ch].id] = Len(objs) + 1]
    BY <1>8 DEF AddToCache
  <2>2. \A id \in Ids : idCache'[id] # idCache[id] => chains[ch].id = id
    BY <1>1, <2>1
  <2>3. CASE chains[ch].data.ref = None
    BY <1>8, <2>1, <2>2, <2>3, AddedEnds, EndLoads DEF LoadsFirst
  <2>4. CASE chains[ch].data.ref # None
    <3> DEFINE ref == <<ch[1], "reference">>
    <3>1. chains' = [chains EXCEPT
             ![ch].pc = "reference", ![ch].obj = Len(objs) + 1, ![ch].data = None,
             ![ref] = [Idle EXCEPT !.pc = "begun", !.op = "get", !.id = chains[ch].data.ref]]
      BY <1>8, <2>4 DEF AddToCache
    <3> HIDE DEF ref
    <3>2. ASSUME NEW o \in Chains, chains'[o].pc \in LoadingPCs PROVE chains'[o] = chains[o]
      <4>1. CASE o = ref
        BY <1>1, <3>1, <3>2, <4>1 DEF Idle, LoadingPCs
      <4>2. CASE o = ch /\ o # ref
        BY <1>1, <3>1, <3>2, <4>2 DEF ChainRecords, LoadingPCs
      <4>3. CASE o # ch /\ o # ref
        BY <1>1, <3>1, <4>3
      <4> QED
        BY <4>1, <4>2, <4>3
    <3> QED
      BY <2>1, <2>2, <3>2 DEF LoadsFirst
  <2> QED
    BY <2>3, <2>4
<1>9. CASE NotExists(ch) \/ CacheHit(ch) \/ (Loaded(ch) /\ Outcome.data = None)
           \/ Removed(ch) \/ PutDone(ch)
  <2>1. \E ending, instance : EndsWith(ch, ending, instance, objs)
    BY <1>9, NotExistsEnds, CacheHitEnds, NoRecordEnds, RemovedEnds, PutDoneEnds
  <2>2. idCache' = idCache
    BY <1>9 DEF NotExists, CacheHit, Loaded, Removed, PutDone
  <2> QED
    BY <2>1, <2>2, EndLoads DEF LoadsFirst
<1> QED
  BY <1>3, <1>4, <1>5, <1>6, <1>7, <1>8, <1>9

LEMMA ClientLoads ==
  ASSUME TidyInv, Client
  PROVE  LoadsFirst
<1>1. chains \in [Chains -> ChainRecords]
  BY DEF TidyInv, AbsddbShapes
<1>2. ASSUME NEW c \in Clients, NEW op, NEW id, Call(c, op, id), idCache' = idCache
      PROVE  LoadsFirst
  BY <1>1, <1>2 DEF LoadsFirst, LoadingPCs, Call, Begin, Idle
<1>3. ASSUME NEW c \in Clients, NEW id \in Ids, Get(c, id) PROVE LoadsFirst
  BY <1>2, <1>3 DEF Get
<1>4. ASSUME NEW c \in Clients, Remove(c) PROVE LoadsFirst
  BY <1>2, <1>4 DEF Remove
<1>5. ASSUME NEW c \in Clients, Put(c) PROVE LoadsFirst
  <2>1. idCache' = idCache
    BY <1>5 DEF Put
  <2>2. \/ chains' = chains
        \/ \E new : new.pc = "put" /\ chains' = [chains EXCEPT ![CallOf(c)] = new]
    BY <1>5 DEF Put, CallOf
  <2> QED
    BY <1>1, <2>1, <2>2 DEF LoadsFirst, LoadingPCs
<1>6. ASSUME NEW c \in Clients, NEW v \in Vals, Modify(c, v) \/ \E id \in Ids : Create(c, id, v)
      PROVE  LoadsFirst
  BY <1>6 DEF Modify, Create, LoadsFirst
<1> QED
  BY <1>3, <1>4, <1>5, <1>6 DEF Client

\* Once an instance is in the cache, only gets that were loading its record by
\* then can still replace it, and no get begins to load it (sabsddb.py:378-379,
\* 432-433).
THEOREM CacheSettled == AbsddbSpec => CacheSettles
<1>1. ASSUME StoreInv, [AbsddbNext]_absddbVars PROVE LoadsFirst
  <2>1. TidyInv
    BY <1>1 DEF StoreInv
  <2>2. CASE Client
    BY <2>1, <2>2, ClientLoads
  <2>3. CASE Execute
    BY <2>3 DEF Execute, LoadsFirst
  <2>4. CASE EventLoop
    BY <2>1, <2>4, ChainLoads DEF EventLoop
  <2>5. CASE UNCHANGED absddbVars
    BY <2>5 DEF absddbVars, LoadsFirst
  <2> QED
    BY <1>1, <2>2, <2>3, <2>4, <2>5 DEF AbsddbNext
<1>2. ASSUME LoadsFirst, NEW id \in Ids, idCache[id] # None, idCache'[id] # None
      PROVE  /\ Loading(id)' \subseteq Loading(id)
             /\ Loading(id) = {} => idCache'[id] = idCache[id]
  <2>1. Loading(id)' \subseteq Loading(id)
    BY <1>2 DEF LoadsFirst, Loading, LoadingPCs
  <2>2. ASSUME idCache'[id] # idCache[id] PROVE Loading(id) # {}
    BY <1>2, <2>2 DEF LoadsFirst, Loading
  <2> QED
    BY <2>1, <2>2
<1>3. StoreInv /\ [AbsddbNext]_absddbVars =>
        \A id \in Ids : (idCache[id] # None /\ idCache'[id] # None) =>
          /\ Loading(id)' \subseteq Loading(id)
          /\ Loading(id) = {} => idCache'[id] = idCache[id]
  BY <1>1, <1>2
<1> QED
  BY <1>3, StoreInvHolds, PTL DEF AbsddbSpec, CacheSettles

-----------------------------------------------------------------------------
(* The pool's contract.                                                    *)

LEMMA StepUsesPool ==
  ASSUME StoreInv, [AbsddbNext]_absddbVars
  PROVE  [Executor!Next]_(Executor!vars)
<1>1. TidyInv /\ LineTypes /\ OneCallEach
  BY DEF StoreInv, TidyInv, AbsddbShapes, LineOK
<1> SUFFICES Executor!Next \/ UNCHANGED <<waiting, replies>>
  BY DEF Executor!vars
<1>2. ASSUME NEW c \in Clients, Put(c) PROVE Executor!Next \/ UNCHANGED <<waiting, replies>>
  <2>1. \/ UNCHANGED <<waiting, replies>>
        \/ Free(c) /\ waiting' = Append(waiting, CallOf(c)) /\ replies' = replies
    BY <1>2 DEF Put, CallOf
  <2>2. ASSUME Free(c), waiting' = Append(waiting, CallOf(c)), replies' = replies
        PROVE  Executor!Next
    <3>1. Executor!Accept(CallOf(c))
      BY <1>1, <2>2, CallHandedOver
    <3> QED
      BY <3>1, ChainsAre DEF Executor!Next
  <2> QED
    BY <2>1, <2>2
<1>3. ASSUME NEW c \in Clients, NEW id \in Ids, NEW v \in Vals,
             Get(c, id) \/ Remove(c) \/ Modify(c, v) \/ Create(c, id, v)
      PROVE  UNCHANGED <<waiting, replies>>
  BY <1>3 DEF Get, Remove, Modify, Create
<1>10. CASE Client
  BY <1>2, <1>3, <1>10 DEF Client, Get, Remove, Modify, Create
<1>4. CASE Execute
  <2>1. Result(Head(waiting)) \in Outcomes
    BY <1>1, <1>4, ResultIsOutcome DEF Execute
  <2> QED
    BY <1>4, <2>1 DEF Execute, Executor!Next
<1>5. ASSUME NEW ch \in Chains, CheckExists(ch) \/ Load(ch) PROVE Executor!Next
  BY <1>5 DEF CheckExists, Load, Executor!Next
<1>6. ASSUME NEW ch \in Chains,
             \/ NotExists(ch) \/ CacheHit(ch) \/ CacheMiss(ch) \/ Loaded(ch) \/ Removed(ch) \/ PutDone(ch)
      PROVE  Executor!Next
  <2>1. Executor!Answer(ch, Outcome)
    BY <1>6 DEF NotExists, CacheHit, CacheMiss, Loaded, Removed, PutDone, Answered, Outcome
  <2>2. Outcome \in Outcomes
    BY <1>1, <2>1, AnswerOnlyLine
  <2> QED
    BY <2>1, <2>2 DEF Executor!Next
<1>7. ASSUME NEW ch \in Chains, RemoveFromCache(ch) PROVE Executor!Next
  <2>1. Executor!AnswerThenAccept(ch, Outcome)
    BY <1>7 DEF RemoveFromCache
  <2>2. Outcome \in Outcomes
    BY <1>1, <2>1, AnswerThenAcceptLine
  <2> QED
    BY <2>1, <2>2 DEF Executor!Next
<1>8. ASSUME NEW ch \in Chains, AddToCache(ch) PROVE UNCHANGED <<waiting, replies>>
  BY <1>8 DEF AddToCache
<1>9. CASE UNCHANGED absddbVars
  BY <1>9 DEF absddbVars
<1> QED
  BY <1>10, <1>4, <1>5, <1>6, <1>7, <1>8, <1>9 DEF AbsddbNext, EventLoop

\* The storage uses the pool as it is meant to be used: a chain waits for one
\* call at a time (sabsddb.py, every "d.addCallback").  Pool implements that
\* contract (PoolRefinesExecutor).
THEOREM StorageUsesExecutor == AbsddbSpec => UsesSerialExecutor
<1>1. AbsddbInit => Executor!Init
  BY DEF AbsddbInit, Executor!Init
<1>2. StoreInv /\ [AbsddbNext]_absddbVars => [Executor!Next]_(Executor!vars)
  BY StepUsesPool
<1> QED
  BY <1>1, <1>2, StoreInvHolds, PTL DEF AbsddbSpec, UsesSerialExecutor, Executor!Spec

=============================================================================
