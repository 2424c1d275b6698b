-------------------------- MODULE TagService_proofs --------------------------
(***************************************************************************)
(* Proofs about module TagService, for any requests, gomees, names and     *)
(* number of faults: its types, that the first duplicate of a tag needs a  *)
(* race, and that a request which has its gomee to itself gives it the     *)
(* names asked for and loses none when it fails.                           *)
(***************************************************************************)
EXTENDS TagService, FiniteSetTheorems, TLAPS

\* What a request gives is among the identities, and Own in Made.
LEMMA OwnIsMade ==
  ASSUME TypeOK, NEW r \in Requests
  PROVE  /\ Own(r) \subseteq Made
         /\ \A l \in Made : l[1] \in Requests
<1>1. PICK n \in 0..MaxNames : wanted[r] \in [1..n -> Names]
  BY TagAssumption DEF TypeOK
<1>2. Own(r) \subseteq Ids
  BY <1>1, TagAssumption DEF Own, Ids
<1>3. \A i : <<r, i>>[1] = r
  OBVIOUS
<1>4. \A x \in Own(r) : x[1] = r
  BY <1>3 DEF Own
<1> QED
  BY <1>2, <1>4 DEF Made, Ids

\* The links and tags of a stage's calls are ones that may be made.
LEMMA WorkIsMade ==
  ASSUME TypeOK, NEW r \in Requests, NEW stage \in {"put_new", "remove_deleted", "put_cached", "where"}
  PROVE  Work(r, stage) \subseteq Made
<1>1. ToAdd(r) \subseteq Made /\ current[r] \subseteq Made
  BY OwnIsMade DEF ToAdd, TypeOK
<1> QED
  BY <1>1 DEF Work, New, ToDel, Kept

\* Each action keeps the requests, what they have found and have under way, and
\* what is stored to tags and links of names asked for (tag.py:23-144).
THEOREM Types == Spec => []TypeOK
<1>1. Init => TypeOK
  <2> SUFFICES ASSUME Init PROVE TypeOK
    OBVIOUS
  <2>1. /\ tagOf \in [Ids -> Ids \cup {None}]
        /\ pc \in [Requests -> Stages \cup {"idle", "done"}]
        /\ faults \in 0..MaxFaults
    BY TagAssumption DEF Init
  <2> QED
    BY <2>1 DEF Init, TypeOK
<1>2. TypeOK /\ [Next]_vars => TypeOK'
  <2> SUFFICES ASSUME TypeOK, [Next]_vars PROVE TypeOK'
    OBVIOUS
  <2> USE TagAssumption
  <2>1. ASSUME wanted' = wanted PROVE Made' = Made /\ \A r \in Requests : ToAdd(r) \subseteq Made
    BY <2>1, OwnIsMade DEF Made, Own, Ids, ToAdd
  <2>2. \A g : LinksOf(g) \subseteq Made
    BY DEF LinksOf, TypeOK
  <2>3. ASSUME NEW r \in Requests, SetTags(r) PROVE TypeOK'
    <3>1. Made' = Made
      BY <2>1, <2>3 DEF SetTags
    <3>2. /\ pc' \in [Requests -> Stages \cup {"idle", "done"}]
          /\ always' \in [Requests -> SUBSET Made] /\ ever' \in [Requests -> SUBSET Made]
          /\ before' \in [Requests -> SUBSET Made]
      BY <2>2, <2>3 DEF SetTags, TypeOK, Stages
    <3>3. rivals' \in [Requests -> SUBSET Requests]
      BY <2>3 DEF SetTags, TypeOK
    <3>4. \A q \in Requests : /\ always'[q] \subseteq ever'[q]
                              /\ todo'[q] # {} => pc'[q] \in DOMAIN After
      BY <2>3 DEF SetTags, TypeOK, After
    <3> QED
      BY <2>3, <3>1, <3>2, <3>3, <3>4 DEF SetTags, TypeOK
  <2>4. ASSUME NEW r \in Requests, GetCurrentTags(r) PROVE TypeOK'
    <3>1. Made' = Made
      BY <2>1, <2>4 DEF GetCurrentTags
    <3>2. /\ pc' \in [Requests -> Stages \cup {"idle", "done"}]
          /\ current' \in [Requests -> SUBSET Made]
          /\ always' \in [Requests -> SUBSET Made] /\ ever' \in [Requests -> SUBSET Made]
      BY <2>4 DEF GetCurrentTags, TypeOK, Stages
    <3>3. \A q \in Requests : /\ always'[q] \subseteq ever'[q]
                              /\ todo'[q] # {} => pc'[q] \in DOMAIN After
      BY <2>4 DEF GetCurrentTags, TypeOK, After
    <3> QED
      BY <2>4, <3>1, <3>2, <3>3 DEF GetCurrentTags, TypeOK
  <2>5. ASSUME NEW r \in Requests, GetExistingTags(r) PROVE TypeOK'
    <3>1. PICK f \in Found(r) :
            LET existing == {x \in ToAdd(r) : Cardinality(f[x]) = 1}
            IN Create(r, existing, {x \in ToAdd(r) : Name(x) \notin NamesOf(existing)}, f)
      BY <2>5 DEF GetExistingTags
    <3> DEFINE existing == {x \in ToAdd(r) : Cardinality(f[x]) = 1}
               create   == {x \in ToAdd(r) : Name(x) \notin NamesOf(existing)}
    <3>2. Made' = Made /\ create \subseteq Made
      BY <2>1, <3>1 DEF Create
    <3>3. \A x \in existing : (CHOOSE t \in f[x] : TRUE) \in Ids
      <4> SUFFICES ASSUME NEW x \in existing PROVE \E t \in f[x] : t \in Ids /\ f[x] \subseteq Ids
        OBVIOUS
      <4>1. f[x] \subseteq tags /\ tags \subseteq Ids
        BY DEF Found, TypeOK, Made
      <4>2. f[x] # {}
        BY FS_EmptySet
      <4> QED
        BY <4>1, <4>2
    <3>4. tagOf' \in [Ids -> Ids \cup {None}]
      BY <3>1, <3>3 DEF Create, TypeOK
    <3> HIDE DEF existing
    <3>5. /\ pc' = [pc EXCEPT ![r] = "put_tags"] /\ todo' = [todo EXCEPT ![r] = create]
          /\ always' = [always EXCEPT ![r] = {}] /\ ever' = [ever EXCEPT ![r] = {}]
          /\ UNCHANGED <<gomee, wanted, alive, tags, links, ok, current, faults, before, rivals>>
      BY <3>1 DEF Create, existing
    <3>6. /\ pc' \in [Requests -> Stages \cup {"idle", "done"}]
          /\ todo' \in [Requests -> SUBSET Made]
          /\ always' \in [Requests -> SUBSET Made] /\ ever' \in [Requests -> SUBSET Made]
      BY <3>2, <3>5 DEF TypeOK, Stages
    <3>7. \A q \in Requests : /\ always'[q] \subseteq ever'[q]
                              /\ todo'[q] # {} => pc'[q] \in DOMAIN After
      BY <3>5 DEF TypeOK, After
    <3> QED
      BY <3>2, <3>4, <3>5, <3>6, <3>7 DEF TypeOK
  <2>6. ASSUME NEW r \in Requests, Proceed(r) PROVE TypeOK'
    <3> DEFINE stage == After[pc[r]]
    <3>1. stage \in {"put_new", "remove_deleted", "put_cached", "where"}
      BY <2>6 DEF Proceed, After
    <3>2. Made' = Made /\ Work(r, stage) \subseteq Made
      BY <2>1, <2>6, <3>1, WorkIsMade DEF Proceed, Enter
    <3>3. stage # "where" => stage \in DOMAIN After
      BY <3>1 DEF After
    <3>4. stage = "where" => Work(r, stage) = {}
      BY DEF Work
    <3> HIDE DEF stage
    <3>5. Enter(r, stage)
      BY <2>6 DEF Proceed, stage
    <3>6. /\ pc' \in [Requests -> Stages \cup {"idle", "done"}]
          /\ todo' \in [Requests -> SUBSET Made]
      BY <3>1, <3>2, <3>5 DEF Enter, TypeOK, Stages
    <3>7. /\ always' \in [Requests -> SUBSET Made] /\ ever' \in [Requests -> SUBSET Made]
          /\ \A q \in Requests : always'[q] \subseteq ever'[q]
      <4>1. CASE stage = "where"
        <5> DEFINE L == LinksOf(gomee[r])
        <5>1. /\ L \subseteq Made
              /\ always' = [always EXCEPT ![r] = L] /\ ever' = [ever EXCEPT ![r] = L]
          BY <2>2, <3>5, <4>1 DEF Enter
        <5> HIDE DEF L
        <5> QED
          BY <5>1 DEF TypeOK
      <4>2. CASE stage # "where"
        BY <3>5, <4>2 DEF Enter, TypeOK
      <4> QED
        BY <4>1, <4>2
    <3>8. \A q \in Requests : todo'[q] # {} => pc'[q] \in DOMAIN After
      BY <3>3, <3>4, <3>5 DEF Enter, TypeOK
    <3> QED
      BY <3>2, <3>5, <3>6, <3>7, <3>8 DEF Enter, TypeOK
  <2>7. ASSUME NEW r \in Requests, Answer(r) PROVE TypeOK'
    <3>1. Made' = Made
      BY <2>1, <2>7 DEF Answer
    <3> QED
      BY <2>7, <3>1 DEF Answer, TypeOK, After
  <2>8. ASSUME NEW r \in Requests, NEW x \in Ids, Call(r, x) PROVE TypeOK'
    <3>1. Made' = Made /\ x \in Made
      BY <2>1, <2>8 DEF Call, TypeOK
    <3>2. /\ tags' \subseteq Made /\ links' \subseteq Made
          /\ todo' \in [Requests -> SUBSET Made]
      BY <2>8, <3>1 DEF Call, TypeOK
    <3>3. /\ always' \in [Requests -> SUBSET Made] /\ ever' \in [Requests -> SUBSET Made]
          /\ \A q \in Requests : always'[q] \subseteq ever'[q]
      BY <2>8, <3>2 DEF Call, Walked, TypeOK
    <3>4. \A q \in Requests : todo'[q] # {} => pc'[q] \in DOMAIN After
      BY <2>8 DEF Call, TypeOK
    <3> QED
      BY <2>8, <3>1, <3>2, <3>3, <3>4 DEF Call, TypeOK
  <2>9. ASSUME NEW r \in Requests, NEW x \in Ids, CallFails(r, x) PROVE TypeOK'
    <3>1. Made' = Made
      BY <2>1, <2>9 DEF CallFails
    <3>2. /\ todo' \in [Requests -> SUBSET Made] /\ faults' \in 0..MaxFaults
          /\ \A q \in Requests : todo'[q] # {} => pc'[q] \in DOMAIN After
      BY <2>9 DEF CallFails, TypeOK
    <3> QED
      BY <2>9, <3>1, <3>2 DEF CallFails, TypeOK
  <2>10. ASSUME NEW r \in Requests, WhereFails(r) PROVE TypeOK'
    <3>1. Made' = Made
      BY <2>1, <2>10 DEF WhereFails
    <3>2. faults' \in 0..MaxFaults
      BY <2>10 DEF WhereFails, TypeOK
    <3> QED
      BY <2>10, <3>1, <3>2 DEF WhereFails, TypeOK
  <2>11. ASSUME NEW g \in Gomees, DelGomee(g) PROVE TypeOK'
    <3>1. Made' = Made
      BY <2>1, <2>11 DEF DelGomee
    <3> QED
      BY <2>11, <3>1 DEF DelGomee, TypeOK
  <2>12. CASE UNCHANGED vars
    <3>1. Made' = Made
      BY <2>1, <2>12 DEF vars
    <3> QED
      BY <2>12, <3>1 DEF vars, TypeOK
  <2> QED
    BY <2>3, <2>4, <2>5, <2>6, <2>7, <2>8, <2>9, <2>10, <2>11, <2>12 DEF Next, Step
<1> QED
  BY <1>1, <1>2, PTL DEF Spec

-----------------------------------------------------------------------------
(* What requests may do to each other.  Two that are under way know of     *)
(* each other, and the calls of each are about links of its own gomee.     *)

RivalsInv == \A q, r \in Requests : Running(q) /\ Running(r) /\ q # r => q \in rivals[r]

\* Only a call of set_gomee_tags sets a request running.
LEMMA RunningSteps ==
  ASSUME TypeOK, [Next]_vars, NEW q \in Requests, Running(q)'
  PROVE  Running(q) \/ SetTags(q)
<1>1. ASSUME NEW r \in Requests, SetTags(r) PROVE Running(q) \/ SetTags(q)
  BY <1>1 DEF SetTags, Running, TypeOK
<1>2. ASSUME NEW r \in Requests, GetCurrentTags(r) PROVE Running(q)
  BY <1>2 DEF GetCurrentTags, Running, TypeOK
<1>3. ASSUME NEW r \in Requests, GetExistingTags(r) PROVE Running(q)
  <2>1. PICK S \in SUBSET Ids : /\ todo' = [todo EXCEPT ![r] = S]
                               /\ pc' = [pc EXCEPT ![r] = "put_tags"] /\ ok' = ok
    BY <1>3, OwnIsMade DEF GetExistingTags, Create, Made, ToAdd
  <2>2. Running(r)
    BY <1>3 DEF GetExistingTags, Running
  <2> QED
    BY <2>1, <2>2 DEF Running, TypeOK
<1>4. ASSUME NEW r \in Requests, Proceed(r) PROVE Running(q)
  BY <1>4 DEF Proceed, Enter, Running, TypeOK, After
<1>5. ASSUME NEW r \in Requests, Answer(r) PROVE Running(q)
  BY <1>5 DEF Answer, Running, TypeOK
<1>6. ASSUME NEW r \in Requests, NEW x \in Ids, Call(r, x) PROVE Running(q)
  BY <1>6 DEF Call, Running, TypeOK
<1>7. ASSUME NEW r \in Requests, NEW x \in Ids, CallFails(r, x) PROVE Running(q)
  BY <1>7 DEF CallFails, Running, TypeOK
<1>8. ASSUME NEW r \in Requests, WhereFails(r) PROVE Running(q)
  BY <1>8 DEF WhereFails, Running, TypeOK
<1>9. ASSUME NEW g \in Gomees, DelGomee(g) PROVE Running(q)
  BY <1>9 DEF DelGomee, Running
<1>10. CASE UNCHANGED vars
  BY <1>10 DEF vars, Running
<1> QED
  BY <1>1, <1>2, <1>3, <1>4, <1>5, <1>6, <1>7, <1>8, <1>9, <1>10 DEF Next, Step

\* The rivals of a request change when one is called, and nothing else does
\* that a step can take away: its rivals, unless it is called itself, and the
\* tags grow.
LEMMA Growth ==
  ASSUME TypeOK, [Next]_vars
  PROVE  /\ gomee' = gomee /\ wanted' = wanted /\ tags \subseteq tags'
         /\ (\E r \in Requests : SetTags(r)) \/ (rivals' = rivals /\ before' = before)
<1>1. ASSUME NEW r \in Requests, GetExistingTags(r)
      PROVE  UNCHANGED <<gomee, wanted, tags, rivals, before>>
  BY <1>1 DEF GetExistingTags, Create
<1>2. ASSUME NEW r \in Requests, NEW x \in Ids, Call(r, x)
      PROVE  UNCHANGED <<gomee, wanted, rivals, before>> /\ tags \subseteq tags'
  BY <1>2 DEF Call
<1>3. ASSUME NEW r \in Requests, SetTags(r) PROVE UNCHANGED <<gomee, wanted, tags>>
  BY <1>3 DEF SetTags
<1>4. ASSUME NEW r \in Requests,
             GetCurrentTags(r) \/ Proceed(r) \/ Answer(r) \/ WhereFails(r)
      PROVE  UNCHANGED <<gomee, wanted, tags, rivals, before>>
  BY <1>4 DEF GetCurrentTags, Proceed, Enter, Answer, WhereFails
<1>5. ASSUME NEW r \in Requests, NEW x \in Ids, CallFails(r, x)
      PROVE  UNCHANGED <<gomee, wanted, tags, rivals, before>>
  BY <1>5 DEF CallFails
<1>6. ASSUME NEW g \in Gomees, DelGomee(g) PROVE UNCHANGED <<gomee, wanted, tags, rivals, before>>
  BY <1>6 DEF DelGomee
<1> QED
  BY <1>1, <1>2, <1>3, <1>4, <1>5, <1>6 DEF Next, Step, vars

\* The rivals of the others grow when a request is called.
LEMMA RivalsGrow ==
  ASSUME TypeOK, [Next]_vars, NEW q \in Requests, ~SetTags(q)
  PROVE  rivals[q] \subseteq rivals'[q] /\ before'[q] = before[q]
<1>1. ASSUME NEW r \in Requests, SetTags(r) PROVE rivals[q] \subseteq rivals'[q] /\ before'[q] = before[q]
  BY <1>1 DEF SetTags, TypeOK
<1> QED
  BY <1>1, Growth

LEMMA RivalsInvariant == Spec => []RivalsInv
<1>1. Init => RivalsInv
  BY DEF Init, RivalsInv, Running
<1>2. TypeOK /\ RivalsInv /\ [Next]_vars => RivalsInv'
  <2> SUFFICES ASSUME TypeOK, RivalsInv, [Next]_vars,
                      NEW q \in Requests, NEW r \in Requests,
                      Running(q)', Running(r)', q # r
               PROVE  q \in rivals'[r]
    BY DEF RivalsInv
  <2>1. CASE SetTags(q)
    <3>1. ~SetTags(r)
      BY <2>1 DEF SetTags, TypeOK
    <3>2. Running(r)
      BY <3>1, RunningSteps
    <3> QED
      BY <2>1, <3>2 DEF SetTags, TypeOK
  <2>2. CASE SetTags(r)
    <3>1. ~SetTags(q)
      BY <2>2 DEF SetTags, TypeOK
    <3>2. Running(q)
      BY <3>1, RunningSteps
    <3> QED
      BY <2>2, <3>2 DEF SetTags, TypeOK
  <2>3. CASE ~SetTags(q) /\ ~SetTags(r)
    BY <2>3, RunningSteps, RivalsGrow DEF RivalsInv
  <2> QED
    BY <2>1, <2>2, <2>3
<1> QED
  BY <1>1, <1>2, Types, PTL DEF Spec

-----------------------------------------------------------------------------
(* What a request works on: links of its own gomee, and in each stage what *)
(* is left of the work of the stage; and what it makes and has found gives *)
(* every name that was missing a tag.                                      *)

Given == {"put_tags", "put_new", "remove_deleted", "put_cached", "where"}

WorkOf(r) ==
  /\ pc[r] \in {"idle", "get_current_tags"} => current[r] = {}
  /\ \A l \in current[r] : gomee[l[1]] = gomee[r]
  /\ pc[r] \in {"get_current_tags", "where"} => \A l \in ever[r] : gomee[l[1]] = gomee[r]
  /\ pc[r] = "put_tags" => todo[r] \subseteq Own(r)
  /\ pc[r] \in {"put_new", "remove_deleted", "put_cached"} => todo[r] \subseteq Work(r, pc[r])
  /\ pc[r] \in Given => NamesOf(ToAdd(r)) \subseteq NamesOf(New(r))

WorkInv == \A r \in Requests : WorkOf(r)

\* A tag or link of a request is of its gomee.
LEMMA OwnGomee ==
  ASSUME NEW r \in Requests, NEW x \in Own(r)
  PROVE  x[1] = r /\ gomee[x[1]] = gomee[r]
BY DEF Own

\* create_and_add_tags gives the missing names of its request their tags and
\* touches nobody else's.
LEMMA CreateFrame ==
  ASSUME TypeOK, NEW r \in Requests, GetExistingTags(r)
  PROVE  /\ NamesOf(ToAdd(r))' \subseteq NamesOf(New(r))'
         /\ \A q \in Requests : q # r => (New(q))' = New(q)
         /\ todo'[r] \subseteq Own(r) /\ ever'[r] = {}
         /\ \A q \in Requests : q # r => /\ todo'[q] = todo[q] /\ ever'[q] = ever[q]
                                          /\ always'[q] = always[q]
         /\ pc' = [pc EXCEPT ![r] = "put_tags"]
         /\ UNCHANGED <<gomee, wanted, alive, tags, links, ok, current, faults, before, rivals>>
<1>1. PICK f \in Found(r) :
        LET existing == {x \in ToAdd(r) : Cardinality(f[x]) = 1}
        IN Create(r, existing, {x \in ToAdd(r) : Name(x) \notin NamesOf(existing)}, f)
  BY DEF GetExistingTags
<1> DEFINE existing == {x \in ToAdd(r) : Cardinality(f[x]) = 1}
           create   == {x \in ToAdd(r) : Name(x) \notin NamesOf(existing)}
<1>2. /\ tagOf' = [x \in Ids |-> IF x \in create THEN x
                                 ELSE IF x \in existing THEN CHOOSE t \in f[x] : TRUE
                                 ELSE tagOf[x]]
      /\ todo' = [todo EXCEPT ![r] = create]
      /\ always' = [always EXCEPT ![r] = {}] /\ ever' = [ever EXCEPT ![r] = {}]
      /\ pc' = [pc EXCEPT ![r] = "put_tags"]
      /\ UNCHANGED <<gomee, wanted, alive, tags, links, ok, current, faults, before, rivals>>
  BY <1>1 DEF Create
<1>3. /\ existing \subseteq ToAdd(r) /\ create \subseteq ToAdd(r)
      /\ \A x \in ToAdd(r) : x \in create \/ \E y \in existing : Name(y) = Name(x)
  BY DEF NamesOf
<1>4. \A q \in Requests : ToAdd(q) \subseteq Own(q) /\ ToAdd(q) \subseteq Ids
  BY OwnIsMade DEF ToAdd, Made
<1>5. \A x \in existing : (CHOOSE t \in f[x] : TRUE) \in Ids
  <2> SUFFICES ASSUME NEW x \in existing PROVE \E t \in f[x] : t \in Ids /\ f[x] \subseteq Ids
    OBVIOUS
  <2>1. f[x] \subseteq tags /\ tags \subseteq Ids
    BY DEF Found, TypeOK, Made
  <2>2. f[x] # {}
    BY FS_EmptySet
  <2> QED
    BY <2>1, <2>2
<1> HIDE DEF existing, create
<1>6. None \notin Ids
  BY TagAssumption DEF Ids
<1>7. \A x \in create \cup existing : tagOf'[x] # None
  BY <1>2, <1>3, <1>4, <1>5, <1>6
<1>8. \A x : Name(x)' = Name(x)
  BY <1>2 DEF Name
<1>9. \A q \in Requests : (ToAdd(q))' = ToAdd(q)
  BY <1>2, <1>8 DEF ToAdd, Own, NamesOf
<1>10. NamesOf(ToAdd(r))' \subseteq NamesOf(New(r))'
  <2> SUFFICES ASSUME NEW x \in ToAdd(r) PROVE \E y \in (New(r))' : Name(y) = Name(x)
    BY <1>8, <1>9 DEF NamesOf
  <2>1. PICK y \in create \cup existing : Name(y) = Name(x)
    BY <1>3
  <2>2. y \in (New(r))'
    BY <1>3, <1>7, <1>9 DEF New
  <2> QED
    BY <2>1, <2>2
<1>11. ASSUME NEW q \in Requests, q # r PROVE (New(q))' = New(q)
  <2>1. ASSUME NEW x \in ToAdd(q) PROVE tagOf'[x] = tagOf[x]
    <3>1. x \in Ids /\ x[1] = q
      BY <1>4, OwnGomee
    <3>2. x \notin create /\ x \notin existing
      BY <1>3, <1>4, <1>11, <3>1, OwnGomee
    <3> QED
      BY <1>2, <3>1, <3>2
  <2> QED
    BY <1>9, <2>1 DEF New
<1> QED
  BY <1>2, <1>3, <1>4, <1>10, <1>11 DEF TypeOK

\* What a stage works on, while nothing gives the request's names other tags.
LEMMA WorkStays ==
  ASSUME UNCHANGED <<wanted, current>>, NEW r \in Requests
  PROVE  /\ (ToAdd(r))' = ToAdd(r) /\ (ToDel(r))' = ToDel(r) /\ (Kept(r))' = Kept(r)
         /\ (Own(r))' = Own(r) /\ (WantedBy(r))' = WantedBy(r)
         /\ \A x : Name(x)' = Name(x)
         /\ \A S : NamesOf(S)' = NamesOf(S)
BY DEF ToAdd, ToDel, Kept, Own, WantedBy, Name, NamesOf

\* What New and Work become with them, when the tags of the names do not change.
LEMMA NewStays ==
  ASSUME UNCHANGED <<wanted, current, tagOf>>, NEW r \in Requests
  PROVE  (New(r))' = New(r) /\ \A stage : Work(r, stage)' = Work(r, stage)
BY WorkStays DEF New, Work

\* The work of a request that a step leaves where it is.
LEMMA WorkFrame ==
  ASSUME NEW q \in Requests, WorkOf(q), UNCHANGED <<gomee, wanted>>,
         pc'[q] = pc[q], current'[q] = current[q], todo'[q] \subseteq todo[q],
         (New(q))' = New(q),
         \A l \in ever'[q] : l \in ever[q] \/ (pc[q] \in {"get_current_tags", "where"} => gomee[l[1]] = gomee[q])
  PROVE  WorkOf(q)'
<1>1. /\ (ToAdd(q))' = ToAdd(q) /\ (ToDel(q))' = ToDel(q) /\ (Kept(q))' = Kept(q)
      /\ (Own(q))' = Own(q) /\ \A S : NamesOf(S)' = NamesOf(S)
  BY DEF ToAdd, ToDel, Kept, Own, WantedBy, Name, NamesOf
<1>2. \A stage : Work(q, stage)' = Work(q, stage)
  BY <1>1 DEF Work
<1>3. /\ pc'[q] \in {"idle", "get_current_tags"} => current'[q] = {}
      /\ \A l \in current'[q] : gomee'[l[1]] = gomee'[q]
      /\ pc'[q] \in {"get_current_tags", "where"} => \A l \in ever'[q] : gomee'[l[1]] = gomee'[q]
  BY DEF WorkOf
<1>4. /\ pc'[q] = "put_tags" => todo'[q] \subseteq (Own(q))'
      /\ pc'[q] \in {"put_new", "remove_deleted", "put_cached"} => todo'[q] \subseteq Work(q, pc[q])'
      /\ pc'[q] \in Given => NamesOf(ToAdd(q))' \subseteq NamesOf(New(q))'
  BY <1>1, <1>2 DEF WorkOf
<1> QED
  BY <1>3, <1>4 DEF WorkOf

LEMMA WorkInvariant == Spec => []WorkInv
<1>1. Init => WorkInv
  BY DEF Init, WorkInv, WorkOf, Given
<1>2. TypeOK /\ WorkInv /\ [Next]_vars => WorkInv'
  <2> SUFFICES ASSUME TypeOK, WorkInv, [Next]_vars, NEW q \in Requests PROVE WorkOf(q)'
    BY DEF WorkInv
  <2>0. WorkOf(q)
    BY DEF WorkInv
  <2>1. ASSUME NEW r \in Requests, SetTags(r) PROVE WorkOf(q)'
    <3>1. CASE q # r
      <4>1. /\ pc'[q] = pc[q] /\ current'[q] = current[q] /\ todo'[q] = todo[q]
            /\ ever'[q] = ever[q] /\ UNCHANGED <<gomee, wanted, current, tagOf>>
        BY <2>1, <3>1 DEF SetTags, TypeOK
      <4> QED
        BY <2>0, <4>1, NewStays, WorkFrame
    <3>2. CASE q = r
      BY <2>0, <2>1, <3>2 DEF SetTags, WorkOf, LinksOf, TypeOK, Given
    <3> QED
      BY <3>1, <3>2
  <2>2. ASSUME NEW r \in Requests, GetCurrentTags(r) PROVE WorkOf(q)'
    <3>1. CASE q # r
      <4>1. /\ pc'[q] = pc[q] /\ current'[q] = current[q] /\ todo'[q] = todo[q]
            /\ ever'[q] = ever[q] /\ UNCHANGED <<gomee, wanted, tagOf>>
        BY <2>2, <3>1 DEF GetCurrentTags, TypeOK
      <4>2. (New(q))' = New(q)
        BY <4>1 DEF New, ToAdd, Own, Name, NamesOf
      <4> QED
        BY <2>0, <4>1, <4>2, WorkFrame
    <3>2. CASE q = r
      <4>1. current'[q] \subseteq ever[q] /\ pc'[q] = "get_existing_tags" /\ gomee' = gomee
        BY <2>2, <3>2 DEF GetCurrentTags, TypeOK
      <4> QED
        BY <2>0, <2>2, <3>2, <4>1 DEF GetCurrentTags, WorkOf, Given
    <3> QED
      BY <3>1, <3>2
  <2>3. ASSUME NEW r \in Requests, GetExistingTags(r) PROVE WorkOf(q)'
    <3>1. CASE q # r
      <4>1. pc'[q] = pc[q] /\ current'[q] = current[q]
        BY <2>3, <3>1, CreateFrame DEF TypeOK
      <4> QED
        BY <2>0, <2>3, <3>1, <4>1, CreateFrame, WorkFrame
    <3>2. CASE q = r
      <4>1. pc'[q] = "put_tags"
        BY <2>3, <3>2, CreateFrame DEF TypeOK
      <4>2. (Own(q))' = Own(q)
        BY <2>3, CreateFrame DEF Own
      <4> QED
        BY <2>0, <2>3, <3>2, <4>1, <4>2, CreateFrame DEF WorkOf
    <3> QED
      BY <3>1, <3>2
  <2>4. ASSUME NEW r \in Requests, Proceed(r) PROVE WorkOf(q)'
    <3>1. PICK stage \in {"put_new", "remove_deleted", "put_cached", "where"} :
            Enter(r, stage) /\ pc[r] \in Given
      BY <2>4 DEF Proceed, After, Given
    <3>2. Enter(r, stage)
      BY <3>1
    <3>3. UNCHANGED <<gomee, wanted, current, tagOf, links>>
      BY <3>2 DEF Enter
    <3>4. CASE q # r
      <4>1. pc'[q] = pc[q] /\ todo'[q] = todo[q] /\ ever'[q] = ever[q]
        BY <3>2, <3>4 DEF Enter, TypeOK
      <4> QED
        BY <2>0, <3>3, <4>1, NewStays, WorkFrame
    <3>5. CASE q = r
      <4>1. /\ pc'[q] = stage /\ todo'[q] = Work(q, stage)
            /\ stage = "where" => ever'[q] = LinksOf(gomee[q])
        BY <3>2, <3>5 DEF Enter, TypeOK
      <4>2. /\ todo'[q] = Work(q, stage)'
            /\ NamesOf(ToAdd(q))' \subseteq NamesOf(New(q))'
        BY <2>0, <3>1, <3>3, <3>5, <4>1, NewStays, WorkStays DEF WorkOf
      <4>3. stage = "where" => \A l \in ever'[q] : gomee[l[1]] = gomee[q]
        BY <4>1 DEF LinksOf
      <4>4. \A l \in current[q] : gomee[l[1]] = gomee[q]
        BY <2>0 DEF WorkOf
      <4> QED
        BY <3>1, <3>3, <4>1, <4>2, <4>3, <4>4 DEF WorkOf
    <3> QED
      BY <3>4, <3>5
  <2>5. ASSUME NEW r \in Requests, Answer(r) PROVE WorkOf(q)'
    <3>1. CASE q # r
      <4>1. /\ pc'[q] = pc[q] /\ todo'[q] = todo[q] /\ ever'[q] = ever[q]
            /\ UNCHANGED <<gomee, wanted, current, tagOf>>
        BY <2>5, <3>1 DEF Answer, TypeOK
      <4> QED
        BY <2>0, <4>1, NewStays, WorkFrame
    <3>2. CASE q = r
      BY <2>0, <2>5, <3>2 DEF Answer, WorkOf, Given, TypeOK
    <3> QED
      BY <3>1, <3>2
  <2>6. ASSUME NEW r \in Requests, NEW x \in Ids, Call(r, x) PROVE WorkOf(q)'
    <3>1. /\ pc' = pc /\ todo'[q] \subseteq todo[q] /\ UNCHANGED <<gomee, wanted, current, tagOf>>
          /\ \A l \in ever'[q] : l \in ever[q] \/ gomee[l[1]] = gomee[q]
      BY <2>6 DEF Call, Walked, TypeOK
    <3> QED
      BY <2>0, <3>1, NewStays, WorkFrame
  <2>7. ASSUME NEW r \in Requests, NEW x \in Ids, CallFails(r, x) PROVE WorkOf(q)'
    <3>1. todo'[q] \subseteq todo[q] /\ UNCHANGED <<pc, ever, gomee, wanted, current, tagOf>>
      BY <2>7 DEF CallFails, TypeOK
    <3> QED
      BY <2>0, <3>1, NewStays, WorkFrame
  <2>8. ASSUME UNCHANGED <<pc, ever, todo, gomee, wanted, current, tagOf>> PROVE WorkOf(q)'
    BY <2>0, <2>8, NewStays, WorkFrame
  <2>9. ASSUME NEW r \in Requests, WhereFails(r) PROVE WorkOf(q)'
    BY <2>8, <2>9 DEF WhereFails
  <2>10. ASSUME NEW g \in Gomees, DelGomee(g) PROVE WorkOf(q)'
    BY <2>8, <2>10 DEF DelGomee
  <2> QED
    BY <2>1, <2>2, <2>3, <2>4, <2>5, <2>6, <2>7, <2>8, <2>9, <2>10 DEF Next, Step, vars
<1> QED
  BY <1>1, <1>2, Types, PTL DEF Spec

-----------------------------------------------------------------------------
(* The duplicates.  The tags stored since a request was called are its     *)
(* rivals', until it makes its own.                                        *)

Unsettled == {"get_current_tags", "get_existing_tags"}

Excused(t) == Cardinality(Named(t, before[t[1]])) = 1 =>
                \E u \in Named(t, tags) : u[1] \in rivals[t[1]]

SeenOf(r) ==
  /\ pc[r] \in Unsettled \cup {"idle"} => \A t \in tags : t[1] # r
  /\ pc[r] \in Unsettled /\ r \in ok => \A t \in tags \ before[r] : t[1] \in rivals[r]
  /\ pc[r] = "get_existing_tags" => before[r] \subseteq always[r]
  /\ pc[r] # "idle" => before[r] \subseteq tags
  /\ pc[r] = "put_tags" => \A t \in todo[r] : Excused(t)

TagsInv ==
  /\ \A r \in Requests : SeenOf(r)
  /\ \A t \in tags : Excused(t)

\* An excuse holds for good.
LEMMA ExcusedStays ==
  ASSUME TypeOK, [Next]_vars, NEW t, t[1] \in Requests, ~SetTags(t[1]), Excused(t)
  PROVE  Excused(t)'
<1>1. \A T : Named(t, T)' = Named(t, T')
  BY Growth DEF Named, Name
<1>2. /\ before'[t[1]] = before[t[1]] /\ rivals[t[1]] \subseteq rivals'[t[1]]
      /\ tags \subseteq tags' /\ wanted' = wanted
  BY RivalsGrow, Growth
<1>3. \A x : Name(x)' = Name(x)
  BY <1>2 DEF Name
<1>4. Named(t, before[t[1]])' = Named(t, before[t[1]]) /\ Named(t, tags) \subseteq Named(t, tags)'
  BY <1>2, <1>3 DEF Named
<1> QED
  BY <1>2, <1>4 DEF Excused

\* A request makes a second tag of a name only after a rival has made one.
LEMMA CreatedExcused ==
  ASSUME TypeOK, NEW r \in Requests, SeenOf(r), GetExistingTags(r)
  PROVE  \A t \in todo'[r] : Excused(t)'
<1>1. PICK f \in Found(r) :
        LET existing == {x \in ToAdd(r) : Cardinality(f[x]) = 1}
        IN Create(r, existing, {x \in ToAdd(r) : Name(x) \notin NamesOf(existing)}, f)
  BY DEF GetExistingTags
<1>2. /\ todo'[r] = {x \in ToAdd(r) : Name(x) \notin NamesOf({y \in ToAdd(r) : Cardinality(f[y]) = 1})}
      /\ UNCHANGED <<wanted, tags, before, rivals>>
  BY <1>1 DEF Create, TypeOK
<1> SUFFICES ASSUME NEW t \in todo'[r], Cardinality(Named(t, before[t[1]])) = 1
             PROVE  \E u \in Named(t, tags) : u[1] \in rivals[t[1]]
  BY <1>2 DEF Excused, Named, Name
<1>3. t \in ToAdd(r) /\ t[1] = r /\ Cardinality(f[t]) # 1
  BY <1>2, OwnGomee DEF NamesOf, ToAdd
<1>4. Named(t, before[r]) \subseteq f[t] /\ f[t] \subseteq Named(t, tags)
  BY <1>3 DEF Found, Named, SeenOf, GetExistingTags
<1>5. PICK u \in f[t] : u \notin Named(t, before[r])
  <2>1. Cardinality(Named(t, before[r])) = 1
    BY <1>3
  <2>2. f[t] # Named(t, before[r])
    BY <1>3, <2>1
  <2> QED
    BY <1>4, <2>2
<1>6. u \in tags \ before[r]
  BY <1>4, <1>5 DEF Named
<1> QED
  BY <1>3, <1>4, <1>5, <1>6 DEF SeenOf, GetExistingTags, Unsettled

\* Nor does what is being stored lose its excuse.
LEMMA TodoExcused ==
  ASSUME TypeOK, WorkInv, [Next]_vars, NEW q \in Requests, SeenOf(q), pc[q] = "put_tags"
  PROVE  \A t \in todo[q] : Excused(t)'
<1> SUFFICES ASSUME NEW t \in todo[q] PROVE Excused(t)'
  OBVIOUS
<1>1. t[1] = q /\ ~SetTags(q)
  BY OwnGomee DEF SetTags, WorkInv, WorkOf
<1>2. Excused(t)
  BY DEF SeenOf
<1> QED
  BY <1>1, <1>2, ExcusedStays

\* What a step leaves of it, that neither calls, moves nor answers the request.
LEMMA SeenFrame ==
  ASSUME TypeOK, WorkInv, [Next]_vars, NEW q \in Requests, SeenOf(q),
         tags' = tags, pc'[q] = pc[q], ok' \subseteq ok, todo'[q] \subseteq todo[q],
         always'[q] = always[q], ~SetTags(q)
  PROVE  SeenOf(q)'
<1>1. rivals[q] \subseteq rivals'[q] /\ before'[q] = before[q]
  BY RivalsGrow
<1>2. pc'[q] = "put_tags" => \A t \in todo'[q] : Excused(t)'
  BY TodoExcused
<1> QED
  BY <1>1, <1>2 DEF SeenOf

LEMMA TagsInvariant == Spec => []TagsInv
<1>1. Init => TagsInv
  BY DEF Init, TagsInv, SeenOf, Unsettled
<1>2. TypeOK /\ WorkInv /\ RivalsInv /\ TagsInv /\ [Next]_vars => TagsInv'
  <2> SUFFICES ASSUME TypeOK, WorkInv, RivalsInv, TagsInv, [Next]_vars PROVE TagsInv'
    OBVIOUS
  <2>0. (\A t \in tags : t[1] \in Requests) /\ \A q \in Requests : SeenOf(q)
    BY OwnIsMade DEF TypeOK, Made, Ids, TagsInv
  <2>1. \A t \in tags : Excused(t)'
    <3> SUFFICES ASSUME NEW t \in tags PROVE Excused(t)'
      OBVIOUS
    <3>1. ~SetTags(t[1])
      BY <2>0 DEF SetTags, SeenOf
    <3> QED
      BY <2>0, <3>1, ExcusedStays DEF TagsInv
  <2>2. ASSUME NEW r \in Requests, SetTags(r) PROVE TagsInv'
    <3>1. ASSUME NEW q \in Requests, q # r PROVE SeenOf(q)'
      <4>1. /\ tags' = tags /\ pc'[q] = pc[q] /\ ok' = ok /\ todo'[q] = todo[q]
            /\ always'[q] = always[q]
        BY <2>2, <3>1 DEF SetTags, TypeOK
      <4>2. rivals[q] \subseteq rivals'[q] /\ before'[q] = before[q]
        BY <2>2, <3>1 DEF SetTags, TypeOK
      <4>3. pc[q] = "put_tags" => \A t \in todo[q] : Excused(t)'
        BY <2>0, TodoExcused
      <4> QED
        BY <2>0, <4>1, <4>2, <4>3 DEF SeenOf
    <3>2. SeenOf(r)'
      BY <2>0, <2>2 DEF SetTags, SeenOf, TypeOK, Unsettled
    <3> QED
      BY <2>1, <2>2, <3>1, <3>2 DEF TagsInv, SetTags
  <2>3. ASSUME NEW r \in Requests, GetCurrentTags(r) PROVE TagsInv'
    <3>1. ASSUME NEW q \in Requests, q # r PROVE SeenOf(q)'
      <4>1. /\ tags' = tags /\ pc'[q] = pc[q] /\ ok' = ok /\ todo'[q] = todo[q]
            /\ always'[q] = always[q] /\ rivals' = rivals /\ before' = before
        BY <2>3, <3>1 DEF GetCurrentTags, TypeOK
      <4>2. pc[q] = "put_tags" => \A t \in todo[q] : Excused(t)'
        BY <2>0, TodoExcused
      <4> QED
        BY <2>0, <4>1, <4>2 DEF SeenOf
    <3>2. SeenOf(r)'
      BY <2>0, <2>3 DEF GetCurrentTags, SeenOf, TypeOK, Unsettled
    <3> QED
      BY <2>1, <2>3, <3>1, <3>2 DEF TagsInv, GetCurrentTags
  <2>4. ASSUME NEW r \in Requests, GetExistingTags(r) PROVE TagsInv'
    <3>1. UNCHANGED <<tags, wanted, before, rivals, ok>> /\ pc' = [pc EXCEPT ![r] = "put_tags"]
      BY <2>4, CreateFrame
    <3>2. ASSUME NEW q \in Requests, q # r PROVE SeenOf(q)'
      <4>1. /\ pc'[q] = pc[q] /\ todo'[q] = todo[q] /\ always'[q] = always[q]
        BY <2>4, <3>1, <3>2, CreateFrame DEF TypeOK, GetExistingTags, Create
      <4>2. pc[q] = "put_tags" => \A t \in todo[q] : Excused(t)'
        BY <2>0, TodoExcused
      <4> QED
        BY <2>0, <3>1, <4>1, <4>2 DEF SeenOf
    <3>3. SeenOf(r)'
      <4>1. pc'[r] = "put_tags" /\ before[r] \subseteq tags
        BY <2>0, <2>4, <3>1 DEF SeenOf, TypeOK, GetExistingTags
      <4> QED
        BY <2>0, <2>4, <3>1, <4>1, CreatedExcused DEF SeenOf, Unsettled
    <3> QED
      BY <2>1, <3>1, <3>2, <3>3 DEF TagsInv
  <2>5. ASSUME NEW r \in Requests, Proceed(r) \/ Answer(r) PROVE TagsInv'
    <3>1. /\ UNCHANGED <<tags, wanted, before, rivals, ok>>
          /\ pc[r] \notin Unsettled \cup {"idle"}
          /\ pc'[r] \notin Unsettled \cup {"idle", "put_tags"}
      BY <2>5 DEF Proceed, Enter, Answer, After, Unsettled, TypeOK
    <3>2. ASSUME NEW q \in Requests, q # r PROVE SeenOf(q)'
      <4>1. /\ pc'[q] = pc[q] /\ todo'[q] = todo[q] /\ always'[q] = always[q]
        BY <2>5, <3>2 DEF TypeOK, Proceed, Enter, Answer
      <4>2. pc[q] = "put_tags" => \A t \in todo[q] : Excused(t)'
        BY <2>0, TodoExcused
      <4> QED
        BY <2>0, <3>1, <4>1, <4>2 DEF SeenOf
    <3>3. SeenOf(r)'
      BY <2>0, <3>1 DEF SeenOf, Unsettled
    <3> QED
      BY <2>1, <3>1, <3>2, <3>3 DEF TagsInv
  <2>6. ASSUME NEW r \in Requests, NEW x \in Ids, Call(r, x) PROVE TagsInv'
    <3>1. /\ UNCHANGED <<gomee, wanted, before, rivals, ok, pc>> /\ todo[r] # {}
          /\ tags' = IF pc[r] = "put_tags" THEN tags \cup {x} ELSE tags
          /\ \A q \in Requests : /\ todo'[q] \subseteq todo[q]
                                 /\ pc[q] = "get_existing_tags" => always'[q] = always[q]
      BY <2>6 DEF Call, Walked, TypeOK
    <3>2. pc[r] = "put_tags" => x[1] = r /\ Excused(x)'
      <4>1. pc[r] = "put_tags" => x[1] = r /\ Excused(x) /\ ~SetTags(r)
        BY <2>0, <2>6, OwnGomee DEF Call, WorkInv, WorkOf, SeenOf, SetTags
      <4> QED
        BY <4>1, ExcusedStays
    <3>3. ASSUME NEW q \in Requests PROVE SeenOf(q)'
      <4>1. /\ pc[q] \in Unsettled \cup {"idle"} => \A t \in tags' : t[1] # q
        BY <2>0, <3>1, <3>2 DEF SeenOf, Unsettled
      <4>2. pc[q] \in Unsettled /\ q \in ok => \A t \in tags' \ before[q] : t[1] \in rivals[q]
        <5>1. pc[r] = "put_tags" /\ pc[q] \in Unsettled /\ q \in ok => r \in rivals[q]
          BY <3>1 DEF RivalsInv, Running, Unsettled
        <5> QED
          BY <2>0, <3>1, <3>2, <5>1 DEF SeenOf
      <4>3. pc[q] = "put_tags" => \A t \in todo[q] : Excused(t)'
        BY <2>0, TodoExcused
      <4> QED
        BY <2>0, <3>1, <4>1, <4>2, <4>3 DEF SeenOf
    <3> QED
      BY <2>1, <3>1, <3>2, <3>3 DEF TagsInv
  <2>7. ASSUME tags' = tags, UNCHANGED <<pc, always>>, ok' \subseteq ok,
               \A q \in Requests : todo'[q] \subseteq todo[q] /\ ~SetTags(q)
        PROVE  TagsInv'
    BY <2>0, <2>1, <2>7, SeenFrame DEF TagsInv
  <2>8. ASSUME NEW r \in Requests, NEW x \in Ids, CallFails(r, x) PROVE TagsInv'
    BY <2>7, <2>8 DEF CallFails, TypeOK, SetTags, Stages
  <2>9. ASSUME NEW r \in Requests, WhereFails(r) PROVE TagsInv'
    BY <2>7, <2>9 DEF WhereFails, SetTags, TypeOK
  <2>10. ASSUME NEW g \in Gomees, DelGomee(g) PROVE TagsInv'
    BY <2>7, <2>10 DEF DelGomee, SetTags, TypeOK
  <2>11. CASE UNCHANGED vars
    BY <2>7, <2>11 DEF vars, SetTags, TypeOK
  <2> QED
    BY <2>2, <2>3, <2>4, <2>5, <2>6, <2>8, <2>9, <2>10, <2>11 DEF Next, Step
<1> QED
  BY <1>1, <1>2, Types, WorkInvariant, RivalsInvariant, PTL DEF Spec

\* When one tag of a name is stored before a call, the call makes another of
\* the name only if a request that overlaps it does (tag.py:55-69).
THEOREM DuplicatesNeedARival == Spec => []DuplicatesSpreadOnly
<1>1. TagsInv => DuplicatesSpreadOnly
  BY DEF TagsInv, Excused, DuplicatesSpreadOnly
<1> QED
  BY <1>1, TagsInvariant, PTL

-----------------------------------------------------------------------------
(* The links of a gomee that a request has to itself: those it has found,  *)
(* and in each stage of the persist those with what the stage has done.    *)

HeldOf(r) ==
  LET L == LinksOf(gomee[r]) IN
    /\ pc[r] = "get_current_tags" => always[r] = L /\ ever[r] = L
    /\ pc[r] \in {"get_existing_tags", "put_tags"} => L = current[r]
    /\ pc[r] = "put_new" => /\ current[r] \subseteq L /\ L \subseteq current[r] \cup New(r)
                            /\ r \in ok => New(r) \subseteq L \cup todo[r]
    /\ pc[r] = "remove_deleted" => /\ New(r) \cup Kept(r) \subseteq L
                                   /\ L \subseteq New(r) \cup current[r]
                                   /\ r \in ok => L \cap ToDel(r) \subseteq todo[r]
    /\ pc[r] \in {"put_cached", "where"} => L = New(r) \cup Kept(r)

LinksInv == \A r \in Requests : Running(r) /\ Alone(r) => HeldOf(r)

\* The links of a stage's work are of the gomee of the request.
LEMMA WorkGomee ==
  ASSUME NEW r \in Requests, WorkOf(r), NEW x \in todo[r],
         pc[r] \in {"put_tags", "put_new", "remove_deleted", "put_cached"}
  PROVE  /\ gomee[x[1]] = gomee[r]
         /\ pc[r] = "put_new" => x \in New(r)
         /\ pc[r] = "remove_deleted" => x \in ToDel(r)
         /\ pc[r] = "put_cached" => x \in New(r) \cup Kept(r)
<1>1. \A y \in Own(r) \cup current[r] : gomee[y[1]] = gomee[r]
  BY OwnGomee DEF WorkOf
<1>2. /\ pc[r] = "put_tags" => x \in Own(r)
      /\ pc[r] = "put_new" => x \in New(r)
      /\ pc[r] = "remove_deleted" => x \in ToDel(r)
      /\ pc[r] = "put_cached" => x \in New(r) \cup Kept(r)
  BY DEF WorkOf, Work
<1>3. New(r) \subseteq Own(r) /\ ToDel(r) \subseteq current[r] /\ Kept(r) \subseteq current[r]
  BY DEF New, ToAdd, ToDel, Kept
<1> QED
  BY <1>1, <1>2, <1>3

\* A link that is to be removed has another name than those to be kept or made.
LEMMA WorkApart ==
  ASSUME NEW r \in Requests
  PROVE  /\ ToDel(r) \cap (New(r) \cup Kept(r)) = {}
         /\ current[r] = ToDel(r) \cup Kept(r)
BY DEF ToDel, Kept, New, ToAdd, NamesOf

\* What a step of another leaves.
LEMMA HeldFrame ==
  ASSUME TypeOK, [Next]_vars, NEW q \in Requests, Running(q) /\ Alone(q) => HeldOf(q),
         Running(q)', Alone(q)', ~SetTags(q),
         pc'[q] = pc[q], current'[q] = current[q], (New(q))' = New(q),
         todo'[q] = todo[q], q \in ok' => q \in ok,
         LinksOf(gomee[q])' = LinksOf(gomee[q]),
         HeldOf(q) /\ pc[q] = "get_current_tags" => always'[q] = always[q] /\ ever'[q] = ever[q]
  PROVE  HeldOf(q)'
<1>1. gomee' = gomee /\ wanted' = wanted
  BY Growth
<1>2. HeldOf(q)
  BY <1>1, RunningSteps, RivalsGrow DEF Alone
<1>3. (ToDel(q))' = ToDel(q) /\ (Kept(q))' = Kept(q)
  BY <1>1 DEF ToDel, Kept, WantedBy, Name
<1> HIDE DEF HeldOf
<1> DEFINE L == LinksOf(gomee[q])
<1>4. L' = L
  OBVIOUS
<1> HIDE DEF L
<1> QED
  BY <1>2, <1>3, <1>4 DEF HeldOf, L

\* A call of another changes no link of a gomee that a request has to itself,
\* nor what its walk sees.
LEMMA CallElsewhere ==
  ASSUME TypeOK, RivalsInv, WorkInv, NEW q \in Requests, NEW r \in Requests, q # r,
         Running(q), Alone(q), NEW x \in Ids, Call(r, x)
  PROVE  /\ LinksOf(gomee[q])' = LinksOf(gomee[q])
         /\ HeldOf(q) /\ pc[q] = "get_current_tags" => always'[q] = always[q] /\ ever'[q] = ever[q]
<1>1. Running(r) /\ pc[r] \in {"put_tags", "put_new", "remove_deleted", "put_cached"}
  BY DEF Call, Running, TypeOK, After
<1>2. gomee[r] # gomee[q]
  BY <1>1 DEF RivalsInv, Alone
<1>3. gomee[x[1]] = gomee[r]
  BY <1>1, WorkGomee DEF Call, WorkInv
<1>4. gomee' = gomee /\ (links' = links \/ links' = links \cup {x} \/ links' = links \ {x})
  BY DEF Call
<1>5. LinksOf(gomee[q])' = LinksOf(gomee[q])
  BY <1>2, <1>3, <1>4 DEF LinksOf
<1>6. ASSUME HeldOf(q), pc[q] = "get_current_tags" PROVE always'[q] = always[q] /\ ever'[q] = ever[q]
  <2>1. always[q] = LinksOf(gomee[q]) /\ ever[q] = LinksOf(gomee[q])
    BY <1>6 DEF HeldOf
  <2>2. /\ always'[q] = always[q] \cap links'
        /\ ever'[q] = ever[q] \cup LinksOf(gomee[q])'
    BY <1>4, <1>6 DEF Call, Walked, LinksOf
  <2>3. LinksOf(gomee[q]) \subseteq links'
    BY <1>5, <1>4 DEF LinksOf
  <2> QED
    BY <1>5, <2>1, <2>2, <2>3
<1> QED
  BY <1>5, <1>6

\* A call of the request itself does one link of the stage.
LEMMA CallHere ==
  ASSUME TypeOK, WorkInv, NEW r \in Requests, HeldOf(r), NEW x \in Ids, Call(r, x)
  PROVE  HeldOf(r)'
<1> DEFINE L == LinksOf(gomee[r])
<1>1. /\ UNCHANGED <<gomee, wanted, tagOf, pc, ok, current>>
      /\ todo'[r] = todo[r] \ {x} /\ x \in todo[r]
  BY DEF Call, TypeOK
<1>2. /\ gomee[x[1]] = gomee[r]
      /\ pc[r] \in {"put_tags", "put_new", "remove_deleted", "put_cached"}
      /\ pc[r] = "put_new" => x \in New(r)
      /\ pc[r] = "remove_deleted" => x \in ToDel(r)
      /\ pc[r] = "put_cached" => x \in New(r) \cup Kept(r)
  BY <1>1, WorkGomee DEF TypeOK, After, WorkInv
<1>3. L' = CASE pc[r] = "put_tags"       -> L
             [] pc[r] = "remove_deleted" -> L \ {x}
             [] OTHER                    -> L \cup {x}
  BY <1>1, <1>2 DEF Call, LinksOf
<1>4. /\ (New(r))' = New(r) /\ (ToDel(r))' = ToDel(r) /\ (Kept(r))' = Kept(r)
      /\ ToDel(r) \cap (New(r) \cup Kept(r)) = {}
  BY <1>1, NewStays, WorkStays, WorkApart
<1> HIDE DEF L
<1>5. CASE pc[r] = "put_tags"
  BY <1>1, <1>3, <1>4, <1>5 DEF HeldOf, L
<1>6. CASE pc[r] = "put_new"
  BY <1>1, <1>2, <1>3, <1>4, <1>6 DEF HeldOf, L
<1>7. CASE pc[r] = "remove_deleted"
  BY <1>1, <1>2, <1>3, <1>4, <1>7 DEF HeldOf, L
<1>8. CASE pc[r] = "put_cached"
  BY <1>1, <1>2, <1>3, <1>4, <1>8 DEF HeldOf, L
<1> QED
  BY <1>2, <1>5, <1>6, <1>7, <1>8

\* When the calls of a stage are answered the links are those the next begins with.
LEMMA ProceedHere ==
  ASSUME TypeOK, WorkInv, NEW r \in Requests, HeldOf(r), Proceed(r)
  PROVE  HeldOf(r)'
<1> DEFINE L == LinksOf(gomee[r])
<1>1. PICK stage \in {"put_new", "remove_deleted", "put_cached", "where"} :
        /\ Enter(r, stage)
        /\ stage = "put_new" => pc[r] = "put_tags"
        /\ stage = "remove_deleted" => pc[r] = "put_new"
        /\ stage = "put_cached" => pc[r] = "remove_deleted"
        /\ stage = "where" => pc[r] = "put_cached"
  BY DEF Proceed, After
<1>2. /\ UNCHANGED <<gomee, wanted, tagOf, links, ok, current>> /\ pc'[r] = stage
      /\ todo'[r] = Work(r, stage) /\ r \in ok /\ todo[r] = {}
  BY <1>1 DEF Enter, Proceed, TypeOK
<1>3. /\ (New(r))' = New(r) /\ (ToDel(r))' = ToDel(r) /\ (Kept(r))' = Kept(r)
      /\ current[r] = ToDel(r) \cup Kept(r)
      /\ L' = L
  BY <1>2, NewStays, WorkStays, WorkApart DEF LinksOf
<1> HIDE DEF L
<1>4. CASE stage = "put_new"
  BY <1>1, <1>2, <1>3, <1>4 DEF HeldOf, L, Work
<1>5. CASE stage = "remove_deleted"
  BY <1>1, <1>2, <1>3, <1>5 DEF HeldOf, L, Work
<1>6. CASE stage = "put_cached"
  BY <1>1, <1>2, <1>3, <1>6 DEF HeldOf, L, Work
<1>7. CASE stage = "where"
  BY <1>1, <1>2, <1>3, <1>7 DEF HeldOf, L, Work
<1> QED
  BY <1>4, <1>5, <1>6, <1>7

LEMMA LinksInvariant == Spec => []LinksInv
<1>1. Init => LinksInv
  BY DEF Init, LinksInv, Running
<1>2. TypeOK /\ RivalsInv /\ WorkInv /\ LinksInv /\ [Next]_vars => LinksInv'
  <2> SUFFICES ASSUME TypeOK, RivalsInv, WorkInv, LinksInv, [Next]_vars,
                      NEW q \in Requests, Running(q)', Alone(q)'
               PROVE  HeldOf(q)'
    BY DEF LinksInv
  <2>0. /\ gomee' = gomee /\ wanted' = wanted
        /\ Running(q) /\ Alone(q) => HeldOf(q)
        /\ ~SetTags(q) => Running(q) /\ Alone(q) /\ HeldOf(q)
    BY Growth, RunningSteps, RivalsGrow DEF Alone, LinksInv
  <2>1. ASSUME NEW r \in Requests, SetTags(r) PROVE HeldOf(q)'
    <3>1. CASE q # r
      <4>1. /\ pc'[q] = pc[q] /\ always'[q] = always[q] /\ ever'[q] = ever[q] /\ ~SetTags(q)
            /\ UNCHANGED <<gomee, wanted, links, tagOf, current, todo, ok>>
        BY <2>1, <3>1 DEF SetTags, TypeOK
      <4>2. LinksOf(gomee[q])' = LinksOf(gomee[q]) /\ (New(q))' = New(q)
        BY <4>1, NewStays DEF LinksOf
      <4> QED
        BY <2>0, <4>1, <4>2, HeldFrame
    <3>2. CASE q = r
      <4>1. /\ pc'[q] = "get_current_tags" /\ links' = links /\ gomee' = gomee
            /\ always'[q] = LinksOf(gomee[q]) /\ ever'[q] = LinksOf(gomee[q])
        BY <2>1, <3>2 DEF SetTags, TypeOK
      <4>2. LinksOf(gomee[q])' = LinksOf(gomee[q])
        BY <4>1 DEF LinksOf
      <4> QED
        BY <4>1, <4>2 DEF HeldOf
    <3> QED
      BY <3>1, <3>2
  <2>2. ASSUME NEW r \in Requests, GetCurrentTags(r) PROVE HeldOf(q)'
    <3>1. /\ UNCHANGED <<gomee, wanted, links, tagOf, todo, ok>> /\ pc[r] = "get_current_tags"
          /\ pc' = [pc EXCEPT ![r] = "get_existing_tags"]
          /\ LinksOf(gomee[q])' = LinksOf(gomee[q]) /\ ~SetTags(q)
      BY <2>2 DEF GetCurrentTags, LinksOf, SetTags, TypeOK
    <3>2. CASE q # r
      <4>1. /\ pc'[q] = pc[q] /\ current'[q] = current[q]
            /\ always'[q] = always[q] /\ ever'[q] = ever[q]
        BY <2>2, <3>2 DEF GetCurrentTags, TypeOK
      <4>2. (New(q))' = New(q)
        BY <3>1, <4>1 DEF New, ToAdd, Own, Name, NamesOf
      <4> QED
        BY <2>0, <3>1, <4>1, <4>2, HeldFrame
    <3>3. CASE q = r
      <4>1. always[q] \subseteq current'[q] /\ current'[q] \subseteq ever[q]
        BY <2>2, <3>3 DEF GetCurrentTags, TypeOK
      <4>2. current'[q] = LinksOf(gomee[q]) /\ pc'[q] = "get_existing_tags"
        BY <2>0, <3>1, <3>3, <4>1 DEF HeldOf, TypeOK
      <4> QED
        BY <3>1, <4>2 DEF HeldOf
    <3> QED
      BY <3>2, <3>3
  <2>3. ASSUME NEW r \in Requests, GetExistingTags(r) PROVE HeldOf(q)'
    <3>1. /\ UNCHANGED <<gomee, wanted, links, ok, current>> /\ pc[r] = "get_existing_tags"
          /\ pc' = [pc EXCEPT ![r] = "put_tags"]
          /\ LinksOf(gomee[q])' = LinksOf(gomee[q]) /\ ~SetTags(q)
      <4>1. /\ UNCHANGED <<gomee, wanted, links, ok, current>> /\ pc[r] = "get_existing_tags"
            /\ pc' = [pc EXCEPT ![r] = "put_tags"]
        BY <2>3, CreateFrame DEF GetExistingTags
      <4>2. ~SetTags(q)
        BY <4>1 DEF SetTags, TypeOK
      <4> QED
        BY <4>1, <4>2 DEF LinksOf
    <3>2. CASE q # r
      <4>1. /\ pc'[q] = pc[q] /\ todo'[q] = todo[q] /\ (New(q))' = New(q)
            /\ always'[q] = always[q] /\ ever'[q] = ever[q]
        BY <2>3, <3>1, <3>2, CreateFrame DEF TypeOK
      <4> QED
        BY <2>0, <3>1, <4>1, HeldFrame
    <3>3. CASE q = r
      <4>1. LinksOf(gomee[q]) = current[q] /\ pc'[q] = "put_tags"
        BY <2>0, <3>1, <3>3 DEF HeldOf, TypeOK
      <4> QED
        BY <3>1, <4>1 DEF HeldOf
    <3> QED
      BY <3>2, <3>3
  <2>4. ASSUME NEW r \in Requests, Proceed(r) PROVE HeldOf(q)'
    <3>1. ~SetTags(q)
      BY <2>4 DEF Proceed, After, SetTags, Enter, TypeOK
    <3>2. CASE q # r
      <4>1. PICK stage : Enter(r, stage)
        BY <2>4 DEF Proceed
      <4>2. /\ pc'[q] = pc[q] /\ todo'[q] = todo[q] /\ always'[q] = always[q] /\ ever'[q] = ever[q]
            /\ UNCHANGED <<gomee, wanted, links, tagOf, current, ok>>
        BY <3>2, <4>1 DEF Enter, TypeOK
      <4>3. LinksOf(gomee[q])' = LinksOf(gomee[q]) /\ (New(q))' = New(q)
        BY <4>2, NewStays DEF LinksOf
      <4> QED
        BY <2>0, <3>1, <4>2, <4>3, HeldFrame
    <3> QED
      BY <2>0, <2>4, <3>1, <3>2, ProceedHere
  <2>5. ASSUME NEW r \in Requests, Answer(r) PROVE HeldOf(q)'
    <3>1. /\ UNCHANGED <<gomee, wanted, links, tagOf, current, todo, ok>> /\ ~SetTags(q)
          /\ pc' = [pc EXCEPT ![r] = "done"]
      BY <2>5 DEF Answer, SetTags, TypeOK
    <3>2. CASE q # r
      <4>1. /\ pc'[q] = pc[q] /\ always'[q] = always[q] /\ ever'[q] = ever[q]
        BY <2>5, <3>2 DEF Answer, TypeOK
      <4>2. LinksOf(gomee[q])' = LinksOf(gomee[q]) /\ (New(q))' = New(q)
        BY <3>1, NewStays DEF LinksOf
      <4> QED
        BY <2>0, <3>1, <4>1, <4>2, HeldFrame
    <3>3. CASE q = r
      BY <3>1, <3>3 DEF Running, TypeOK
    <3> QED
      BY <3>2, <3>3
  <2>6. ASSUME NEW r \in Requests, NEW x \in Ids, Call(r, x) PROVE HeldOf(q)'
    <3>1. ~SetTags(q) /\ UNCHANGED <<pc, current, ok>> /\ (New(q))' = New(q)
      BY <2>6, NewStays DEF Call, SetTags, TypeOK
    <3>2. CASE q # r
      <4>1. todo'[q] = todo[q]
        BY <2>6, <3>2 DEF Call, TypeOK
      <4> QED
        BY <2>0, <2>6, <3>1, <3>2, <4>1, CallElsewhere, HeldFrame
    <3> QED
      BY <2>0, <2>6, <3>1, <3>2, CallHere
  <2>7. ASSUME NEW r \in Requests, NEW x \in Ids, CallFails(r, x) PROVE HeldOf(q)'
    <3>1. /\ UNCHANGED <<gomee, wanted, links, tagOf, pc, current, always, ever>> /\ ~SetTags(q)
          /\ ok' = ok \ {r} /\ todo' = [todo EXCEPT ![r] = @ \ {x}]
      BY <2>7 DEF CallFails, SetTags, TypeOK
    <3>2. /\ LinksOf(gomee[q])' = LinksOf(gomee[q])
          /\ (New(q))' = New(q) /\ (ToDel(q))' = ToDel(q) /\ (Kept(q))' = Kept(q)
      BY <3>1, NewStays, WorkStays DEF LinksOf
    <3>3. CASE q # r
      BY <2>0, <3>1, <3>2, <3>3, HeldFrame DEF TypeOK
    <3>4. CASE q = r
      <4>1. q \notin ok'
        BY <3>1, <3>4
      <4> QED
        BY <2>0, <3>1, <3>2, <4>1 DEF HeldOf
    <3> QED
      BY <3>3, <3>4
  <2>8. ASSUME UNCHANGED <<gomee, wanted, links, tagOf, pc, current, always, ever, todo>>,
               q \in ok' => q \in ok, ~SetTags(q)
        PROVE  HeldOf(q)'
    <3>1. LinksOf(gomee[q])' = LinksOf(gomee[q]) /\ (New(q))' = New(q)
      BY <2>8, NewStays DEF LinksOf
    <3> QED
      BY <2>0, <2>8, <3>1, HeldFrame
  <2>9. ASSUME NEW r \in Requests, WhereFails(r) PROVE HeldOf(q)'
    BY <2>8, <2>9 DEF WhereFails, SetTags, TypeOK
  <2>10. ASSUME NEW g \in Gomees, DelGomee(g) PROVE HeldOf(q)'
    BY <2>8, <2>10 DEF DelGomee, SetTags, TypeOK
  <2>11. CASE UNCHANGED vars
    BY <2>8, <2>11 DEF vars, SetTags, TypeOK
  <2> QED
    BY <2>1, <2>2, <2>3, <2>4, <2>5, <2>6, <2>7, <2>9, <2>10, <2>11 DEF Next, Step
<1> QED
  BY <1>1, <1>2, Types, RivalsInvariant, WorkInvariant, PTL DEF Spec

\* Kept and new links together bear the names asked for and no others.
LEMMA NamesTogether ==
  ASSUME TypeOK, NEW r \in Requests, NamesOf(ToAdd(r)) \subseteq NamesOf(New(r))
  PROVE  NamesOf(New(r) \cup Kept(r)) = WantedBy(r)
<1>1. /\ \A i \in DOMAIN wanted[r] : <<r, i>> \in Own(r) /\ Name(<<r, i>>) = wanted[r][i]
      /\ \A x \in Own(r) : Name(x) \in WantedBy(r)
  BY DEF Own, Name, WantedBy
<1>2. NamesOf(New(r) \cup Kept(r)) \subseteq WantedBy(r)
  BY <1>1 DEF NamesOf, New, ToAdd, Kept, ToDel
<1>3. ASSUME NEW i \in DOMAIN wanted[r] PROVE \E l \in New(r) \cup Kept(r) : Name(l) = wanted[r][i]
  <2>1. CASE wanted[r][i] \in NamesOf(current[r])
    BY <2>1 DEF NamesOf, Kept, ToDel, WantedBy
  <2>2. CASE wanted[r][i] \notin NamesOf(current[r])
    BY <1>1, <2>2 DEF ToAdd, NamesOf
  <2> QED
    BY <2>1, <2>2
<1> QED
  BY <1>2, <1>3 DEF WantedBy, NamesOf

\* A call that overlaps no other about its gomee gives the gomee the names
\* asked for (tag.py:27-129).
THEOREM NamesGiven == Spec => []NamesAsWanted
<1>1. TypeOK /\ WorkInv /\ LinksInv => NamesAsWanted
  BY NamesTogether DEF NamesAsWanted, LinksInv, HeldOf, WorkInv, WorkOf, Given, Running
<1> QED
  BY <1>1, Types, WorkInvariant, LinksInvariant, PTL

\* A call that fails half way has removed nothing that it should keep, and
\* nothing at all unless the gomee has all the names asked for (tag.py:71-129).
THEOREM NamesSurvive == Spec => []NoNameLost
<1>1. TypeOK /\ WorkInv /\ LinksInv => NoNameLost
  <2> SUFFICES ASSUME TypeOK, WorkInv, LinksInv, NEW r \in Requests, Running(r), Alone(r)
               PROVE  /\ pc[r] # "get_current_tags" => Kept(r) \subseteq links
                      /\ ~(ToDel(r) \subseteq links) => WantedBy(r) \subseteq NamesOf(LinksOf(gomee[r]))
    BY DEF NoNameLost
  <2>1. HeldOf(r) /\ WorkOf(r) /\ LinksOf(gomee[r]) \subseteq links
    BY DEF LinksInv, WorkInv, LinksOf
  <2>2. /\ Kept(r) \subseteq current[r] /\ ToDel(r) \subseteq current[r]
        /\ pc[r] \in Stages
    BY DEF Kept, ToDel, Running, TypeOK
  <2>3. CASE pc[r] = "get_current_tags"
    BY <2>1, <2>2, <2>3 DEF WorkOf
  <2>4. CASE pc[r] \in {"get_existing_tags", "put_tags", "put_new"}
    BY <2>1, <2>2, <2>4 DEF HeldOf
  <2>5. CASE pc[r] \in {"remove_deleted", "put_cached", "where"}
    <3>1. New(r) \cup Kept(r) \subseteq LinksOf(gomee[r]) /\ pc[r] \in Given
      BY <2>1, <2>5 DEF HeldOf, Given
    <3>2. WantedBy(r) = NamesOf(New(r) \cup Kept(r))
      BY <2>1, <3>1, NamesTogether DEF WorkOf
    <3> QED
      BY <2>1, <2>5, <3>1, <3>2 DEF NamesOf
  <2> QED
    BY <2>2, <2>3, <2>4, <2>5 DEF Stages
<1> QED
  BY <1>1, Types, WorkInvariant, LinksInvariant, PTL

=============================================================================
