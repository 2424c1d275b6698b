-------------------------- MODULE Repository_proofs --------------------------
(***************************************************************************)
(* Proofs about Repository, for any sets of requests, identities and       *)
(* values: its types, what the order of the stages of persist guarantees,  *)
(* who can bring back what was removed, and when the shared instance of an *)
(* entity agrees with its record.  RepositoryInv says which storage calls  *)
(* a request can have under way at each stage and what the stages before   *)
(* have left; RemovedInv who has seen an entity since it was removed; and  *)
(* AgreeInv who still owes a put of a change to the shared instance.       *)
(***************************************************************************)
EXTENDS Repository, TLAPS

\* The calls of a request belong to the stage it is in, or to the one it
\* failed in.
CallsFit(r) ==
  \A c \in calls : c.req = r =>
    /\ c.kind \in {"get", "create"} => deleted[r] = {} /\ pc[r] \in {"fetch", "failed"}
    /\ c.kind = "create" => heap[c.id][r] # None
    /\ c.kind = "put" => cache[r][c.id] # None
                         /\ pc[r] \in {"put_new", "put_cached", "failed"}
    /\ c.kind = "remove" => /\ c.id \in deleted[r]
                            /\ new[r] \subseteq puts[r]
                            /\ pc[r] \in {"remove_deleted", "failed"}

\* The instance in id_cache was made, and so was that of a deleted entity.
InstancesMade ==
  /\ \A id \in Ids : idCache[id] # None => heap[id][idCache[id]] # None
  /\ \A r \in Requests : \A id \in deleted[r] : \E m \in Requests : heap[id][m] # None

\* What the stages up to the present one have done, or have under way.
StagesDone(r) ==
  /\ removed[r] \subseteq deleted[r]
  /\ pc[r] \in {"idle", "fetch", "put_new"} => removed[r] = {}
  /\ pc[r] = "put_new" => \A id \in new[r] : id \in puts[r] \/ Call(r, "put", id) \in calls
  /\ pc[r] \in {"remove_deleted", "put_cached", "ok"} => new[r] \subseteq puts[r]
  /\ pc[r] = "remove_deleted" =>
       \A id \in deleted[r] : id \in removed[r] \/ Call(r, "remove", id) \in calls
  /\ pc[r] \in {"put_cached", "ok"} => deleted[r] \subseteq removed[r]
  /\ pc[r] = "put_cached" =>
       \A id \in Held(r) : id \in puts[r] \/ Call(r, "put", id) \in calls
  /\ pc[r] = "ok" => Held(r) \subseteq puts[r]

RepositoryInv ==
  /\ TypeOK
  /\ InstancesMade
  /\ puts \in [Requests -> SUBSET Ids] /\ removed \in [Requests -> SUBSET Ids]
  /\ AddsBeforeRemovals
  /\ \A r \in Requests : CallsFit(r) /\ StagesDone(r)

-----------------------------------------------------------------------------
(* Helpers.                                                                *)

CallSet == [req : Requests, kind : Kinds, id : Ids]

\* A stage that is skipped had nothing to do.
LEMMA SkippedStages ==
  ASSUME NEW r \in Requests
  PROVE  /\ Work(r, "put_new") = {} => new[r] = {}
         /\ Work(r, "remove_deleted") = {} => deleted[r] = {}
         /\ Work(r, "put_cached") = {} => Held(r) = {}
         /\ Work(r, "ok") = {}
  BY DEF Work

\* What a step of another request leaves of the facts about s.
LEMMA OthersUnmoved ==
  ASSUME NEW s \in Requests, CallsFit(s), StagesDone(s), calls \subseteq CallSet,
         \A c \in calls' : c.req = s => c \in calls,
         \A c \in calls : c.req = s => c \in calls',
         pc'[s] = pc[s], cache'[s] = cache[s], new'[s] = new[s], deleted'[s] = deleted[s],
         puts'[s] = puts[s], removed'[s] = removed[s],
         \A id \in Ids : heap[id][s] # None => heap'[id][s] # None
  PROVE  CallsFit(s)' /\ StagesDone(s)'
  <1>1. CallsFit(s)'
    BY DEF CallsFit, CallSet
  <1>2. StagesDone(s)'
    <2>1. \A k \in Kinds, id \in Ids : Call(s, k, id) \in calls => Call(s, k, id) \in calls'
      BY DEF Call
    <2>2. Held(s)' = Held(s)
      BY DEF Held
    <2>3. \A id : (Call(s, "put", id) \in calls => Call(s, "put", id) \in calls')
                  /\ (Call(s, "remove", id) \in calls => Call(s, "remove", id) \in calls')
      BY DEF Call
    <2> QED
      BY <2>2, <2>3 DEF StagesDone
  <1> QED
    BY <1>1, <1>2

\* The chain of persist goes on: the stage that ends is complete, and so are
\* those that are skipped.
LEMMA Launched ==
  ASSUME RepositoryInv, NEW r \in Requests, NEW left,
         NEW stage \in {"idle", "put_new", "remove_deleted", "put_cached"},
         left \subseteq calls, \A c \in left : c.req # r,
         pc[r] = stage,
         UNCHANGED <<heap, cache, new, deleted>>,
         puts[r] \subseteq puts'[r], removed[r] \subseteq removed'[r],
         removed'[r] \subseteq deleted[r],
         stage \in {"idle", "put_new"} => removed'[r] = {},
         stage = "put_new" => new[r] \subseteq puts'[r],
         stage = "remove_deleted" => deleted[r] \subseteq removed'[r],
         stage = "put_cached" => Held(r) \subseteq puts'[r],
         Launch(r, stage, left)
  PROVE  /\ pc' \in [Requests -> {"idle", "fetch", "put_new", "remove_deleted", "put_cached",
                                  "ok", "failed"}]
         /\ calls' \subseteq CallSet
         /\ CallsFit(r)' /\ StagesDone(r)'
         /\ \A s \in Requests \ {r} : pc'[s] = pc[s]
         /\ \A c \in left : c \in calls'
         /\ \A c \in calls' : c.req # r => c \in left
  <1> DEFINE Skips(n, s) == s \in StagesAfter(stage) \ (StagesAfter(n) \cup {n})
  <1>1. PICK next \in StagesAfter(stage) \cup {"ok"} :
          /\ \A s : Skips(next, s) => Work(r, s) = {}
          /\ pc' = [pc EXCEPT ![r] = next]
          /\ calls' = left \cup Work(r, next)
    BY DEF Launch
  <1>2. next \in {"put_new", "remove_deleted", "put_cached", "ok"}
    BY DEF StagesAfter, Stages
  <1>3. pc'[r] = next /\ \A s \in Requests \ {r} : pc'[s] = pc[s]
    BY <1>1 DEF RepositoryInv, TypeOK
  <1>4. new[r] \subseteq Ids /\ deleted[r] \subseteq Ids /\ Held(r) \subseteq Ids
    BY DEF RepositoryInv, TypeOK, Held
  <1>5. \A c \in Work(r, next) :
          /\ c \in CallSet /\ c.req = r
          /\ next = "put_new" => c.kind = "put" /\ c.id \in new[r]
          /\ next = "remove_deleted" => c.kind = "remove" /\ c.id \in deleted[r]
          /\ next = "put_cached" => c.kind = "put" /\ c.id \in Held(r)
          /\ next # "ok"
    BY <1>2, <1>4 DEF Work, Call, CallSet, Kinds
  <1>6. /\ pc' \in [Requests -> {"idle", "fetch", "put_new", "remove_deleted", "put_cached",
                                  "ok", "failed"}]
        /\ calls' \subseteq CallSet
    BY <1>1, <1>2, <1>5 DEF RepositoryInv, TypeOK, CallSet
  <1>7. next # "put_new" => new[r] \subseteq puts'[r]
    <2>1. CASE stage = "idle"
      BY <2>1, <1>1, <1>2, SkippedStages DEF StagesAfter, Stages
    <2>2. CASE stage = "put_new"
      BY <2>2
    <2>3. CASE stage \in {"remove_deleted", "put_cached"}
      BY <2>3 DEF RepositoryInv, StagesDone
    <2> QED
      BY <2>1, <2>2, <2>3
  <1>8. next \in {"put_cached", "ok"} => deleted[r] \subseteq removed'[r]
    <2>1. CASE stage \in {"idle", "put_new"}
      BY <2>1, <1>1, SkippedStages DEF StagesAfter, Stages
    <2>2. CASE stage = "remove_deleted"
      BY <2>2
    <2>3. CASE stage = "put_cached"
      BY <2>3 DEF RepositoryInv, StagesDone
    <2> QED
      BY <2>1, <2>2, <2>3
  <1>9. next = "ok" => Held(r) \subseteq puts'[r]
    <2>1. CASE stage = "put_cached"
      BY <2>1
    <2>2. CASE stage # "put_cached"
      BY <2>2, <1>1, SkippedStages DEF StagesAfter, Stages
    <2> QED
      BY <2>1, <2>2
  <1>10. next = "put_new" => stage = "idle"
    BY DEF StagesAfter, Stages
  <1>11. next # stage
    BY DEF StagesAfter, Stages
  <1>12. Held(r)' = Held(r)
    BY DEF Held
  <1>13. CallsFit(r)'
    <2> SUFFICES ASSUME NEW c \in Work(r, next), c.req = r
                 PROVE  /\ c.kind \notin {"get", "create"}
                        /\ c.kind = "put" => cache[r][c.id] # None
                                             /\ next \in {"put_new", "put_cached"}
                        /\ c.kind = "remove" => /\ c.id \in deleted[r]
                                                /\ new[r] \subseteq puts'[r]
                                                /\ next = "remove_deleted"
      BY <1>1, <1>3 DEF CallsFit
    <2>1. c.kind = "put" => cache[r][c.id] # None
      BY <1>2, <1>5 DEF RepositoryInv, TypeOK, Held
    <2> QED
      BY <2>1, <1>2, <1>5, <1>7
  <1>14. StagesDone(r)'
    <2>1. next = "put_new" => \A id \in new[r] : Call(r, "put", id) \in calls'
      BY <1>1 DEF Work
    <2>2. next = "remove_deleted" => \A id \in deleted[r] : Call(r, "remove", id) \in calls'
      BY <1>1 DEF Work
    <2>3. next = "put_cached" => \A id \in Held(r) : Call(r, "put", id) \in calls'
      BY <1>1 DEF Work
    <2> QED
      BY <2>1, <2>2, <2>3, <1>2, <1>3, <1>7, <1>8, <1>9, <1>10, <1>12 DEF StagesDone
  <1> QED
    BY <1>1, <1>3, <1>5, <1>6, <1>13, <1>14

LEMMA InvariantInitially == Init => RepositoryInv
  <1> SUFFICES ASSUME Init PROVE RepositoryInv
    OBVIOUS
  <1>1. TypeOK
    BY RequestAssumption DEF Init, TypeOK, Makers
  <1>2. InstancesMade
    BY DEF Init, InstancesMade
  <1>3. puts \in [Requests -> SUBSET Ids] /\ removed \in [Requests -> SUBSET Ids]
        /\ AddsBeforeRemovals
    BY DEF Init, AddsBeforeRemovals
  <1>4. \A r \in Requests : CallsFit(r) /\ StagesDone(r)
    BY DEF Init, CallsFit, StagesDone
  <1> QED
    BY <1>1, <1>2, <1>3, <1>4 DEF RepositoryInv

-----------------------------------------------------------------------------
(* The steps of a request at work.                                         *)

LEMMA FetchKeepsInv ==
  ASSUME RepositoryInv, NEW r \in Requests, NEW S \in SUBSET Ids, Fetch(r, S)
  PROVE  RepositoryInv'
  <1> USE DEF Fetch, ghosts
  <1>1. TypeOK'
    BY DEF RepositoryInv, TypeOK, Call, Kinds
  <1>2. InstancesMade'
    BY DEF RepositoryInv, InstancesMade
  <1>3. (puts \in [Requests -> SUBSET Ids] /\ removed \in [Requests -> SUBSET Ids]
         /\ AddsBeforeRemovals)'
    BY DEF RepositoryInv, AddsBeforeRemovals
  <1>4. ASSUME NEW s \in Requests \ {r} PROVE CallsFit(s)' /\ StagesDone(s)'
    BY OthersUnmoved DEF RepositoryInv, TypeOK, Call, CallSet
  <1>5. CallsFit(r)' /\ StagesDone(r)'
    <2>1. pc'[r] = "fetch"
      BY DEF RepositoryInv, TypeOK
    <2>2. CallsFit(r)'
      <3>1. \A c \in calls : c.req # r
        BY DEF RepositoryInv, CallsFit, TypeOK, Kinds
      <3>2. \A c \in calls' : c.req = r => c.kind = "get"
        BY <3>1 DEF Call
      <3> QED
        BY <2>1, <3>2 DEF CallsFit
    <2>3. StagesDone(r)'
      BY <2>1 DEF RepositoryInv, StagesDone
    <2> QED
      BY <2>2, <2>3
  <1> QED
    BY <1>1, <1>2, <1>3, <1>4, <1>5 DEF RepositoryInv

LEMMA AddKeepsInv ==
  ASSUME RepositoryInv, NEW r \in Requests, NEW id \in Ids, NEW v \in Vals, Add(r, id, v)
  PROVE  RepositoryInv'
  <1> USE DEF Add, ghosts
  <1>1. v # None
    BY RequestAssumption
  <1>2. id \notin deleted[r] /\ \A s \in Requests : id \notin deleted[s]
    BY DEF RepositoryInv, InstancesMade, Fresh
  <1>3. \A i \in Ids, s \in Requests : heap[i][s] # None => heap'[i][s] # None
    BY <1>1 DEF RepositoryInv, TypeOK
  <1>4. /\ \A s \in Requests, i \in Ids : cache'[s][i] = IF s = r /\ i = id THEN r ELSE cache[s][i]
        /\ \A s \in Requests : new'[s] = IF s = r THEN new[s] \cup {id} ELSE new[s]
        /\ heap'[id][r] = v
        /\ \A s \in Requests \ {r} : cache'[s] = cache[s]
    BY DEF RepositoryInv, TypeOK
  <1>5. TypeOK'
    <2>1. /\ heap' \in [Ids -> [Requests -> Vals \cup {None}]]
          /\ cache' \in [Requests -> [Ids -> Makers]]
          /\ new' \in [Requests -> SUBSET Ids]
      BY DEF RepositoryInv, TypeOK, Makers
    <2>2. ASSUME NEW s \in Requests, NEW i \in Ids
          PROVE  /\ cache'[s][i] # None => heap'[i][cache'[s][i]] # None
                 /\ i \in new'[s] => cache'[s][i] # None
                 /\ i \in deleted'[s] => cache'[s][i] = None
      BY <1>1, <1>2, <1>3, <1>4, RequestAssumption DEF RepositoryInv, TypeOK, Makers
    <2> QED
      BY <2>1, <2>2 DEF RepositoryInv, TypeOK
  <1>6. InstancesMade'
    BY <1>3 DEF RepositoryInv, InstancesMade, TypeOK, Makers
  <1>7. removed[r] = {}
    BY DEF RepositoryInv, StagesDone
  <1>8. (puts \in [Requests -> SUBSET Ids] /\ removed \in [Requests -> SUBSET Ids]
         /\ AddsBeforeRemovals)'
    BY <1>4, <1>7 DEF RepositoryInv, AddsBeforeRemovals
  <1>9. ASSUME NEW s \in Requests \ {r} PROVE CallsFit(s)' /\ StagesDone(s)'
    BY <1>3, <1>4, OthersUnmoved DEF RepositoryInv, TypeOK, CallSet
  <1>10. CallsFit(r)'
    BY DEF RepositoryInv, CallsFit, TypeOK, Kinds
  <1>11. StagesDone(r)'
    BY DEF RepositoryInv, StagesDone
  <1> QED
    BY <1>5, <1>6, <1>8, <1>9, <1>10, <1>11 DEF RepositoryInv

LEMMA ChangeKeepsInv ==
  ASSUME RepositoryInv, NEW r \in Requests, NEW id \in Ids, NEW v \in Vals, Change(r, id, v)
  PROVE  RepositoryInv'
  <1> USE DEF Change
  <1>1. v # None /\ cache[r][id] \in Requests
    BY RequestAssumption DEF RepositoryInv, TypeOK, Makers
  <1>2. \A i \in Ids, s \in Requests : heap[i][s] # None => heap'[i][s] # None
    BY <1>1 DEF RepositoryInv, TypeOK
  <1>3. TypeOK'
    <2>1. heap' \in [Ids -> [Requests -> Vals \cup {None}]]
      BY <1>1 DEF RepositoryInv, TypeOK
    <2> QED
      BY <1>2, <2>1 DEF RepositoryInv, TypeOK, Makers
  <1>4. InstancesMade'
    BY <1>2 DEF RepositoryInv, InstancesMade, TypeOK, Makers
  <1>5. (puts \in [Requests -> SUBSET Ids] /\ removed \in [Requests -> SUBSET Ids]
         /\ AddsBeforeRemovals)'
    BY DEF RepositoryInv, AddsBeforeRemovals
  <1>6. ASSUME NEW s \in Requests PROVE CallsFit(s)' /\ StagesDone(s)'
    BY <1>2, OthersUnmoved DEF RepositoryInv, TypeOK, CallSet
  <1> QED
    BY <1>3, <1>4, <1>5, <1>6 DEF RepositoryInv

LEMMA RemoveKeepsInv ==
  ASSUME RepositoryInv, NEW r \in Requests, NEW id \in Ids, Remove(r, id)
  PROVE  RepositoryInv'
  <1> USE DEF Remove, ghosts
  <1>1. /\ \A s \in Requests, i \in Ids : cache'[s][i] = IF s = r /\ i = id THEN None ELSE cache[s][i]
        /\ \A s \in Requests : new'[s] = IF s = r THEN new[s] \ {id} ELSE new[s]
        /\ \A s \in Requests : deleted'[s] = IF s = r THEN deleted[s] \cup {id} ELSE deleted[s]
        /\ \A s \in Requests \ {r} : cache'[s] = cache[s]
    BY DEF RepositoryInv, TypeOK
  <1>2. TypeOK'
    <2>1. /\ cache' \in [Requests -> [Ids -> Makers]]
          /\ new' \in [Requests -> SUBSET Ids] /\ deleted' \in [Requests -> SUBSET Ids]
      BY DEF RepositoryInv, TypeOK, Makers
    <2>2. ASSUME NEW s \in Requests, NEW i \in Ids
          PROVE  /\ cache'[s][i] # None => heap'[i][cache'[s][i]] # None
                 /\ i \in new'[s] => cache'[s][i] # None
                 /\ i \in deleted'[s] => cache'[s][i] = None
      BY <1>1 DEF RepositoryInv, TypeOK
    <2> QED
      BY <2>1, <2>2 DEF RepositoryInv, TypeOK
  <1>3. cache[r][id] \in Requests /\ heap[id][cache[r][id]] # None
    BY DEF RepositoryInv, TypeOK, Makers
  <1>4. InstancesMade'
    BY <1>1, <1>3 DEF RepositoryInv, InstancesMade
  <1>5. removed[r] = {}
    BY DEF RepositoryInv, StagesDone
  <1>6. (puts \in [Requests -> SUBSET Ids] /\ removed \in [Requests -> SUBSET Ids]
         /\ AddsBeforeRemovals)'
    BY <1>1, <1>5 DEF RepositoryInv, AddsBeforeRemovals
  <1>7. ASSUME NEW s \in Requests \ {r} PROVE CallsFit(s)' /\ StagesDone(s)'
    BY <1>1, OthersUnmoved DEF RepositoryInv, TypeOK, CallSet
  <1>8. CallsFit(r)'
    BY DEF RepositoryInv, CallsFit, TypeOK, Kinds
  <1>9. StagesDone(r)'
    BY <1>5 DEF RepositoryInv, StagesDone
  <1> QED
    BY <1>2, <1>4, <1>6, <1>7, <1>8, <1>9 DEF RepositoryInv

LEMMA PersistKeepsInv ==
  ASSUME RepositoryInv, NEW r \in Requests, Persist(r)
  PROVE  RepositoryInv'
  <1> USE DEF Persist, ghosts
  <1>1. \A c \in calls : c.req # r
    BY DEF RepositoryInv, CallsFit, TypeOK, Kinds
  <1>2. removed[r] = {}
    BY DEF RepositoryInv, StagesDone
  <1>3. /\ pc' \in [Requests -> {"idle", "fetch", "put_new", "remove_deleted", "put_cached",
                                 "ok", "failed"}]
        /\ calls' \subseteq CallSet
        /\ CallsFit(r)' /\ StagesDone(r)'
        /\ \A s \in Requests \ {r} : pc'[s] = pc[s]
        /\ \A c \in calls : c \in calls'
        /\ \A c \in calls' : c.req # r => c \in calls
    BY <1>1, <1>2, Launched
  <1>4. TypeOK'
    BY <1>3 DEF RepositoryInv, TypeOK, CallSet
  <1>5. InstancesMade'
    BY DEF RepositoryInv, InstancesMade
  <1>6. (puts \in [Requests -> SUBSET Ids] /\ removed \in [Requests -> SUBSET Ids]
         /\ AddsBeforeRemovals)'
    BY DEF RepositoryInv, AddsBeforeRemovals
  <1>7. ASSUME NEW s \in Requests \ {r} PROVE CallsFit(s)' /\ StagesDone(s)'
    BY <1>3, OthersUnmoved DEF RepositoryInv, TypeOK, CallSet
  <1> QED
    BY <1>3, <1>4, <1>5, <1>6, <1>7 DEF RepositoryInv

-----------------------------------------------------------------------------
(* The steps of the storage.                                               *)

\* A call that ends with its stage not over, or after its request failed.
LEMMA CallsLeft ==
  ASSUME RepositoryInv, NEW c \in calls, calls' = calls \ {c}, UNCHANGED pc
  PROVE  /\ calls' \subseteq CallSet
         /\ \A d \in calls' : d.req # c.req => d \in calls
         /\ \A d \in calls : d.req # c.req => d \in calls'
  BY DEF RepositoryInv, TypeOK, CallSet

LEMMA PutKeepsInv ==
  ASSUME RepositoryInv, NEW c \in calls, StoragePut(c)
  PROVE  RepositoryInv'
  <1> USE DEF StoragePut
  <1> DEFINE r == c.req
  <1>1. c \in CallSet /\ r \in Requests /\ c.id \in Ids /\ c = Call(r, "put", c.id)
    BY DEF RepositoryInv, TypeOK, CallSet, Call
  <1>2. cache[r][c.id] # None /\ pc[r] \in {"put_new", "put_cached", "failed"}
    BY <1>1 DEF RepositoryInv, CallsFit
  <1>3. puts' \in [Requests -> SUBSET Ids] /\ \A s \in Requests :
          puts'[s] = IF s = r THEN puts[s] \cup {c.id} ELSE puts[s]
    BY <1>1 DEF RepositoryInv
  <1>4. stored' \in [Ids -> Vals \cup {None}]
    BY <1>1, <1>2 DEF RepositoryInv, TypeOK, Makers
  <1>5. AddsBeforeRemovals'
    BY <1>3 DEF RepositoryInv, AddsBeforeRemovals
  <1>6. /\ pc' \in [Requests -> {"idle", "fetch", "put_new", "remove_deleted", "put_cached",
                                 "ok", "failed"}]
        /\ calls' \subseteq CallSet
        /\ CallsFit(r)' /\ StagesDone(r)'
        /\ \A s \in Requests \ {r} : pc'[s] = pc[s]
        /\ \A d \in calls : d.req # r => d \in calls'
        /\ \A d \in calls' : d.req # r => d \in calls
    <2>1. CASE pc[r] = "failed" \/ CallsOf(r) # {c}
      <3>1. calls' = calls \ {c} /\ pc' = pc
        BY <2>1 DEF Succeeds
      <3>2. CallsFit(r)'
        BY <1>1, <1>3, <3>1 DEF RepositoryInv, CallsFit
      <3>3. Held(r)' = Held(r)
        BY DEF Held
      <3>4. \A id : Call(r, "put", id) \in calls => Call(r, "put", id) \in calls' \/ id \in puts'[r]
        BY <1>1, <1>3, <3>1 DEF Call
      <3>5. StagesDone(r)'
        BY <1>1, <1>2, <1>3, <3>1, <3>3, <3>4 DEF RepositoryInv, StagesDone
      <3> QED
        BY <3>1, <3>2, <3>5, CallsLeft DEF RepositoryInv, TypeOK
    <2>2. CASE ~(pc[r] = "failed" \/ CallsOf(r) # {c})
      <3>1. Launch(r, pc[r], calls \ {c})
        BY <2>2 DEF Succeeds
      <3>2. \A d \in calls : d.req = r => d = c
        BY <2>2 DEF CallsOf
      <3>3. \A id : Call(r, "put", id) \in calls => id \in puts'[r]
        BY <1>1, <1>3, <3>2 DEF Call
      <3>4. pc[r] = "put_new" => new[r] \subseteq puts'[r] /\ removed[r] = {}
        BY <1>1, <1>3, <3>3 DEF RepositoryInv, StagesDone
      <3>5. pc[r] = "put_cached" => Held(r) \subseteq puts'[r]
        BY <1>1, <1>3, <3>3 DEF RepositoryInv, StagesDone
      <3>6. removed[r] \subseteq deleted[r]
        BY <1>1 DEF RepositoryInv, StagesDone
      <3>7. pc[r] \in {"put_new", "put_cached"} /\ puts[r] \subseteq puts'[r]
        BY <1>1, <1>2, <1>3, <2>2
      <3> HIDE DEF r
      <3>8. /\ pc' \in [Requests -> {"idle", "fetch", "put_new", "remove_deleted", "put_cached",
                                     "ok", "failed"}]
            /\ calls' \subseteq CallSet
            /\ CallsFit(r)' /\ StagesDone(r)'
            /\ \A s \in Requests \ {r} : pc'[s] = pc[s]
            /\ \A d \in calls \ {c} : d \in calls'
            /\ \A d \in calls' : d.req # r => d \in calls \ {c}
        BY <1>1, <3>1, <3>2, <3>4, <3>5, <3>6, <3>7, Launched
      <3> QED
        BY <3>2, <3>8 DEF r
    <2> QED
      BY <2>1, <2>2
  <1>7. TypeOK'
    <2>1. UNCHANGED <<idCache, heap, cache, new, deleted, failures>>
      OBVIOUS
    <2> HIDE DEF StoragePut
    <2> QED
      BY <1>4, <1>6, <2>1 DEF RepositoryInv, TypeOK, CallSet
  <1>8. InstancesMade'
    BY DEF RepositoryInv, InstancesMade
  <1>9. ASSUME NEW s \in Requests \ {r} PROVE CallsFit(s)' /\ StagesDone(s)'
    BY <1>3, <1>6, OthersUnmoved DEF RepositoryInv, TypeOK, CallSet
  <1> QED
    BY <1>3, <1>5, <1>6, <1>7, <1>8, <1>9 DEF RepositoryInv

LEMMA RemovalKeepsInv ==
  ASSUME RepositoryInv, NEW c \in calls, StorageRemove(c), stored[c.id] # None
  PROVE  RepositoryInv'
  <1> USE DEF StorageRemove
  <1> DEFINE r == c.req
  <1>1. c \in CallSet /\ r \in Requests /\ c.id \in Ids /\ c = Call(r, "remove", c.id)
    BY DEF RepositoryInv, TypeOK, CallSet, Call
  <1>2. /\ c.id \in deleted[r] /\ new[r] \subseteq puts[r]
        /\ pc[r] \in {"remove_deleted", "failed"}
    BY <1>1 DEF RepositoryInv, CallsFit
  <1>3. removed' \in [Requests -> SUBSET Ids] /\ \A s \in Requests :
          removed'[s] = IF s = r THEN removed[s] \cup {c.id} ELSE removed[s]
    BY <1>1 DEF RepositoryInv
  <1>4. /\ stored' \in [Ids -> Vals \cup {None}] /\ idCache' \in [Ids -> Makers]
        /\ \A id \in Ids : idCache'[id] # None => idCache'[id] = idCache[id]
    BY <1>1 DEF RepositoryInv, TypeOK, Makers
  <1>5. AddsBeforeRemovals'
    BY <1>2, <1>3 DEF RepositoryInv, AddsBeforeRemovals
  <1>6. /\ pc' \in [Requests -> {"idle", "fetch", "put_new", "remove_deleted", "put_cached",
                                 "ok", "failed"}]
        /\ calls' \subseteq CallSet
        /\ CallsFit(r)' /\ StagesDone(r)'
        /\ \A s \in Requests \ {r} : pc'[s] = pc[s]
        /\ \A d \in calls : d.req # r => d \in calls'
        /\ \A d \in calls' : d.req # r => d \in calls
    <2>1. CASE pc[r] = "failed" \/ CallsOf(r) # {c}
      <3>1. calls' = calls \ {c} /\ pc' = pc
        BY <2>1 DEF Succeeds
      <3>2. CallsFit(r)'
        BY <1>1, <1>3, <3>1 DEF RepositoryInv, CallsFit
      <3>3. \A id : Call(r, "remove", id) \in calls
                       => Call(r, "remove", id) \in calls' \/ id \in removed'[r]
        BY <1>1, <1>3, <3>1 DEF Call
      <3>4. StagesDone(r)'
        BY <1>1, <1>2, <1>3, <3>1, <3>3 DEF RepositoryInv, StagesDone
      <3> QED
        BY <3>1, <3>2, <3>4, CallsLeft DEF RepositoryInv, TypeOK
    <2>2. CASE ~(pc[r] = "failed" \/ CallsOf(r) # {c})
      <3>1. Launch(r, pc[r], calls \ {c})
        BY <2>2 DEF Succeeds
      <3>2. \A d \in calls : d.req = r => d = c
        BY <2>2 DEF CallsOf
      <3>3. \A id : Call(r, "remove", id) \in calls => id \in removed'[r]
        BY <1>1, <1>3, <3>2 DEF Call
      <3>4. pc[r] = "remove_deleted"
        BY <1>2, <2>2
      <3>5. deleted[r] \subseteq removed'[r] /\ removed'[r] \subseteq deleted[r]
        BY <1>1, <1>2, <1>3, <3>3, <3>4 DEF RepositoryInv, StagesDone
      <3>6. removed[r] \subseteq removed'[r]
        BY <1>1, <1>3
      <3> HIDE DEF r
      <3>7. /\ pc' \in [Requests -> {"idle", "fetch", "put_new", "remove_deleted", "put_cached",
                                     "ok", "failed"}]
            /\ calls' \subseteq CallSet
            /\ CallsFit(r)' /\ StagesDone(r)'
            /\ \A s \in Requests \ {r} : pc'[s] = pc[s]
            /\ \A d \in calls \ {c} : d \in calls'
            /\ \A d \in calls' : d.req # r => d \in calls \ {c}
        BY <1>1, <3>1, <3>2, <3>4, <3>5, <3>6, Launched
      <3> QED
        BY <3>2, <3>7 DEF r
    <2> QED
      BY <2>1, <2>2
  <1>7. TypeOK'
    <2>1. UNCHANGED <<heap, cache, new, deleted, failures>>
      OBVIOUS
    <2> HIDE DEF StorageRemove
    <2> QED
      BY <1>4, <1>6, <2>1 DEF RepositoryInv, TypeOK, CallSet
  <1>8. InstancesMade'
    BY <1>4 DEF RepositoryInv, InstancesMade
  <1>9. ASSUME NEW s \in Requests \ {r} PROVE CallsFit(s)' /\ StagesDone(s)'
    BY <1>3, <1>6, OthersUnmoved DEF RepositoryInv, TypeOK, CallSet
  <1>10. puts' = puts
    OBVIOUS
  <1> QED
    BY <1>3, <1>5, <1>6, <1>7, <1>8, <1>9, <1>10 DEF RepositoryInv

\* A call that fails, whatever it is, changes nothing else.
LEMMA FailureKeepsInv ==
  ASSUME RepositoryInv, NEW c \in calls, Fails(c), failures' \in 0..MaxFailures,
         UNCHANGED <<stored, idCache, heap, cache, new, deleted, ghosts>>
  PROVE  RepositoryInv'
  <1> USE DEF Fails, ghosts
  <1> DEFINE r == c.req
  <1>1. r \in Requests /\ pc'[r] = "failed" /\ \A s \in Requests \ {r} : pc'[s] = pc[s]
    BY DEF RepositoryInv, TypeOK
  <1>2. TypeOK'
    BY DEF RepositoryInv, TypeOK
  <1>3. InstancesMade'
    BY DEF RepositoryInv, InstancesMade
  <1>4. (puts \in [Requests -> SUBSET Ids] /\ removed \in [Requests -> SUBSET Ids]
         /\ AddsBeforeRemovals)'
    BY DEF RepositoryInv, AddsBeforeRemovals
  <1>5. ASSUME NEW s \in Requests \ {r} PROVE CallsFit(s)' /\ StagesDone(s)'
    BY <1>1, OthersUnmoved DEF RepositoryInv, TypeOK, CallSet
  <1>6. CallsFit(r)' /\ StagesDone(r)'
    <2>1. CallsFit(r)'
      BY <1>1 DEF RepositoryInv, CallsFit
    <2>2. StagesDone(r)'
      BY <1>1 DEF RepositoryInv, StagesDone
    <2> QED
      BY <2>1, <2>2
  <1> QED
    BY <1>2, <1>3, <1>4, <1>5, <1>6 DEF RepositoryInv

\* A get, or the load it started, ends with an instance.
LEMMA GotKeepsInv ==
  ASSUME RepositoryInv, NEW c \in calls, c.kind \in {"get", "create"},
         NEW maker \in Requests, heap[c.id][maker] # None, Got(c, maker),
         idCache' \in [Ids -> Makers],
         \A id \in Ids : idCache'[id] # None =>
            idCache'[id] = idCache[id] \/ heap[id][idCache'[id]] # None,
         UNCHANGED <<stored, heap, new, deleted, failures, ghosts>>
  PROVE  RepositoryInv'
  <1> USE DEF Got, ghosts
  <1> DEFINE r == c.req
  <1>1. c \in CallSet /\ r \in Requests /\ c.id \in Ids
    BY DEF RepositoryInv, TypeOK, CallSet
  <1>2. deleted[r] = {} /\ pc[r] \in {"fetch", "failed"}
    BY <1>1 DEF RepositoryInv, CallsFit
  <1>3. maker # None
    BY RequestAssumption
  <1>4. /\ cache' \in [Requests -> [Ids -> Makers]]
        /\ \A s \in Requests, i \in Ids :
             cache'[s][i] = IF s = r /\ i = c.id THEN maker ELSE cache[s][i]
        /\ \A s \in Requests \ {r} : cache'[s] = cache[s]
    BY <1>1 DEF RepositoryInv, TypeOK, Makers
  <1>5. /\ pc' \in [Requests -> {"idle", "fetch", "put_new", "remove_deleted", "put_cached",
                                 "ok", "failed"}]
        /\ pc'[r] = pc[r] \/ (pc'[r] = "idle" /\ pc[r] = "fetch" /\ CallsOf(r) = {c})
        /\ \A s \in Requests \ {r} : pc'[s] = pc[s]
    BY <1>1 DEF RepositoryInv, TypeOK
  <1>6. TypeOK'
    <2>1. ASSUME NEW s \in Requests, NEW i \in Ids
          PROVE  /\ cache'[s][i] # None => heap'[i][cache'[s][i]] # None
                 /\ i \in new'[s] => cache'[s][i] # None
                 /\ i \in deleted'[s] => cache'[s][i] = None
      BY <1>2, <1>3, <1>4 DEF RepositoryInv, TypeOK
    <2>2. calls' \subseteq [req : Requests, kind : Kinds, id : Ids]
      BY DEF RepositoryInv, TypeOK
    <2>3. UNCHANGED <<stored, heap, new, deleted, failures>>
      OBVIOUS
    <2> HIDE DEF Got, ghosts
    <2> QED
      BY <1>4, <1>5, <2>1, <2>2, <2>3 DEF RepositoryInv, TypeOK
  <1>7. InstancesMade'
    BY DEF RepositoryInv, InstancesMade
  <1>8. (puts \in [Requests -> SUBSET Ids] /\ removed \in [Requests -> SUBSET Ids]
         /\ AddsBeforeRemovals)'
    BY DEF RepositoryInv, AddsBeforeRemovals
  <1>9. ASSUME NEW s \in Requests \ {r} PROVE CallsFit(s)' /\ StagesDone(s)'
    BY <1>4, <1>5, OthersUnmoved DEF RepositoryInv, TypeOK, CallSet
  <1>10. CallsFit(r)'
    <2>1. CASE pc'[r] = pc[r]
      <3>1. \A i \in Ids : cache[r][i] # None => cache'[r][i] # None
        BY <1>1, <1>3, <1>4
      <3>2. \A d \in calls' : d \in calls /\ d.id \in Ids
        BY DEF RepositoryInv, TypeOK
      <3>3. CallsFit(r)
        BY <1>1 DEF RepositoryInv
      <3> QED
        BY <2>1, <3>1, <3>2, <3>3 DEF CallsFit
    <2>2. CASE CallsOf(r) = {c}
      BY <2>2 DEF CallsOf, CallsFit
    <2> QED
      BY <1>5, <2>1, <2>2
  <1>11. StagesDone(r)'
    BY <1>1, <1>2, <1>5 DEF RepositoryInv, StagesDone
  <1> QED
    BY <1>6, <1>7, <1>8, <1>9, <1>10, <1>11 DEF RepositoryInv

\* A get that finds no instance reads the record.
LEMMA LoadKeepsInv ==
  ASSUME RepositoryInv, NEW c \in calls, c.kind = "get", stored[c.id] # None,
         heap' = [heap EXCEPT ![c.id][c.req] = stored[c.id]],
         calls' = (calls \ {c}) \cup {Call(c.req, "create", c.id)},
         UNCHANGED <<stored, idCache, cache, pc, new, deleted, failures, ghosts>>
  PROVE  RepositoryInv'
  <1> USE DEF ghosts
  <1> DEFINE r == c.req
  <1>1. c \in CallSet /\ r \in Requests /\ c.id \in Ids
    BY DEF RepositoryInv, TypeOK, CallSet
  <1>2. deleted[r] = {} /\ pc[r] \in {"fetch", "failed"}
    BY <1>1 DEF RepositoryInv, CallsFit
  <1>3. /\ heap' \in [Ids -> [Requests -> Vals \cup {None}]]
        /\ heap'[c.id][r] # None
        /\ \A i \in Ids, s \in Requests : heap[i][s] # None => heap'[i][s] # None
    BY <1>1 DEF RepositoryInv, TypeOK
  <1>4. calls' \subseteq CallSet
    BY <1>1 DEF RepositoryInv, TypeOK, Call, CallSet, Kinds
  <1>5. TypeOK'
    BY <1>3, <1>4 DEF RepositoryInv, TypeOK, CallSet, Makers
  <1>6. InstancesMade'
    BY <1>3 DEF RepositoryInv, InstancesMade, TypeOK, Makers
  <1>7. (puts \in [Requests -> SUBSET Ids] /\ removed \in [Requests -> SUBSET Ids]
         /\ AddsBeforeRemovals)'
    BY DEF RepositoryInv, AddsBeforeRemovals
  <1>8. ASSUME NEW s \in Requests \ {r} PROVE CallsFit(s)' /\ StagesDone(s)'
    <2>1. /\ \A d \in calls' : d.req = s => d \in calls
          /\ \A d \in calls : d.req = s => d \in calls'
      BY <1>1 DEF Call
    <2> QED
      BY <1>3, <2>1, OthersUnmoved DEF RepositoryInv, TypeOK, CallSet
  <1>9. CallsFit(r)'
    <2>1. CallsFit(r) /\ \A d \in calls : d.id \in Ids
      BY <1>1 DEF RepositoryInv, TypeOK
    <2>2. \A d \in calls' : d \in calls \/ (d.kind = "create" /\ d.id = c.id)
      BY DEF Call
    <2> QED
      BY <1>1, <1>2, <1>3, <2>1, <2>2 DEF CallsFit
  <1>10. StagesDone(r)'
    BY <1>1, <1>2 DEF RepositoryInv, StagesDone
  <1> QED
    BY <1>5, <1>6, <1>7, <1>8, <1>9, <1>10 DEF RepositoryInv

-----------------------------------------------------------------------------
(* What holds of every behaviour.                                          *)

LEMMA InvariantInductive == RepositoryInv /\ [Next]_vars => RepositoryInv'
  <1> SUFFICES ASSUME RepositoryInv, [Next]_vars PROVE RepositoryInv'
    OBVIOUS
  <1>1. ASSUME NEW r \in Requests, NEW S \in SUBSET Ids, Fetch(r, S) PROVE RepositoryInv'
    BY <1>1, FetchKeepsInv
  <1>2. ASSUME NEW r \in Requests, NEW id \in Ids, NEW v \in Vals,
               Add(r, id, v) \/ Change(r, id, v) PROVE RepositoryInv'
    BY <1>2, AddKeepsInv, ChangeKeepsInv
  <1>3. ASSUME NEW r \in Requests, NEW id \in Ids, Remove(r, id) PROVE RepositoryInv'
    BY <1>3, RemoveKeepsInv
  <1>4. ASSUME NEW r \in Requests, Persist(r) PROVE RepositoryInv'
    BY <1>4, PersistKeepsInv
  <1>5. failures \in 0..MaxFailures
    BY DEF RepositoryInv, TypeOK
  <1>6. ASSUME NEW c \in calls, StorageGet(c) PROVE RepositoryInv'
    <2>1. CASE stored[c.id] = None
      <3>1. Fails(c) /\ UNCHANGED <<stored, idCache, heap, cache, new, deleted, failures, ghosts>>
        BY <1>6, <2>1 DEF StorageGet
      <3> QED
        BY <1>5, <3>1, FailureKeepsInv
    <2>2. CASE stored[c.id] # None /\ idCache[c.id] # None
      <3>1. /\ c.kind = "get" /\ Got(c, idCache[c.id])
            /\ UNCHANGED <<stored, idCache, heap, new, deleted, failures, ghosts>>
        BY <1>6, <2>2 DEF StorageGet
      <3>2. /\ idCache \in [Ids -> Makers] /\ c.id \in Ids
            /\ idCache[c.id] \in Requests /\ heap[c.id][idCache[c.id]] # None
        BY <2>2 DEF RepositoryInv, TypeOK, InstancesMade, Makers
      <3> QED
        BY <3>1, <3>2, GotKeepsInv
    <2>3. CASE stored[c.id] # None /\ idCache[c.id] = None
      BY <1>6, <2>3, LoadKeepsInv DEF StorageGet
    <2> QED
      BY <2>1, <2>2, <2>3
  <1>7. ASSUME NEW c \in calls, AddToCache(c) PROVE RepositoryInv'
    <2>1. c.id \in Ids /\ c.req \in Requests
      BY DEF RepositoryInv, TypeOK
    <2>2. heap[c.id][c.req] # None
      BY <1>7, <2>1 DEF AddToCache, RepositoryInv, CallsFit
    <2>3. /\ idCache' \in [Ids -> Makers]
          /\ \A id \in Ids : idCache'[id] # None =>
               idCache'[id] = idCache[id] \/ heap[id][idCache'[id]] # None
      BY <1>7, <2>1, <2>2 DEF AddToCache, RepositoryInv, TypeOK, Makers
    <2> QED
      BY <1>7, <2>1, <2>2, <2>3, GotKeepsInv DEF AddToCache
  <1>8. ASSUME NEW c \in calls, StoragePut(c) PROVE RepositoryInv'
    BY <1>8, PutKeepsInv
  <1>9. ASSUME NEW c \in calls, StoragePutFails(c) PROVE RepositoryInv'
    <2>1. failures' \in 0..MaxFailures
      BY <1>5, <1>9, RequestAssumption DEF StoragePutFails
    <2> QED
      BY <1>9, <2>1, FailureKeepsInv DEF StoragePutFails
  <1>10. ASSUME NEW c \in calls, StorageRemove(c) PROVE RepositoryInv'
    <2>1. CASE stored[c.id] = None
      <3>1. Fails(c) /\ UNCHANGED <<stored, idCache, heap, cache, new, deleted, failures, ghosts>>
        BY <1>10, <2>1 DEF StorageRemove, ghosts
      <3> QED
        BY <1>5, <3>1, FailureKeepsInv
    <2>2. CASE stored[c.id] # None
      BY <1>10, <2>2, RemovalKeepsInv
    <2> QED
      BY <2>1, <2>2
  <1>11. ASSUME UNCHANGED vars PROVE RepositoryInv'
    <2>1. TypeOK' /\ InstancesMade'
      BY <1>11 DEF vars, ghosts, RepositoryInv, TypeOK, InstancesMade
    <2>2. (puts \in [Requests -> SUBSET Ids] /\ removed \in [Requests -> SUBSET Ids]
           /\ AddsBeforeRemovals)'
      BY <1>11 DEF vars, ghosts, RepositoryInv, AddsBeforeRemovals
    <2>3. ASSUME NEW s \in Requests PROVE CallsFit(s)' /\ StagesDone(s)'
      BY <1>11, OthersUnmoved DEF vars, ghosts, RepositoryInv, TypeOK, CallSet
    <2> QED
      BY <2>1, <2>2, <2>3 DEF RepositoryInv
  <1> QED
    BY <1>1, <1>2, <1>3, <1>4, <1>6, <1>7, <1>8, <1>9, <1>10, <1>11 DEF Next, Storage

\* In every state the calls of a request
\* and what it has done so far fit the stage it is in (repository.py:116-145).
THEOREM StagesInvariant == Spec => []RepositoryInv
  BY InvariantInitially, InvariantInductive, PTL DEF Spec

\* The repository keeps to its types, and to the relations between its cache,
\* new and deleted, for any set of requests (repository.py:12-176).
THEOREM RepositoryTypes == Spec => []TypeOK
  <1>1. RepositoryInv => TypeOK
    BY DEF RepositoryInv
  <1> QED
    BY <1>1, StagesInvariant, PTL

\* Whatever the requests do and whichever calls fail, no request removes an
\* entity before all it adds is stored (repository.py:116-140).
THEOREM NothingLostInReplacing == Spec => []AddsBeforeRemovals
  <1>1. RepositoryInv => AddsBeforeRemovals
    BY DEF RepositoryInv
  <1> QED
    BY <1>1, StagesInvariant, PTL

\* A persist that succeeds has done all it was asked for and left nothing
\* under way (repository.py:116-145).
THEOREM SuccessfulPersistIsComplete == Spec => []SuccessIsComplete
  <1>1. RepositoryInv => SuccessIsComplete
    <2> SUFFICES ASSUME RepositoryInv, NEW r \in Requests, pc[r] = "ok"
                 PROVE  /\ new[r] \cup Held(r) \subseteq puts[r]
                        /\ removed[r] = deleted[r]
                        /\ CallsOf(r) = {}
      BY DEF SuccessIsComplete
    <2>1. CallsOf(r) = {}
      BY DEF RepositoryInv, TypeOK, CallsFit, CallsOf, Kinds
    <2> QED
      BY <2>1 DEF RepositoryInv, StagesDone
  <1> QED
    BY <1>1, StagesInvariant, PTL

-----------------------------------------------------------------------------
(* Entities that are removed and come back, and instances that are         *)
(* changed.                                                                *)

\* A request puts in the first stage what it has added, once.
PutsOnce(r) ==
  /\ pc[r] \in {"idle", "fetch"} => puts[r] = {}
  /\ pc[r] = "put_new" => \A c \in calls : c.req = r => c.id \in new[r] \ puts[r]

\* What a request has added and not put is nobody else's and was never stored.
Unseen(r) ==
  \A id \in new[r] \ puts[r] :
    /\ stored[id] = None
    /\ \A q \in Requests : id \notin removed[q]
    /\ \A q \in Requests \ {r} : heap[id][q] = None /\ cache[q][id] = None

\* Whoever has a removed entity, or is making an instance of it, had it then.
HoldersKnown ==
  /\ holders \in [Ids -> SUBSET Requests]
  /\ \A id \in Ids : stored[id] = None /\ (\E q \in Requests : id \in removed[q]) =>
       \A r \in Requests : cache[r][id] # None \/ Call(r, "create", id) \in calls => r \in holders[id]

RemovedInv == HoldersKnown /\ \A r \in Requests : PutsOnce(r) /\ Unseen(r)

\* A request that has changed an entity has still to put or remove it, or
\* has failed and never will.
Owes(r, id) ==
  /\ id \in changed[r]
  /\ \/ pc[r] \in {"idle", "fetch", "failed"}
     \/ pc[r] = "put_new"
     \/ pc[r] = "remove_deleted" /\ (id \in Held(r) \/ Call(r, "remove", id) \in calls)
     \/ pc[r] = "put_cached" /\ Call(r, "put", id) \in calls

\* The only instance of a stored entity.
OnlyInstance(id, m) == /\ stored[id] # None /\ heap[id][m] # None
                       /\ \A r \in Requests \ {m} : heap[id][r] = None

AgreeInv ==
  /\ changed \in [Requests -> SUBSET Ids]
  /\ \A r \in Requests : changed[r] \subseteq Held(r) \cup deleted[r]
  /\ \A id \in Ids, m \in Requests :
       OnlyInstance(id, m) => stored[id] = heap[id][m] \/ \E r \in Requests : Owes(r, id)

LEMMA CallFacts ==
  ASSUME RepositoryInv, NEW c \in calls
  PROVE  /\ c.req \in Requests /\ c.id \in Ids /\ c.kind \in Kinds
         /\ c = Call(c.req, c.kind, c.id)
  BY DEF RepositoryInv, TypeOK, Call

\* Where the chain of persist goes on.
LEMMA Goes ==
  ASSUME RepositoryInv, NEW r \in Requests, NEW left,
         NEW stage \in {"idle", "put_new", "remove_deleted", "put_cached"},
         Launch(r, stage, left)
  PROVE  \E next \in {"put_new", "remove_deleted", "put_cached", "ok"} :
           /\ pc'[r] = next /\ \A s \in Requests \ {r} : pc'[s] = pc[s]
           /\ calls' = left \cup Work(r, next)
           /\ next = "put_new" => stage = "idle"
           /\ next = "remove_deleted" => stage \in {"idle", "put_new"}
           /\ next \in {"put_cached", "ok"} => stage = "remove_deleted" \/ stage = "put_cached"
                                               \/ deleted[r] = {}
           /\ next = "ok" => stage = "put_cached" \/ Held(r) = {}
           /\ stage = "put_cached" => next = "ok"
  <1>1. PICK next \in StagesAfter(stage) \cup {"ok"} :
          /\ \A s \in StagesAfter(stage) \ (StagesAfter(next) \cup {next}) : Work(r, s) = {}
          /\ pc' = [pc EXCEPT ![r] = next]
          /\ calls' = left \cup Work(r, next)
    BY DEF Launch
  <1>2. next \in {"put_new", "remove_deleted", "put_cached", "ok"}
    BY DEF StagesAfter, Stages
  <1>3. pc'[r] = next /\ \A s \in Requests \ {r} : pc'[s] = pc[s]
    BY <1>1 DEF RepositoryInv, TypeOK
  <1>4. /\ next = "put_new" => stage = "idle"
        /\ next = "remove_deleted" => stage \in {"idle", "put_new"}
        /\ stage = "put_cached" => next = "ok"
    BY <1>2 DEF StagesAfter, Stages
  <1>5. next \in {"put_cached", "ok"} /\ stage \in {"idle", "put_new"} => deleted[r] = {}
    BY <1>1, SkippedStages DEF StagesAfter, Stages
  <1>6. next = "ok" /\ stage # "put_cached" => Held(r) = {}
    BY <1>1, SkippedStages DEF StagesAfter, Stages
  <1> QED
    BY <1>1, <1>2, <1>3, <1>4, <1>5, <1>6

\* What the work of a stage is made of.
LEMMA WorkOf ==
  ASSUME NEW r \in Requests, NEW next \in {"put_new", "remove_deleted", "put_cached", "ok"}
  PROVE  /\ \A c \in Work(r, next) : c.req = r /\ c.kind \in {"put", "remove"}
         /\ next = "put_new" => \A c \in Work(r, next) : c.id \in new[r]
         /\ next = "remove_deleted" => \A id \in deleted[r] : Call(r, "remove", id) \in Work(r, next)
         /\ next = "put_cached" => \A id \in Held(r) : Call(r, "put", id) \in Work(r, next)
         /\ next = "ok" => Work(r, next) = {}
  BY DEF Work, Call

\* A call that succeeds: it leaves, and its request stays or goes on to work of
\* its own when it was the last.
LEMMA Ended ==
  ASSUME RepositoryInv, NEW c \in calls, c.kind \in {"put", "remove"}, Succeeds(c)
  PROVE  /\ \A s \in Requests \ {c.req} : pc'[s] = pc[s]
         /\ \A d : d.req # c.req => (d \in calls' <=> d \in calls)
         /\ \A d \in calls' : d.kind \in {"get", "create"} => d \in calls
         /\ \/ pc'[c.req] = pc[c.req] /\ calls' = calls \ {c}
            \/ /\ pc[c.req] \in {"put_new", "remove_deleted", "put_cached"}
               /\ \A d \in calls : d.req = c.req => d = c
               /\ Launch(c.req, pc[c.req], calls \ {c})
  <1>1. c.req \in Requests
    BY CallFacts
  <1>2. CASE pc[c.req] = "failed" \/ CallsOf(c.req) # {c}
    BY <1>1, <1>2 DEF Succeeds
  <1>3. CASE ~(pc[c.req] = "failed" \/ CallsOf(c.req) # {c})
    <2>1. Launch(c.req, pc[c.req], calls \ {c}) /\ \A d \in calls : d.req = c.req => d = c
      BY <1>3 DEF Succeeds, CallsOf
    <2>2. pc[c.req] \in {"put_new", "remove_deleted", "put_cached"}
      BY <1>1, <1>3 DEF RepositoryInv, CallsFit
    <2>3. PICK next \in {"put_new", "remove_deleted", "put_cached", "ok"} :
            calls' = (calls \ {c}) \cup Work(c.req, next) /\ \A s \in Requests \ {c.req} : pc'[s] = pc[s]
      BY <1>1, <2>1, <2>2, Goes
    <2>4. \A d \in Work(c.req, next) : d.req = c.req /\ d.kind \in {"put", "remove"}
      BY <1>1, WorkOf
    <2> QED
      BY <2>1, <2>2, <2>3, <2>4
  <1> QED
    BY <1>2, <1>3

\* What the storage's steps do besides, by the kind of the call.
LEMMA StorageCases ==
  ASSUME RepositoryInv, NEW c \in calls,
         StorageGet(c) \/ AddToCache(c) \/ StoragePut(c) \/ StoragePutFails(c) \/ StorageRemove(c)
  PROVE  \/ Fails(c) /\ UNCHANGED <<stored, idCache, heap, cache, new, deleted, ghosts>>
         \/ /\ c.kind \in {"get", "create"}
            /\ c.kind = "get" => stored[c.id] # None
            /\ \E maker \in Requests : Got(c, maker) /\ heap[c.id][maker] # None
            /\ UNCHANGED <<stored, heap, new, deleted, ghosts>>
         \/ /\ c.kind = "get" /\ stored[c.id] # None
            /\ heap' = [heap EXCEPT ![c.id][c.req] = stored[c.id]]
            /\ calls' = (calls \ {c}) \cup {Call(c.req, "create", c.id)}
            /\ UNCHANGED <<stored, cache, pc, new, deleted, ghosts>>
         \/ StoragePut(c)
         \/ StorageRemove(c) /\ stored[c.id] # None
  <1>1. CASE StorageGet(c)
    <2>1. idCache[c.id] # None => idCache[c.id] \in Requests /\ heap[c.id][idCache[c.id]] # None
      BY CallFacts DEF RepositoryInv, TypeOK, InstancesMade, Makers
    <2> QED
      BY <1>1, <2>1 DEF StorageGet
  <1>2. CASE AddToCache(c)
    <2>1. c.req \in Requests /\ heap[c.id][c.req] # None
      BY <1>2, CallFacts DEF AddToCache, RepositoryInv, CallsFit
    <2> QED
      BY <1>2, <2>1 DEF AddToCache
  <1>3. CASE StoragePutFails(c)
    BY <1>3 DEF StoragePutFails
  <1>4. CASE StorageRemove(c) /\ stored[c.id] = None
    BY <1>4 DEF StorageRemove, ghosts
  <1> QED
    BY <1>1, <1>2, <1>3, <1>4

LEMMA PutsOnceKept ==
  ASSUME RepositoryInv, \A r \in Requests : PutsOnce(r), [Next]_vars, NEW q \in Requests
  PROVE  PutsOnce(q)'
  <1> USE DEF ghosts
  <1>1. ASSUME pc'[q] = pc[q], puts'[q] = puts[q], new'[q] = new[q],
               \A c \in calls' : c.req = q => c \in calls
        PROVE  PutsOnce(q)'
    BY <1>1 DEF PutsOnce
  <1>2. ASSUME NEW r \in Requests, NEW S \in SUBSET Ids, Fetch(r, S) PROVE PutsOnce(q)'
    <2>1. CASE q = r
      BY <1>2, <2>1 DEF Fetch, PutsOnce, RepositoryInv, TypeOK
    <2>2. CASE q # r
      <3>1. \A c \in calls' : c.req = q => c \in calls
        BY <1>2, <2>2 DEF Fetch, Call
      <3> QED
        BY <1>1, <1>2, <2>2, <3>1 DEF Fetch, RepositoryInv, TypeOK
    <2> QED
      BY <2>1, <2>2
  <1>3. ASSUME NEW r \in Requests, NEW id \in Ids, NEW v \in Vals,
               Add(r, id, v) \/ Change(r, id, v)
        PROVE  PutsOnce(q)'
    <2>1. CASE q = r
      BY <1>3, <2>1 DEF Add, Change, PutsOnce
    <2>2. CASE q # r
      BY <1>1, <1>3, <2>2 DEF Add, Change, RepositoryInv, TypeOK
    <2> QED
      BY <2>1, <2>2
  <1>4. ASSUME NEW r \in Requests, NEW id \in Ids, Remove(r, id) PROVE PutsOnce(q)'
    <2>1. CASE q = r
      BY <1>4, <2>1 DEF Remove, PutsOnce
    <2>2. CASE q # r
      BY <1>1, <1>4, <2>2 DEF Remove, RepositoryInv, TypeOK
    <2> QED
      BY <2>1, <2>2
  <1>5. ASSUME NEW r \in Requests, Persist(r) PROVE PutsOnce(q)'
    <2>1. PICK next \in {"put_new", "remove_deleted", "put_cached", "ok"} :
            /\ pc'[r] = next /\ \A s \in Requests \ {r} : pc'[s] = pc[s]
            /\ calls' = calls \cup Work(r, next)
      BY <1>5, Goes DEF Persist
    <2>2. \A c \in calls : c.req # r
      BY <1>5 DEF Persist, RepositoryInv, CallsFit, TypeOK, Kinds
    <2>3. \A c \in Work(r, next) : c.req = r /\ (next = "put_new" => c.id \in new[r])
      BY WorkOf
    <2> QED
      BY <1>5, <2>1, <2>2, <2>3 DEF Persist, PutsOnce
  <1>6. ASSUME NEW c \in calls,
               StorageGet(c) \/ AddToCache(c) \/ StoragePut(c) \/ StoragePutFails(c) \/ StorageRemove(c)
        PROVE  PutsOnce(q)'
    <2>0. c.req \in Requests /\ c.id \in Ids /\ c = Call(c.req, c.kind, c.id) /\ CallsFit(c.req)
      BY CallFacts DEF RepositoryInv
    <2>1. CASE Fails(c) /\ UNCHANGED <<stored, idCache, heap, cache, new, deleted, ghosts>>
      <3>1. pc'[c.req] = "failed" /\ \A s \in Requests \ {c.req} : pc'[s] = pc[s]
        BY <2>0, <2>1 DEF Fails, RepositoryInv, TypeOK
      <3> QED
        BY <2>1, <3>1 DEF Fails, PutsOnce
    <2>2. CASE /\ c.kind \in {"get", "create"} /\ (\E maker \in Requests : Got(c, maker))
               /\ UNCHANGED <<new, ghosts>>
      <3>1. /\ calls' \subseteq calls
            /\ pc'[q] = pc[q] \/ (pc[q] = "fetch" /\ pc'[q] = "idle")
        BY <2>0, <2>2 DEF Got, RepositoryInv, TypeOK
      <3> QED
        BY <2>2, <3>1 DEF PutsOnce
    <2>3. CASE /\ c.kind = "get" /\ calls' = (calls \ {c}) \cup {Call(c.req, "create", c.id)}
               /\ UNCHANGED <<pc, new, ghosts>>
      <3>1. pc[c.req] \in {"fetch", "failed"}
        BY <2>0, <2>3 DEF CallsFit
      <3> QED
        BY <2>3, <3>1 DEF PutsOnce, Call
    <2>4. CASE StoragePut(c) \/ (StorageRemove(c) /\ stored[c.id] # None)
      <3>1. c.kind \in {"put", "remove"} /\ Succeeds(c) /\ new' = new
            /\ \A s \in Requests \ {c.req} : puts'[s] = puts[s]
        BY <2>0, <2>4 DEF StoragePut, StorageRemove, RepositoryInv
      <3>2. /\ \A s \in Requests \ {c.req} : pc'[s] = pc[s]
            /\ \A d : d.req # c.req => (d \in calls' <=> d \in calls)
            /\ \/ pc'[c.req] = pc[c.req] /\ calls' = calls \ {c}
               \/ /\ pc[c.req] \in {"put_new", "remove_deleted", "put_cached"}
                  /\ Launch(c.req, pc[c.req], calls \ {c})
        BY <3>1, Ended
      <3>3. CASE q # c.req
        BY <1>1, <3>1, <3>2, <3>3
      <3>4. CASE q = c.req /\ pc'[q] = pc[q] /\ calls' = calls \ {c}
        <4>1. pc[q] \notin {"idle", "fetch"}
          BY <2>0, <3>1, <3>4 DEF CallsFit
        <4>2. pc[q] = "put_new" => puts'[q] = puts[q] \cup {c.id}
          BY <2>0, <2>4, <3>1, <3>4 DEF StoragePut, StorageRemove, CallsFit, RepositoryInv
        <4>3. pc[q] = "put_new" => \A d \in calls : d.req = q /\ d.id = c.id => d = c
          <5> SUFFICES ASSUME pc[q] = "put_new", NEW d \in calls, d.req = q, d.id = c.id
                       PROVE  d = c
            OBVIOUS
          <5>1. d.kind = "put" /\ c.kind = "put"
            BY <2>0, <3>4, CallFacts DEF CallsFit, Kinds
          <5> QED
            BY <2>0, <3>4, <5>1, CallFacts
        <4> QED
          BY <3>1, <3>4, <4>1, <4>2, <4>3 DEF PutsOnce
      <3>5. CASE q = c.req /\ pc[q] \in {"put_new", "remove_deleted", "put_cached"}
                 /\ Launch(q, pc[q], calls \ {c})
        <4>1. PICK next \in {"put_new", "remove_deleted", "put_cached", "ok"} :
                pc'[q] = next /\ (next = "put_new" => pc[q] = "idle")
          BY <3>5, Goes
        <4> QED
          BY <3>5, <4>1 DEF PutsOnce
      <3> QED
        BY <3>2, <3>3, <3>4, <3>5
    <2> QED
      BY <1>6, <2>1, <2>2, <2>3, <2>4, StorageCases
  <1> QED
    BY <1>1, <1>2, <1>3, <1>4, <1>5, <1>6 DEF Next, Storage, vars

LEMMA UnseenKept ==
  ASSUME RepositoryInv, \A r \in Requests : Unseen(r), [Next]_vars, NEW q \in Requests
  PROVE  Unseen(q)'
  <1> USE DEF ghosts
  <1>0. /\ puts \in [Requests -> SUBSET Ids] /\ removed \in [Requests -> SUBSET Ids]
        /\ new \in [Requests -> SUBSET Ids]
        /\ \A r \in Requests, id \in Ids :
             /\ cache[r][id] # None => cache[r][id] \in Requests /\ heap[id][cache[r][id]] # None
             /\ id \in new[r] => cache[r][id] # None
             /\ id \in removed[r] => \E m \in Requests : heap[id][m] # None
    BY DEF RepositoryInv, TypeOK, InstancesMade, StagesDone, Makers
  <1>1. ASSUME UNCHANGED <<stored, heap>>, removed' = removed, puts' = puts, new'[q] \subseteq new[q],
               \A r \in Requests \ {q} : \A id \in new[q] \ puts[q] :
                  cache'[r][id] = cache[r][id] \/ cache'[r][id] = None
        PROVE  Unseen(q)'
    BY <1>1 DEF Unseen
  <1>2. ASSUME NEW r \in Requests, NEW S \in SUBSET Ids, Fetch(r, S) PROVE Unseen(q)'
    BY <1>1, <1>2 DEF Fetch
  <1>3. ASSUME NEW r \in Requests, NEW id \in Ids, NEW v \in Vals, Add(r, id, v) PROVE Unseen(q)'
    <2>1. stored[id] = None /\ \A s \in Requests : heap[id][s] = None
      BY <1>3 DEF Add, Fresh
    <2>2. \A s \in Requests : cache[s][id] = None /\ id \notin new[s] /\ id \notin removed[s]
      BY <1>0, <2>1
    <2>3. /\ UNCHANGED <<stored, removed, puts>>
          /\ \A i \in Ids, s \in Requests : i # id \/ s # r => heap'[i][s] = heap[i][s] /\ cache'[s][i] = cache[s][i]
          /\ new'[r] = new[r] \cup {id} /\ \A s \in Requests \ {r} : new'[s] = new[s]
      BY <1>3 DEF Add, RepositoryInv, TypeOK
    <2>4. ASSUME NEW i \in new'[q] \ puts'[q]
          PROVE  /\ stored'[i] = None
                 /\ \A s \in Requests : i \notin removed'[s]
                 /\ \A s \in Requests \ {q} : heap'[i][s] = None /\ cache'[s][i] = None
      <3>1. CASE i = id
        BY <2>1, <2>2, <2>3, <2>4, <3>1
      <3>2. CASE i # id
        <4>1. i \in new[q] \ puts[q] /\ i \in Ids
          BY <1>0, <2>3, <2>4, <3>2
        <4> QED
          BY <2>3, <3>2, <4>1 DEF Unseen
      <3> QED
        BY <3>1, <3>2
    <2> QED
      BY <2>4 DEF Unseen
  <1>4. ASSUME NEW r \in Requests, NEW id \in Ids, NEW v \in Vals, Change(r, id, v) PROVE Unseen(q)'
    <2> DEFINE m == cache[r][id]
    <2>1. /\ UNCHANGED <<stored, removed, puts, new, cache>> /\ m \in Requests /\ heap[id][m] # None
          /\ \A i \in Ids, s \in Requests : i # id \/ s # m => heap'[i][s] = heap[i][s]
      BY <1>0, <1>4 DEF Change, RepositoryInv, TypeOK
    <2>2. id \in new[q] \ puts[q] => m = q
      BY <2>1 DEF Unseen
    <2> QED
      BY <1>0, <2>1, <2>2 DEF Unseen
  <1>5. ASSUME NEW r \in Requests, NEW id \in Ids, Remove(r, id) PROVE Unseen(q)'
    <2>1. /\ UNCHANGED <<stored, heap, removed, puts>> /\ new'[q] \subseteq new[q]
          /\ \A s \in Requests, i \in Ids : cache'[s][i] = cache[s][i] \/ cache'[s][i] = None
      BY <1>5 DEF Remove, RepositoryInv, TypeOK
    <2> QED
      BY <1>0, <1>1, <2>1
  <1>6. ASSUME NEW r \in Requests, Persist(r) PROVE Unseen(q)'
    BY <1>1, <1>6 DEF Persist
  <1>7. ASSUME NEW c \in calls,
               StorageGet(c) \/ AddToCache(c) \/ StoragePut(c) \/ StoragePutFails(c) \/ StorageRemove(c)
        PROVE  Unseen(q)'
    <2>0. c.req \in Requests /\ c.id \in Ids /\ c = Call(c.req, c.kind, c.id) /\ CallsFit(c.req)
      BY CallFacts DEF RepositoryInv
    <2>1. CASE Fails(c) /\ UNCHANGED <<stored, idCache, heap, cache, new, deleted, ghosts>>
      BY <1>1, <2>1
    <2>2. CASE /\ c.kind \in {"get", "create"}
               /\ c.kind = "get" => stored[c.id] # None
               /\ \E maker \in Requests : Got(c, maker) /\ heap[c.id][maker] # None
               /\ UNCHANGED <<stored, heap, new, deleted, ghosts>>
      <3>1. c.kind = "create" => heap[c.id][c.req] # None
        BY <2>0 DEF CallsFit
      <3>2. c.id \in new[q] \ puts[q] => c.req = q
        BY <2>0, <2>2, <3>1 DEF Unseen
      <3>3. \A s \in Requests, i \in Ids : s # c.req \/ i # c.id => cache'[s][i] = cache[s][i]
        BY <2>0, <2>2 DEF Got, RepositoryInv, TypeOK
      <3> QED
        BY <1>0, <1>1, <2>2, <3>2, <3>3
    <2>3. CASE /\ stored[c.id] # None
               /\ heap' = [heap EXCEPT ![c.id][c.req] = stored[c.id]]
               /\ UNCHANGED <<stored, cache, new, ghosts>>
      <3>1. \A i \in Ids, s \in Requests : i # c.id => heap'[i][s] = heap[i][s]
        BY <2>0, <2>3 DEF RepositoryInv, TypeOK
      <3> QED
        BY <1>0, <2>3, <3>1 DEF Unseen
    <2>4. CASE StoragePut(c)
      <3>1. /\ \A i \in Ids : i # c.id => stored'[i] = stored[i]
            /\ puts'[c.req] = puts[c.req] \cup {c.id} /\ \A s \in Requests \ {c.req} : puts'[s] = puts[s]
            /\ UNCHANGED <<heap, cache, new, removed>>
        BY <1>0, <2>0, <2>4 DEF StoragePut, RepositoryInv, TypeOK
      <3>2. cache[c.req][c.id] # None
        BY <2>0, <2>4 DEF StoragePut, CallsFit
      <3>3. \A i \in new'[q] \ puts'[q] : i \in new[q] \ puts[q] /\ i # c.id /\ i \in Ids
        BY <1>0, <2>0, <3>1, <3>2 DEF Unseen
      <3> QED
        BY <3>1, <3>3 DEF Unseen
    <2>5. CASE StorageRemove(c) /\ stored[c.id] # None
      <3>1. /\ \A i \in Ids : i # c.id => stored'[i] = stored[i]
            /\ \A s \in Requests : removed'[s] \subseteq removed[s] \cup {c.id}
            /\ UNCHANGED <<heap, cache, new, puts>>
        <4>1. /\ stored' = [stored EXCEPT ![c.id] = None]
              /\ removed' = [removed EXCEPT ![c.req] = @ \cup {c.id}]
              /\ holders' = [holders EXCEPT ![c.id] =
                   {r \in Requests : cache[r][c.id] # None \/ Call(r, "create", c.id) \in calls}]
              /\ UNCHANGED <<heap, cache, new, puts>>
          BY <2>5 DEF StorageRemove
        <4>2. \A s \in Requests : removed'[s] = IF s = c.req THEN removed[s] \cup {c.id} ELSE removed[s]
          BY <1>0, <2>0, <4>1
        <4> QED
          BY <1>0, <2>0, <4>1, <4>2 DEF RepositoryInv, TypeOK
      <3> QED
        BY <1>0, <2>5, <3>1 DEF Unseen
    <2> QED
      BY <1>7, <2>1, <2>2, <2>3, <2>4, <2>5, StorageCases
  <1> QED
    BY <1>1, <1>2, <1>3, <1>4, <1>5, <1>6, <1>7 DEF Next, Storage, vars

LEMMA HoldersKept ==
  ASSUME RepositoryInv, HoldersKnown, [Next]_vars
  PROVE  HoldersKnown'
  <1> USE DEF ghosts
  <1>0. /\ removed \in [Requests -> SUBSET Ids] /\ holders \in [Ids -> SUBSET Requests]
        /\ \A r \in Requests, id \in Ids :
             id \in removed[r] => \E m \in Requests : heap[id][m] # None
    BY DEF RepositoryInv, InstancesMade, StagesDone, HoldersKnown
  <1>1. ASSUME UNCHANGED <<stored, removed, holders>>,
               \A id \in Ids, r \in Requests :
                 /\ stored[id] = None /\ (\E s \in Requests : id \in removed[s])
                 /\ cache'[r][id] # None \/ Call(r, "create", id) \in calls'
                 => cache[r][id] # None \/ Call(r, "create", id) \in calls
        PROVE  HoldersKnown'
    BY <1>1 DEF HoldersKnown
  <1>2. ASSUME NEW r \in Requests, NEW S \in SUBSET Ids, Fetch(r, S) PROVE HoldersKnown'
    <2>1. \A s, id : Call(s, "create", id) \in calls' => Call(s, "create", id) \in calls
      BY <1>2 DEF Fetch, Call
    <2> QED
      BY <1>1, <1>2, <2>1 DEF Fetch
  <1>3. ASSUME NEW r \in Requests, NEW id \in Ids, NEW v \in Vals, Add(r, id, v) PROVE HoldersKnown'
    <2>1. \A s \in Requests : id \notin removed[s]
      BY <1>0, <1>3 DEF Add, Fresh
    <2>2. \A s \in Requests, i \in Ids : i # id => cache'[s][i] = cache[s][i]
      BY <1>3 DEF Add, RepositoryInv, TypeOK
    <2> QED
      BY <1>1, <1>3, <2>1, <2>2 DEF Add
  <1>4. ASSUME NEW r \in Requests, NEW id \in Ids, NEW v \in Vals, Change(r, id, v) PROVE HoldersKnown'
    BY <1>1, <1>4 DEF Change
  <1>5. ASSUME NEW r \in Requests, NEW id \in Ids, Remove(r, id) PROVE HoldersKnown'
    <2>1. \A s \in Requests, i \in Ids : cache'[s][i] = cache[s][i] \/ cache'[s][i] = None
      BY <1>5 DEF Remove, RepositoryInv, TypeOK
    <2> QED
      BY <1>1, <1>5, <2>1 DEF Remove
  <1>6. ASSUME NEW r \in Requests, Persist(r) PROVE HoldersKnown'
    <2>1. PICK next \in {"put_new", "remove_deleted", "put_cached", "ok"} :
            calls' = calls \cup Work(r, next)
      BY <1>6, Goes DEF Persist
    <2>2. \A s, id : Call(s, "create", id) \notin Work(r, next)
      BY WorkOf DEF Call
    <2> QED
      BY <1>1, <1>6, <2>1, <2>2 DEF Persist
  <1>7. ASSUME NEW c \in calls,
               StorageGet(c) \/ AddToCache(c) \/ StoragePut(c) \/ StoragePutFails(c) \/ StorageRemove(c)
        PROVE  HoldersKnown'
    <2>0. c.req \in Requests /\ c.id \in Ids /\ c = Call(c.req, c.kind, c.id) /\ CallsFit(c.req)
      BY CallFacts DEF RepositoryInv
    <2>1. CASE Fails(c) /\ UNCHANGED <<stored, idCache, heap, cache, new, deleted, ghosts>>
      BY <1>1, <2>1 DEF Fails
    <2>2. CASE /\ c.kind \in {"get", "create"}
               /\ c.kind = "get" => stored[c.id] # None
               /\ \E maker \in Requests : Got(c, maker) /\ heap[c.id][maker] # None
               /\ UNCHANGED <<stored, heap, new, deleted, ghosts>>
      <3>1. \A s \in Requests, i \in Ids : s # c.req \/ i # c.id => cache'[s][i] = cache[s][i]
        BY <2>0, <2>2 DEF Got, RepositoryInv, TypeOK
      <3>2. calls' \subseteq calls
        BY <2>2 DEF Got
      <3>3. stored[c.id] = None => Call(c.req, "create", c.id) \in calls
        BY <2>0, <2>2
      <3> QED
        BY <1>1, <2>2, <3>1, <3>2, <3>3
    <2>3. CASE /\ stored[c.id] # None
               /\ calls' = (calls \ {c}) \cup {Call(c.req, "create", c.id)}
               /\ UNCHANGED <<stored, cache, ghosts>>
      <3>1. \A s, i : Call(s, "create", i) \in calls' => Call(s, "create", i) \in calls \/ i = c.id
        BY <2>3 DEF Call
      <3> QED
        BY <1>1, <2>3, <3>1
    <2>4. CASE StoragePut(c)
      <3>1. \A d \in calls' : d.kind \in {"get", "create"} => d \in calls
        BY <2>4, Ended DEF StoragePut
      <3>2. \A s, i : Call(s, "create", i) \in calls' => Call(s, "create", i) \in calls
        BY <3>1 DEF Call
      <3>3. /\ stored'[c.id] # None /\ \A i \in Ids : i # c.id => stored'[i] = stored[i]
            /\ UNCHANGED <<cache, removed, holders>>
        BY <2>0, <2>4 DEF StoragePut, RepositoryInv, TypeOK, CallsFit
      <3> QED
        BY <3>2, <3>3 DEF HoldersKnown
    <2>5. CASE StorageRemove(c) /\ stored[c.id] # None
      <3>1. \A d \in calls' : d.kind \in {"get", "create"} => d \in calls
        BY <2>5, Ended DEF StorageRemove
      <3>2. \A s, i : Call(s, "create", i) \in calls' => Call(s, "create", i) \in calls
        BY <3>1 DEF Call
      <3>3. /\ \A i \in Ids : i # c.id => stored'[i] = stored[i] /\ holders'[i] = holders[i]
            /\ holders'[c.id] = {r \in Requests : cache[r][c.id] # None \/ Call(r, "create", c.id) \in calls}
            /\ \A i \in Ids, s \in Requests : i # c.id => (i \in removed'[s] <=> i \in removed[s])
            /\ holders' \in [Ids -> SUBSET Requests] /\ cache' = cache
        <4>1. /\ stored' = [stored EXCEPT ![c.id] = None]
              /\ removed' = [removed EXCEPT ![c.req] = @ \cup {c.id}]
              /\ holders' = [holders EXCEPT ![c.id] =
                   {r \in Requests : cache[r][c.id] # None \/ Call(r, "create", c.id) \in calls}]
              /\ UNCHANGED <<heap, cache, new, puts>>
          BY <2>5 DEF StorageRemove
        <4>2. \A s \in Requests : removed'[s] = IF s = c.req THEN removed[s] \cup {c.id} ELSE removed[s]
          BY <1>0, <2>0, <4>1
        <4> QED
          BY <1>0, <2>0, <4>1, <4>2 DEF RepositoryInv, TypeOK
      <3> QED
        BY <3>2, <3>3 DEF HoldersKnown
    <2> QED
      BY <1>7, <2>1, <2>2, <2>3, <2>4, <2>5, StorageCases
  <1> QED
    BY <1>1, <1>2, <1>3, <1>4, <1>5, <1>6, <1>7 DEF Next, Storage, vars

LEMMA RemovedInvariant == Spec => []RemovedInv
  <1>1. Init => RemovedInv
    BY DEF Init, RemovedInv, HoldersKnown, PutsOnce, Unseen
  <1>2. RepositoryInv /\ RemovedInv /\ [Next]_vars => RemovedInv'
    BY PutsOnceKept, UnseenKept, HoldersKept DEF RemovedInv
  <1> QED
    BY <1>1, <1>2, StagesInvariant, PTL DEF Spec

\* A removed entity comes back only by a request that held it, or was loading
\* it, when it was removed, and never by the one that removed it: in the first
\* stage a request puts what nobody has seen (repository.py:116-145).
THEOREM RemovedComeBackByHolders == Spec => BackOnlyByHolders
  <1>1. RepositoryInv /\ RemovedInv /\ [Next]_vars =>
          [\A id \in Ids : ComesBack(id) =>
             \E r \in holders[id] : id \notin removed[r] /\ Call(r, "put", id) \in calls \ calls']_vars
    <2> SUFFICES ASSUME RepositoryInv, RemovedInv, [Next]_vars, NEW id \in Ids, ComesBack(id)
                 PROVE  \E r \in holders[id] : id \notin removed[r] /\ Call(r, "put", id) \in calls \ calls'
      OBVIOUS
    <2>1. PICK c \in calls : StoragePut(c) /\ c.id = id
      <3>1. PICK c \in calls : \/ StoragePut(c)
                               \/ StorageRemove(c) /\ stored[c.id] # None
        BY StorageCases DEF ComesBack, Next, Storage, Fetch, Add, Change, Remove, Persist, vars, ghosts
      <3>2. c.id \in Ids
        BY CallFacts
      <3>3. CASE StorageRemove(c) /\ stored[c.id] # None
        BY <3>2, <3>3 DEF StorageRemove, ComesBack, RepositoryInv, TypeOK
      <3>4. CASE StoragePut(c)
        BY <3>2, <3>4 DEF StoragePut, ComesBack, RepositoryInv, TypeOK
      <3> QED
        BY <3>1, <3>3, <3>4
    <2> DEFINE r == c.req
    <2>2. /\ r \in Requests /\ c = Call(r, "put", id)
          /\ cache[r][id] # None /\ pc[r] \in {"put_new", "put_cached", "failed"}
      BY <2>1, CallFacts DEF StoragePut, RepositoryInv, CallsFit
    <2>3. id \notin removed[r]
      BY <2>2 DEF RepositoryInv, TypeOK, StagesDone
    <2>4. r \in holders[id]
      BY <2>2 DEF ComesBack, RemovedInv, HoldersKnown
    <2>5. pc[r] # "put_new"
      BY <2>1, <2>2 DEF ComesBack, RemovedInv, PutsOnce, Unseen
    <2>6. c \notin calls'
      <3>1. \/ calls' = calls \ {c}
            \/ Launch(r, pc[r], calls \ {c}) /\ pc[r] = "put_cached"
        BY <2>1, <2>2, <2>5, Ended DEF StoragePut
      <3>2. CASE Launch(r, pc[r], calls \ {c}) /\ pc[r] = "put_cached"
        BY <2>2, <3>2, Goes, WorkOf
      <3> QED
        BY <3>1, <3>2
    <2> QED
      BY <2>2, <2>3, <2>4, <2>6
  <1> QED
    BY <1>1, StagesInvariant, RemovedInvariant, PTL DEF Spec, BackOnlyByHolders

-----------------------------------------------------------------------------
\* A request that goes on along persist's chain still owes what it owed.
LEMMA OwesLaunched ==
  ASSUME RepositoryInv, NEW r \in Requests, NEW left, NEW id \in Ids,
         NEW stage \in {"idle", "put_new", "remove_deleted", "put_cached"},
         pc[r] = stage, id \in changed[r], id \in Held(r) \cup deleted[r],
         stage = "remove_deleted" => id \in Held(r),
         stage # "put_cached",
         UNCHANGED <<cache, deleted, changed>>,
         Launch(r, stage, left)
  PROVE  Owes(r, id)'
  <1>1. PICK next \in {"put_new", "remove_deleted", "put_cached", "ok"} :
          /\ pc'[r] = next
          /\ calls' = left \cup Work(r, next)
          /\ next = "put_new" => stage = "idle"
          /\ next = "remove_deleted" => stage \in {"idle", "put_new"}
          /\ next \in {"put_cached", "ok"} => stage = "remove_deleted" \/ stage = "put_cached"
                                              \/ deleted[r] = {}
          /\ next = "ok" => stage = "put_cached" \/ Held(r) = {}
    BY Goes
  <1>2. Held(r)' = Held(r)
    BY DEF Held
  <1>3. CASE next = "remove_deleted"
    BY <1>1, <1>2, <1>3, WorkOf DEF Owes
  <1>4. CASE next \in {"put_cached", "ok"}
    BY <1>1, <1>4, WorkOf DEF Owes
  <1>5. CASE next = "put_new"
    BY <1>1, <1>5 DEF Owes
  <1> QED
    BY <1>1, <1>3, <1>4, <1>5

\* And so does one that a step leaves where it is.
LEMMA OwesStays ==
  ASSUME NEW r, NEW id, Owes(r, id), pc'[r] = pc[r],
         id \in changed'[r], id \in Held(r) => id \in Held(r)',
         Call(r, "put", id) \in calls => Call(r, "put", id) \in calls',
         Call(r, "remove", id) \in calls => Call(r, "remove", id) \in calls'
  PROVE  Owes(r, id)'
  BY DEF Owes

LEMMA AgreeInvariant == Spec => []AgreeInv
  <1> USE DEF ghosts
  <1>1. Init => AgreeInv
    BY DEF Init, AgreeInv, OnlyInstance
  <1>2. RepositoryInv /\ AgreeInv /\ [Next]_vars => AgreeInv'
    <2> SUFFICES ASSUME RepositoryInv, AgreeInv, [Next]_vars PROVE AgreeInv'
      OBVIOUS
    <2>0. /\ changed \in [Requests -> SUBSET Ids] /\ new \in [Requests -> SUBSET Ids]
          /\ \A r \in Requests : changed[r] \subseteq Held(r) \cup deleted[r]
          /\ \A r \in Requests, id \in Ids :
               /\ cache[r][id] # None => cache[r][id] \in Requests /\ heap[id][cache[r][id]] # None
               /\ id \in Held(r) <=> cache[r][id] # None
      BY DEF AgreeInv, RepositoryInv, TypeOK, Makers, Held
    <2>1. ASSUME changed' = changed, deleted' = deleted,
                 \A r \in Requests : Held(r) \subseteq Held(r)',
                 \A id \in Ids, m \in Requests :
                    OnlyInstance(id, m)' =>
                       \/ stored'[id] = heap'[id][m]
                       \/ /\ OnlyInstance(id, m) /\ stored'[id] = stored[id] /\ heap'[id][m] = heap[id][m]
                          /\ \A r \in Requests : Owes(r, id) => Owes(r, id)'
          PROVE  AgreeInv'
      <3>1. \A r \in Requests : changed'[r] \subseteq Held(r)' \cup deleted'[r]
        BY <2>0, <2>1
      <3>2. ASSUME NEW id \in Ids, NEW m \in Requests, OnlyInstance(id, m)'
            PROVE  stored'[id] = heap'[id][m] \/ \E r \in Requests : Owes(r, id)'
        BY <2>1, <3>2 DEF AgreeInv
      <3> QED
        BY <2>0, <2>1, <3>1, <3>2 DEF AgreeInv
    <2>2. ASSUME UNCHANGED <<stored, heap, cache, deleted, changed>>,
                 \A r \in Requests, id \in Ids : Owes(r, id) => Owes(r, id)'
          PROVE  AgreeInv'
      BY <2>1, <2>2 DEF OnlyInstance, Held
    <2>3. ASSUME NEW r \in Requests, NEW S \in SUBSET Ids, Fetch(r, S) PROVE AgreeInv'
      <3>1. UNCHANGED <<stored, heap, cache, deleted, changed>>
        BY <2>3 DEF Fetch
      <3>2. ASSUME NEW s \in Requests, NEW id \in Ids, Owes(s, id) PROVE Owes(s, id)'
        <4>1. CASE s = r
          BY <2>3, <3>2, <4>1 DEF Fetch, Owes, RepositoryInv, TypeOK
        <4>2. CASE s # r
          BY <2>3, <3>1, <3>2, <4>2, OwesStays DEF Fetch, Owes, RepositoryInv, TypeOK, Held
        <4> QED
          BY <4>1, <4>2
      <3> QED
        BY <2>2, <3>1, <3>2
    <2>4. ASSUME NEW r \in Requests, NEW id \in Ids, NEW v \in Vals, Add(r, id, v) PROVE AgreeInv'
      <3>1. /\ stored[id] = None
            /\ UNCHANGED <<stored, deleted, pc, calls, changed>>
            /\ \A i \in Ids, s \in Requests : i # id \/ s # r =>
                 heap'[i][s] = heap[i][s] /\ cache'[s][i] = cache[s][i]
            /\ cache'[r][id] = r /\ r # None
        BY <2>4, RequestAssumption DEF Add, Fresh, RepositoryInv, TypeOK
      <3>2. \A s \in Requests : Held(s) \subseteq Held(s)'
        BY <3>1 DEF Held
      <3>3. \A i \in Ids : i # id => \A s \in Requests : Owes(s, i) => Owes(s, i)'
        BY <3>1, <3>2 DEF Owes
      <3>4. ASSUME NEW i \in Ids, NEW m \in Requests, OnlyInstance(i, m)'
            PROVE  /\ OnlyInstance(i, m) /\ stored'[i] = stored[i] /\ heap'[i][m] = heap[i][m]
                   /\ i # id
        BY <3>1, <3>4 DEF OnlyInstance
      <3> QED
        BY <2>1, <3>1, <3>2, <3>3, <3>4
    <2>5. ASSUME NEW r \in Requests, NEW id \in Ids, NEW v \in Vals, Change(r, id, v) PROVE AgreeInv'
      <3> DEFINE m == cache[r][id]
      <3>1. /\ UNCHANGED <<stored, cache, deleted, pc, calls>> /\ pc[r] = "idle" /\ id \in Held(r)
            /\ m \in Requests /\ heap[id][m] # None
            /\ \A i \in Ids, s \in Requests : i # id \/ s # m => heap'[i][s] = heap[i][s]
            /\ changed' = [changed EXCEPT ![r] = @ \cup {id}]
        BY <2>0, <2>5 DEF Change, RepositoryInv, TypeOK
      <3>2. /\ changed' \in [Requests -> SUBSET Ids] /\ id \in changed'[r]
            /\ \A s \in Requests : changed[s] \subseteq changed'[s] /\ changed'[s] \subseteq changed[s] \cup {id}
            /\ \A s \in Requests : s # r => changed'[s] = changed[s]
            /\ \A s \in Requests : Held(s)' = Held(s)
        BY <2>0, <3>1 DEF Held
      <3>3. \A s \in Requests : changed'[s] \subseteq Held(s)' \cup deleted'[s]
        BY <2>0, <3>1, <3>2
      <3>4. ASSUME NEW i \in Ids, NEW k \in Requests, OnlyInstance(i, k)'
            PROVE  stored'[i] = heap'[i][k] \/ \E s \in Requests : Owes(s, i)'
        <4>1. CASE i = id
          BY <3>1, <3>2, <4>1 DEF Owes
        <4>2. CASE i # id
          <5>1. OnlyInstance(i, k) /\ stored'[i] = stored[i] /\ heap'[i][k] = heap[i][k]
            BY <3>1, <3>4, <4>2 DEF OnlyInstance
          <5>2. \A s \in Requests : Owes(s, i) => Owes(s, i)'
            BY <3>1, <3>2 DEF Owes
          <5> QED
            BY <5>1, <5>2 DEF AgreeInv
        <4> QED
          BY <4>1, <4>2
      <3> QED
        BY <3>2, <3>3, <3>4 DEF AgreeInv
    <2>6. ASSUME NEW r \in Requests, NEW id \in Ids, Remove(r, id) PROVE AgreeInv'
      <3>1. /\ UNCHANGED <<stored, heap, changed, pc, calls>> /\ pc[r] = "idle"
            /\ \A s \in Requests, i \in Ids : i # id \/ s # r => cache'[s][i] = cache[s][i]
            /\ deleted'[r] = deleted[r] \cup {id} /\ \A s \in Requests : s # r => deleted'[s] = deleted[s]
        BY <2>6 DEF Remove, RepositoryInv, TypeOK
      <3>2. \A s \in Requests : /\ Held(s) \subseteq Held(s)' \cup {id}
                                /\ s # r => Held(s)' = Held(s)
        BY <3>1 DEF Held
      <3>3. \A s \in Requests : changed'[s] \subseteq Held(s)' \cup deleted'[s]
        BY <2>0, <3>1, <3>2
      <3>4. \A s \in Requests, i \in Ids : Owes(s, i) => Owes(s, i)'
        BY <3>1, <3>2 DEF Owes
      <3> QED
        BY <2>0, <3>1, <3>3, <3>4 DEF AgreeInv, OnlyInstance
    <2>7. ASSUME NEW r \in Requests, Persist(r) PROVE AgreeInv'
      <3>1. /\ UNCHANGED <<stored, heap, cache, deleted, changed>> /\ pc[r] = "idle"
            /\ Launch(r, "idle", calls)
        BY <2>7 DEF Persist
      <3>2. ASSUME NEW s \in Requests, NEW id \in Ids, Owes(s, id) PROVE Owes(s, id)'
        <4>1. CASE s = r
          BY <2>0, <3>1, <3>2, <4>1, OwesLaunched DEF Owes
        <4>2. CASE s # r
          <5>1. pc'[s] = pc[s] /\ calls \subseteq calls'
            BY <3>1, <4>2, Goes
          <5> QED
            BY <3>1, <3>2, <5>1, OwesStays DEF Owes, Held
        <4> QED
          BY <4>1, <4>2
      <3> QED
        BY <2>2, <3>1, <3>2
    <2>8. ASSUME NEW c \in calls,
                 StorageGet(c) \/ AddToCache(c) \/ StoragePut(c) \/ StoragePutFails(c) \/ StorageRemove(c)
          PROVE  AgreeInv'
      <3>0. c.req \in Requests /\ c.id \in Ids /\ c = Call(c.req, c.kind, c.id) /\ CallsFit(c.req)
        BY CallFacts DEF RepositoryInv
      <3>1. CASE Fails(c) /\ UNCHANGED <<stored, idCache, heap, cache, new, deleted, ghosts>>
        <4>1. /\ pc'[c.req] = "failed" /\ \A s \in Requests : s # c.req => pc'[s] = pc[s]
              /\ calls' = calls \ {c}
          BY <3>0, <3>1 DEF Fails, RepositoryInv, TypeOK
        <4>2. ASSUME NEW s \in Requests, NEW id \in Ids, Owes(s, id) PROVE Owes(s, id)'
          <5>1. CASE s = c.req
            BY <3>1, <4>1, <4>2, <5>1 DEF Owes
          <5>2. CASE s # c.req
            BY <3>1, <4>1, <4>2, <5>2, OwesStays DEF Owes, Held, Call
          <5> QED
            BY <5>1, <5>2
        <4> QED
          BY <2>2, <3>1, <4>2
      <3>2. CASE /\ c.kind \in {"get", "create"}
                 /\ \E maker \in Requests : Got(c, maker)
                 /\ UNCHANGED <<stored, heap, new, deleted, ghosts>>
        <4>1. PICK maker \in Requests : Got(c, maker)
          BY <3>2
        <4>2. maker # None
          BY RequestAssumption
        <4>3. /\ \A s \in Requests, i \in Ids : cache'[s][i] = cache[s][i] \/ cache'[s][i] = maker
              /\ calls' = calls \ {c}
              /\ \A s \in Requests : pc'[s] = pc[s] \/ pc'[s] = "idle"
          BY <3>0, <4>1 DEF Got, RepositoryInv, TypeOK
        <4>4. \A s \in Requests : Held(s) \subseteq Held(s)'
          BY <4>2, <4>3 DEF Held
        <4>5. ASSUME NEW s \in Requests, NEW id \in Ids, Owes(s, id) PROVE Owes(s, id)'
          <5>1. /\ Call(s, "put", id) \in calls => Call(s, "put", id) \in calls'
                /\ Call(s, "remove", id) \in calls => Call(s, "remove", id) \in calls'
            BY <3>2, <4>3 DEF Call
          <5>2. CASE pc'[s] = pc[s]
            BY <3>2, <4>4, <4>5, <5>1, <5>2, OwesStays DEF Owes
          <5>3. CASE pc'[s] = "idle"
            BY <3>2, <4>5, <5>3 DEF Owes
          <5> QED
            BY <4>3, <5>2, <5>3
        <4> QED
          BY <2>1, <3>2, <4>4, <4>5 DEF OnlyInstance
      <3>3. CASE /\ c.kind = "get" /\ stored[c.id] # None
                 /\ heap' = [heap EXCEPT ![c.id][c.req] = stored[c.id]]
                 /\ calls' = (calls \ {c}) \cup {Call(c.req, "create", c.id)}
                 /\ UNCHANGED <<stored, cache, pc, new, deleted, ghosts>>
        <4>1. /\ heap'[c.id][c.req] = stored[c.id]
              /\ \A i \in Ids, s \in Requests : i # c.id \/ s # c.req => heap'[i][s] = heap[i][s]
          BY <3>0, <3>3 DEF RepositoryInv, TypeOK
        <4>2. \A s \in Requests : Held(s)' = Held(s)
          BY <3>3 DEF Held
        <4>3. \A s \in Requests, id \in Ids : Owes(s, id) => Owes(s, id)'
          BY <3>3, <4>2 DEF Owes, Call
        <4>4. ASSUME NEW i \in Ids, NEW m \in Requests, OnlyInstance(i, m)'
              PROVE  \/ stored'[i] = heap'[i][m]
                     \/ OnlyInstance(i, m) /\ stored'[i] = stored[i] /\ heap'[i][m] = heap[i][m]
          BY <3>0, <3>3, <4>1, <4>4 DEF OnlyInstance
        <4> QED
          BY <2>1, <3>3, <4>2, <4>3, <4>4
      <3>4. ASSUME c.kind \in {"put", "remove"}, Succeeds(c),
                   UNCHANGED <<heap, cache, new, deleted, changed>>,
                   NEW s \in Requests, NEW id \in Ids, id # c.id, Owes(s, id)
            PROVE  Owes(s, id)'
        <4>1. /\ \A q \in Requests \ {c.req} : pc'[q] = pc[q]
              /\ \A d : d.req # c.req => (d \in calls' <=> d \in calls)
              /\ \/ pc'[c.req] = pc[c.req] /\ calls' = calls \ {c}
                 \/ /\ pc[c.req] \in {"put_new", "remove_deleted", "put_cached"}
                    /\ \A d \in calls : d.req = c.req => d = c
                    /\ Launch(c.req, pc[c.req], calls \ {c})
          BY <3>4, Ended
        <4>2. /\ Call(s, "put", id).req = s /\ Call(s, "remove", id).req = s
              /\ Call(s, "put", id).id = id /\ Call(s, "remove", id).id = id
          BY DEF Call
        <4>3. Held(s)' = Held(s) /\ id \in changed'[s]
          BY <3>4 DEF Held, Owes
        <4>4. CASE s # c.req \/ (pc'[c.req] = pc[c.req] /\ calls' = calls \ {c})
          <5>1. /\ pc'[s] = pc[s]
                /\ Call(s, "put", id) \in calls => Call(s, "put", id) \in calls'
                /\ Call(s, "remove", id) \in calls => Call(s, "remove", id) \in calls'
            BY <3>4, <4>1, <4>2, <4>4
          <5> QED
            BY <3>4, <4>3, <5>1, OwesStays
        <4>5. CASE /\ s = c.req
                   /\ pc[s] \in {"put_new", "remove_deleted", "put_cached"}
                   /\ \A d \in calls : d.req = s => d = c
                   /\ Launch(s, pc[s], calls \ {c})
          <5>1. Call(s, "put", id) \notin calls /\ Call(s, "remove", id) \notin calls
            BY <3>4, <4>2, <4>5
          <5>2. /\ pc[s] # "put_cached" /\ id \in changed[s] /\ id \in Held(s) \cup deleted[s]
                /\ pc[s] = "remove_deleted" => id \in Held(s)
            BY <2>0, <3>4, <5>1 DEF Owes
          <5> QED
            BY <3>4, <4>5, <5>2, OwesLaunched
        <4> QED
          BY <4>1, <4>4, <4>5
      <3>5. CASE StoragePut(c)
        <4>1. /\ cache[c.req][c.id] # None /\ Succeeds(c) /\ c.kind = "put"
              /\ UNCHANGED <<heap, cache, new, deleted, changed>>
              /\ stored' = [stored EXCEPT ![c.id] = heap[c.id][cache[c.req][c.id]]]
          BY <3>0, <3>5 DEF StoragePut, CallsFit
        <4>2. ASSUME NEW i \in Ids, NEW m \in Requests, OnlyInstance(i, m)'
              PROVE  \/ stored'[i] = heap'[i][m]
                     \/ i # c.id /\ OnlyInstance(i, m) /\ stored'[i] = stored[i] /\ heap'[i][m] = heap[i][m]
          <5>1. CASE i = c.id
            <6>1. cache[c.req][c.id] = m
              BY <2>0, <3>0, <4>1, <4>2, <5>1 DEF OnlyInstance
            <6> QED
              BY <3>0, <4>1, <5>1, <6>1 DEF RepositoryInv, TypeOK
          <5>2. CASE i # c.id
            BY <3>0, <4>1, <4>2, <5>2 DEF OnlyInstance, RepositoryInv, TypeOK
          <5> QED
            BY <5>1, <5>2
        <4>3. \A s \in Requests : Held(s)' = Held(s)
          BY <4>1 DEF Held
        <4>4. \A i \in Ids, s \in Requests : i # c.id /\ Owes(s, i) => Owes(s, i)'
          BY <3>4, <4>1
        <4> QED
          BY <2>1, <4>1, <4>2, <4>3, <4>4
      <3>6. CASE StorageRemove(c) /\ stored[c.id] # None
        <4>1. /\ Succeeds(c) /\ c.kind = "remove"
              /\ UNCHANGED <<heap, cache, new, deleted, changed>>
              /\ stored' = [stored EXCEPT ![c.id] = None]
          BY <3>6 DEF StorageRemove
        <4>2. ASSUME NEW i \in Ids, NEW m \in Requests, OnlyInstance(i, m)'
              PROVE  i # c.id /\ OnlyInstance(i, m) /\ stored'[i] = stored[i] /\ heap'[i][m] = heap[i][m]
          BY <3>0, <4>1, <4>2 DEF OnlyInstance, RepositoryInv, TypeOK
        <4>3. \A s \in Requests : Held(s)' = Held(s)
          BY <4>1 DEF Held
        <4>4. \A i \in Ids, s \in Requests : i # c.id /\ Owes(s, i) => Owes(s, i)'
          BY <3>4, <4>1
        <4> QED
          BY <2>1, <4>1, <4>2, <4>3, <4>4
      <3> QED
        BY <2>8, <3>1, <3>2, <3>3, <3>5, <3>6, StorageCases
    <2>9. CASE UNCHANGED vars
      <3>1. \A r \in Requests, id \in Ids : Owes(r, id) => Owes(r, id)'
        BY <2>9 DEF vars, Owes, Held
      <3> QED
        BY <2>2, <2>9, <3>1 DEF vars
    <2> QED
      BY <2>3, <2>4, <2>5, <2>6, <2>7, <2>8, <2>9 DEF Next, Storage
  <1> QED
    BY <1>1, <1>2, StagesInvariant, PTL DEF Spec

\* While an entity has one instance, instance and record agree unless a request
\* that changed the instance has not persisted it (sabsddb.py:378,
\* gomee.py:84-100).
THEOREM SharedInstanceAgrees == Spec => []InstanceAgrees
  <1>1. AgreeInv => InstanceAgrees
    BY DEF AgreeInv, InstanceAgrees, OnlyInstance, Owes
  <1> QED
    BY <1>1, AgreeInvariant, PTL

=============================================================================
