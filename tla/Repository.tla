----------------------------- MODULE Repository -----------------------------
(***************************************************************************)
(* core/entity/repository.py: requests that read, add, change and remove   *)
(* entities through repositories of their own, all over one storage, and   *)
(* persist their work in three stages.                                     *)
(*                                                                         *)
(* What a service does with its repository is a request here: it fetches   *)
(* entities (get, or where and the gets it starts), changes, removes and   *)
(* adds, waits for each of these, and persists once (gomee.py:79-153,      *)
(* user.py:27-109 and 182-235, tag.py:23-129).                             *)
(*                                                                         *)
(* The storage is AbsddbStorage with its operations made coarse: put and   *)
(* remove take effect in one step between call and answer, in any order    *)
(* among the calls under way; get reads the record in one step and caches  *)
(* the instance it makes in another, so that two loads of one entity may   *)
(* overlap as they do there.                                               *)
(***************************************************************************)
EXTENDS Naturals

CONSTANTS Requests,    \* requests, each with a repository of its own
          Ids,         \* identities
          Vals,        \* what an entity's fields can hold
          MaxFailures, \* how many puts fail
          None

ASSUME RequestAssumption == None \notin Requests \cup Vals /\ MaxFailures \in Nat

VARIABLES stored,   \* the primary database: the record of each identity, or None
          idCache,  \* storage.id_cache: who made the instance it holds, or None
          heap,     \* heap[id][r]: the instance of id that r made, or None
          cache,    \* cache[r][id]: repository.cache, by who made the instance
          new,      \* repository.new
          deleted,  \* repository.deleted
          pc,       \* where each request is
          calls,    \* the storage calls under way
          failures, \* how many puts have failed
          changed,  \* what each request has changed
          puts,     \* what each request has put
          removed,  \* what each request has removed
          holders   \* who else had an entity when it was removed

vars == <<stored, idCache, heap, cache, new, deleted, pc, calls, failures,
          changed, puts, removed, holders>>

ghosts == <<changed, puts, removed, holders>>

Stages == {"put_new", "remove_deleted", "put_cached"}
Makers == Requests \cup {None}
Kinds  == {"get", "create", "put", "remove"}

TypeOK ==
  /\ stored \in [Ids -> Vals \cup {None}]
  /\ idCache \in [Ids -> Makers]
  /\ heap \in [Ids -> [Requests -> Vals \cup {None}]]
  /\ cache \in [Requests -> [Ids -> Makers]]
  /\ new \in [Requests -> SUBSET Ids] /\ deleted \in [Requests -> SUBSET Ids]
  /\ pc \in [Requests -> {"idle", "fetch", "put_new", "remove_deleted", "put_cached",
                          "ok", "failed"}]
  /\ calls \subseteq [req : Requests, kind : Kinds, id : Ids]
  /\ failures \in 0..MaxFailures
  /\ \A r \in Requests, id \in Ids : /\ cache[r][id] # None => heap[id][cache[r][id]] # None
                                     /\ id \in new[r] => cache[r][id] # None
                                     /\ id \in deleted[r] => cache[r][id] = None

Init ==
  /\ stored \in [Ids -> Vals \cup {None}]
  /\ idCache = [id \in Ids |-> None]
  /\ heap = [id \in Ids |-> [r \in Requests |-> None]]
  /\ cache = [r \in Requests |-> [id \in Ids |-> None]]
  /\ new = [r \in Requests |-> {}]
  /\ deleted = [r \in Requests |-> {}]
  /\ pc = [r \in Requests |-> "idle"]
  /\ calls = {}
  /\ failures = 0
  /\ changed = [r \in Requests |-> {}]
  /\ puts = [r \in Requests |-> {}]
  /\ removed = [r \in Requests |-> {}]
  /\ holders = [id \in Ids |-> {}]

Call(r, kind, id) == [req |-> r, kind |-> kind, id |-> id]
CallsOf(r)        == {c \in calls : c.req = r}
Held(r)           == {id \in Ids : cache[r][id] # None}

\* A uuid nobody has seen.
Fresh(id) == stored[id] = None /\ \A r \in Requests : heap[id][r] = None

-----------------------------------------------------------------------------
(* A request at work.                                                      *)

\* repository.get, or the gets of repository.where: those not in the
\* repository's cache go to the storage.  No service fetches between a remove
\* and the persist.
Fetch(r, S) ==
  /\ pc[r] = "idle"
  /\ deleted[r] = {}
  /\ S # {} /\ \A id \in S : cache[r][id] = None /\ ~Fresh(id)
  /\ pc' = [pc EXCEPT ![r] = "fetch"]
  /\ calls' = calls \cup {Call(r, "get", id) : id \in S}
  /\ UNCHANGED <<stored, idCache, heap, cache, new, deleted, failures, ghosts>>

\* repository.add.
Add(r, id, v) ==
  /\ pc[r] = "idle"
  /\ Fresh(id)
  /\ heap' = [heap EXCEPT ![id][r] = v]
  /\ cache' = [cache EXCEPT ![r][id] = r]
  /\ new' = [new EXCEPT ![r] = @ \cup {id}]
  /\ UNCHANGED <<stored, idCache, deleted, pc, calls, failures, ghosts>>

\* A service sets a field of an instance it got: whoever shares the instance
\* sees it.
Change(r, id, v) ==
  /\ pc[r] = "idle"
  /\ cache[r][id] # None
  /\ heap' = [heap EXCEPT ![id][cache[r][id]] = v]
  /\ changed' = [changed EXCEPT ![r] = @ \cup {id}]
  /\ UNCHANGED <<stored, idCache, cache, new, deleted, pc, calls, failures, puts, removed, holders>>

\* A remove that leaves the instance in the repository's cache.
RemoveFromNewOnly(r, id) ==
  /\ pc[r] = "idle"
  /\ cache[r][id] # None
  /\ new' = [new EXCEPT ![r] = @ \ {id}]
  /\ deleted' = [deleted EXCEPT ![r] = @ \cup {id}]
  /\ UNCHANGED <<stored, idCache, heap, cache, pc, calls, failures, ghosts>>

\* repository.remove of an instance in its cache.
Remove(r, id) ==
  /\ pc[r] = "idle"
  /\ cache[r][id] # None
  /\ cache' = [cache EXCEPT ![r][id] = None]
  /\ new' = [new EXCEPT ![r] = @ \ {id}]
  /\ deleted' = [deleted EXCEPT ![r] = @ \cup {id}]
  /\ UNCHANGED <<stored, idCache, heap, pc, calls, failures, ghosts>>

\* The storage calls of a stage of persist.
Work(r, stage) ==
  CASE stage = "put_new"        -> {Call(r, "put", id) : id \in new[r]}
    [] stage = "remove_deleted" -> {Call(r, "remove", id) : id \in deleted[r]}
    [] stage = "put_cached"     -> {Call(r, "put", id) : id \in Held(r)}
    [] stage = "ok"             -> {}

\* The stages of persist as a plausible mistake would order them.
StagesAfterSwapped(stage) ==
  CASE stage = "idle"           -> Stages
    [] stage = "remove_deleted" -> {"put_new", "put_cached"}
    [] stage = "put_new"        -> {"put_cached"}
    [] OTHER                    -> {}

\* A persist that stores what is new and no change of what was there.
StagesAfterNoCached(stage) ==
  CASE stage = "idle"    -> {"put_new", "remove_deleted"}
    [] stage = "put_new" -> {"remove_deleted"}
    [] OTHER             -> {}

\* What is left of persist's chain of callbacks.
StagesAfter(stage) ==
  CASE stage = "idle"           -> Stages
    [] stage = "put_new"        -> {"remove_deleted", "put_cached"}
    [] stage = "remove_deleted" -> {"put_cached"}
    [] OTHER                    -> {}

\* An empty DeferredList fires at once: the chain goes on to the first stage
\* that has work, or to its end.
Launch(r, stage, left) ==
  \E next \in StagesAfter(stage) \cup {"ok"} :
    /\ next # "ok" => Work(r, next) # {}
    /\ \A s \in StagesAfter(stage) \ (StagesAfter(next) \cup {next}) : Work(r, s) = {}
    /\ pc' = [pc EXCEPT ![r] = next]
    /\ calls' = left \cup Work(r, next)

Persist(r) ==
  /\ pc[r] = "idle"
  /\ Launch(r, "idle", calls)
  /\ UNCHANGED <<stored, idCache, heap, cache, new, deleted, failures, ghosts>>

-----------------------------------------------------------------------------
(* The storage's calls, and the DeferredLists that wait for them.          *)

\* A DeferredList that goes on with the first success.
SucceedsFirst(c) ==
  IF pc[c.req] = "failed"
  THEN calls' = calls \ {c} /\ UNCHANGED pc
  ELSE Launch(c.req, pc[c.req], calls \ {c})

\* c has succeeded: the last of its stage starts the next, unless an earlier
\* one has failed.
Succeeds(c) ==
  IF pc[c.req] = "failed" \/ CallsOf(c.req) # {c}
  THEN calls' = calls \ {c} /\ UNCHANGED pc
  ELSE Launch(c.req, pc[c.req], calls \ {c})

\* c has failed: fireOnOneErrback, the request fails and the others go on.
Fails(c) == calls' = calls \ {c} /\ pc' = [pc EXCEPT ![c.req] = "failed"]

Got(c, maker) ==
  /\ cache' = [cache EXCEPT ![c.req][c.id] = maker]
  /\ calls' = calls \ {c}
  /\ pc' = IF pc[c.req] = "fetch" /\ CallsOf(c.req) = {c}
           THEN [pc EXCEPT ![c.req] = "idle"] ELSE pc

\* storage.get: the record must exist; the cached instance, or a load.
StorageGet(c) ==
  /\ c.kind = "get"
  /\ \/ /\ stored[c.id] = None
        /\ Fails(c)
        /\ UNCHANGED <<heap, cache>>
     \/ /\ stored[c.id] # None /\ idCache[c.id] # None
        /\ Got(c, idCache[c.id])
        /\ UNCHANGED heap
     \/ /\ stored[c.id] # None /\ idCache[c.id] = None
        /\ heap' = [heap EXCEPT ![c.id][c.req] = stored[c.id]]
        /\ calls' = (calls \ {c}) \cup {Call(c.req, "create", c.id)}
        /\ UNCHANGED <<cache, pc>>
  /\ UNCHANGED <<stored, idCache, new, deleted, failures, ghosts>>

\* The end of a load: storage.id_cache takes the instance whatever it holds.
AddToCache(c) ==
  /\ c.kind = "create"
  /\ idCache' = [idCache EXCEPT ![c.id] = c.req]
  /\ Got(c, c.req)
  /\ UNCHANGED <<stored, heap, new, deleted, failures, ghosts>>

StoragePut(c) ==
  /\ c.kind = "put"
  /\ stored' = [stored EXCEPT ![c.id] = heap[c.id][cache[c.req][c.id]]]
  /\ puts' = [puts EXCEPT ![c.req] = @ \cup {c.id}]
  /\ Succeeds(c)
  /\ UNCHANGED <<idCache, heap, cache, new, deleted, failures, changed, removed, holders>>

\* Berkeley DB raises, or a reference of the instance cannot be unpacked.
StoragePutFails(c) ==
  /\ c.kind = "put"
  /\ failures < MaxFailures
  /\ failures' = failures + 1
  /\ Fails(c)
  /\ UNCHANGED <<stored, idCache, heap, cache, new, deleted, ghosts>>

\* storage.remove: the record must exist; it leaves id_cache and the database.
StorageRemove(c) ==
  /\ c.kind = "remove"
  /\ IF stored[c.id] = None
     THEN Fails(c) /\ UNCHANGED <<stored, idCache, removed, holders>>
     ELSE /\ stored' = [stored EXCEPT ![c.id] = None]
          /\ idCache' = [idCache EXCEPT ![c.id] = None]
          /\ removed' = [removed EXCEPT ![c.req] = @ \cup {c.id}]
          /\ holders' = [holders EXCEPT ![c.id] =
               {r \in Requests : cache[r][c.id] # None \/ Call(r, "create", c.id) \in calls}]
          /\ Succeeds(c)
  /\ UNCHANGED <<heap, cache, new, deleted, failures, changed, puts>>

Storage == \E c \in calls : \/ StorageGet(c) \/ AddToCache(c) \/ StoragePut(c)
                            \/ StoragePutFails(c) \/ StorageRemove(c)

-----------------------------------------------------------------------------
Next == \/ \E r \in Requests, S \in SUBSET Ids : Fetch(r, S)
        \/ \E r \in Requests, id \in Ids, v \in Vals : Add(r, id, v) \/ Change(r, id, v)
        \/ \E r \in Requests, id \in Ids : Remove(r, id)
        \/ \E r \in Requests : Persist(r)
        \/ Storage

Spec == Init /\ [][Next]_vars

-----------------------------------------------------------------------------
(* Properties.                                                             *)

\* A request removes nothing before everything it adds is stored, and nothing
\* at all when storing failed: replacing entities never leaves the
\* store without both the old and the new ones (repository.py:116-145).
AddsBeforeRemovals ==
  \A r \in Requests : removed[r] # {} => new[r] \subseteq puts[r]

\* A persist that succeeds has stored all that is new and all that is held,
\* has removed all that is deleted, and has no call under way
\* (repository.py:116-145); in particular it fails when an entity it removes
\* was removed by another request, or was never stored.
SuccessIsComplete ==
  \A r \in Requests : pc[r] = "ok" =>
    /\ new[r] \cup Held(r) \subseteq puts[r]
    /\ removed[r] = deleted[r]
    /\ CallsOf(r) = {}

\* A removed entity comes back only by a request that held it, or was
\* loading it, when it was removed: put_cached stores again what was only
\* read (repository.py:128-131).  It never comes back by the request that
\* removed it.
ComesBack(id) == stored[id] = None /\ stored'[id] # None
                 /\ \E r \in Requests : id \in removed[r]
BackOnlyByHolders ==
  [][\A id \in Ids : ComesBack(id) =>
       \E r \in holders[id] : id \notin removed[r] /\ Call(r, "put", id) \in calls \ calls']_vars

\* While an entity has one instance, instance and record agree unless a
\* request that changed the instance has not persisted it: it is still at
\* work, has stopped, or has failed; then every reader of the shared instance
\* sees a change that is not stored (sabsddb.py:378, gomee.py:84-100).
InstanceAgrees ==
  \A id \in Ids, m \in Requests :
    /\ stored[id] # None /\ heap[id][m] # None
    /\ \A r \in Requests \ {m} : heap[id][r] = None
    /\ \A r \in Requests : id \in changed[r] => pc[r] = "ok"
    => stored[id] = heap[id][m]

=============================================================================
