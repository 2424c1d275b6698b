--------------------------- MODULE AbsddbStorage ---------------------------
(***************************************************************************)
(* core/storage/sabsddb.py, class AbsddbStorage: get, put and remove of    *)
(* the storages of several entities, called by concurrent requests of one  *)
(* event loop.  The storages are initialized (module StorageInit) and      *)
(* their Berkeley DB calls go through the pool, seen here as the           *)
(* SerialExecutor that module Pool implements.                             *)
(*                                                                         *)
(* There is one storage per entity here, so the caches of all storages     *)
(* (their id_cache dictionaries) are one function of the identities.  An   *)
(* identity of an entity with a reference field (Gomee.owner, say) has a   *)
(* record that holds the identity of the entity it refers to; that entity  *)
(* has no reference fields of its own.                                     *)
(*                                                                         *)
(* An operation is a chain of callbacks.  Loading an entity with a         *)
(* reference starts a second chain, the get of the entity it refers to.    *)
(***************************************************************************)
EXTENDS Naturals, Sequences

CONSTANTS Clients,   \* the requests being served
          Children,  \* identities of entities with a reference field
          Parents,   \* identities of entities they refer to
          Vals,      \* what the other fields can hold
          Ops,       \* the storage methods the clients call
          MaxOps,    \* how many calls a client makes
          None,      \* Python's None, and no client
          Failure    \* a twisted Failure, stored where an entity should be

ASSUME StorageAssumption ==
  /\ Children \cap Parents = {}
  /\ Ops \subseteq {"get", "put", "remove"}
  /\ MaxOps \in Nat
  /\ None \notin Nat \cup Children \cup Parents /\ Failure \notin Nat /\ None # Failure
  /\ None \notin [val : Vals, ref : Children \cup Parents \cup {None}]

Ids     == Children \cup Parents
Chains  == Clients \X {"call", "reference"}
Records == [val : Vals, ref : Ids \cup {None}]

\* What a call of Berkeley DB returns, or that it raised.
Outcomes == [ok : BOOLEAN, data : Records \cup {None}]

VARIABLES pdb,      \* the primary databases: identity -> record or None
          idCache,  \* the id_cache dictionaries: identity -> instance or None
          objs,     \* the instances made so far; an instance is its index
          waiting,  \* the executor: chains with a call in the pool's queue
          replies,  \* the executor: results on their way to the event loop
          chains,   \* where each chain is
          held,     \* the instance each client works with, or None
          answer,   \* how the last call of each client ended
          calls,    \* how many storage methods each client has called
          during    \* since its chain began: was the identity there, absent?

absddbVars == <<pdb, idCache, objs, waiting, replies, chains, held, answer, calls, during>>

Executor == INSTANCE SerialExecutor
              WITH Calls <- Chains, Outcomes <- Outcomes

Instances == DOMAIN objs
Idle      == [pc |-> "idle", op |-> None, id |-> None, obj |-> None, data |-> None]

AbsddbTypeOK ==
  /\ pdb \in [Ids -> Records \cup {None}]
  /\ \A id \in Children : pdb[id] # None => pdb[id].ref \in Parents
  /\ \A id \in Parents : pdb[id] # None => pdb[id].ref = None
  /\ \A id \in Ids : idCache[id] # None =>
        idCache[id] \in Instances /\ objs[idCache[id]].id = id
  /\ \A o \in Instances : objs[o].ref \notin {None, Failure} =>
        /\ objs[o].ref \in Instances
        /\ objs[o].id \in Children /\ objs[objs[o].ref].id \in Parents
  /\ \A ch \in Chains :
        LET c == chains[ch] IN
          /\ c.pc \in {"idle", "begun", "exists", "missed", "load", "create",
                       "reference", "put", "delete"}
          /\ (c.pc = "idle") <=> (c = Idle)
          /\ c.pc # "idle" => c.id \in Ids
          /\ c.pc \in {"put", "reference"} => c.obj \in Instances
  /\ \A c \in Clients : held[c] \in Instances \cup {None}
  /\ answer \in [Clients -> {None, "ok", "failed"}]
  /\ calls \in [Clients -> 0..MaxOps]

\* The server starts on whatever earlier runs left: any records, dangling
\* references included, since nothing checks a reference when its target is
\* removed.
AbsddbInit ==
  /\ pdb \in {p \in [Ids -> Records \cup {None}] :
                /\ \A id \in Children : p[id] # None => p[id].ref \in Parents
                /\ \A id \in Parents : p[id] # None => p[id].ref = None}
  /\ idCache = [id \in Ids |-> None]
  /\ objs = <<>>
  /\ waiting = <<>>
  /\ replies = <<>>
  /\ chains = [ch \in Chains |-> Idle]
  /\ held = [c \in Clients |-> None]
  /\ answer = [c \in Clients |-> None]
  /\ calls = [c \in Clients |-> 0]
  /\ during = [ch \in Chains |-> [there |-> FALSE, absent |-> FALSE]]

-----------------------------------------------------------------------------
(* Callbacks.                                                              *)

Begin(ch, op, id) ==
  /\ chains' = [chains EXCEPT ![ch] = [Idle EXCEPT !.pc = "begun", !.op = op, !.id = id]]
  /\ during' = [during EXCEPT ![ch] = [there |-> pdb[id] # None, absent |-> pdb[id] = None]]

\* The chain ends, with an instance or with a Failure.  A client gets it; a
\* reference chain hands it to set_fetched, which puts it into the instance
\* being loaded, whatever it is, and the chain of that load succeeds.
Finish(ch, ending, instance, heap) ==
  LET c    == ch[1]
      call == <<c, "call">>
  IN IF ch = call
     THEN /\ objs' = heap
          /\ held' = [held EXCEPT ![c] = IF ending = "ok" THEN instance ELSE @]
          /\ answer' = [answer EXCEPT ![c] = ending]
          /\ chains' = [chains EXCEPT ![ch] = Idle]
     ELSE /\ objs' = [heap EXCEPT ![chains[call].obj].ref =
                        IF ending = "ok" THEN instance ELSE Failure]
          /\ held' = [held EXCEPT ![c] = chains[call].obj]
          /\ answer' = [answer EXCEPT ![c] = "ok"]
          /\ chains' = [chains EXCEPT ![ch] = Idle, ![call] = Idle]

-----------------------------------------------------------------------------
(* The clients.                                                            *)

Free(c) == chains[<<c, "call">>].pc = "idle"

Call(c, op, id) ==
  /\ Free(c)
  /\ op \in Ops
  /\ calls[c] < MaxOps
  /\ calls' = [calls EXCEPT ![c] = @ + 1]
  /\ Begin(<<c, "call">>, op, id)

\* storage.get(identity).
Get(c, id) ==
  /\ Call(c, "get", id)
  /\ held' = [held EXCEPT ![c] = None]
  /\ UNCHANGED <<pdb, idCache, objs, waiting, replies, answer>>

\* storage.remove(instance), for the instance the client holds.
Remove(c) ==
  /\ held[c] \in Instances
  /\ Call(c, "remove", objs[held[c]].id)
  /\ UNCHANGED <<pdb, idCache, objs, waiting, replies, held, answer>>

\* storage.put(instance) without the check unpack_identity makes: whatever
\* the reference field holds is pickled.
PutUnchecked(c) ==
  /\ held[c] \in Instances
  /\ LET o    == objs[held[c]]
         data == [val |-> o.val,
                  ref |-> IF o.ref \in {None, Failure} THEN None ELSE objs[o.ref].id]
     IN /\ Free(c)
        /\ "put" \in Ops
        /\ calls[c] < MaxOps
        /\ calls' = [calls EXCEPT ![c] = @ + 1]
        /\ waiting' = Append(waiting, <<c, "call">>)
        /\ chains' = [chains EXCEPT ![<<c, "call">>] =
                        [pc |-> "put", op |-> "put", id |-> o.id, obj |-> held[c], data |-> data]]
  /\ UNCHANGED <<pdb, idCache, objs, replies, held, answer, during>>

\* storage.put(instance): unpack reads the fields and the call goes to the
\* pool.  A reference that is None or a Failure does not pass
\* unpack_identity, and the put fails.  (unpack and the call are some
\* callLater(0) apart, the same number for every put: data read first is
\* queued first, and nobody sees what was read before it is in the queue.)
Put(c) ==
  /\ held[c] \in Instances
  /\ LET o == objs[held[c]] IN
       /\ Free(c)
       /\ "put" \in Ops
       /\ calls[c] < MaxOps
       /\ calls' = [calls EXCEPT ![c] = @ + 1]
       /\ IF o.id \in Children /\ o.ref \in {None, Failure}
          THEN /\ answer' = [answer EXCEPT ![c] = "failed"]
               /\ UNCHANGED <<waiting, chains>>
          ELSE /\ waiting' = Append(waiting, <<c, "call">>)
               /\ chains' = [chains EXCEPT ![<<c, "call">>] =
                     [pc |-> "put", op |-> "put", id |-> o.id, obj |-> held[c],
                      data |-> [val |-> o.val,
                                ref |-> IF o.id \in Children THEN objs[o.ref].id ELSE None]]]
               /\ UNCHANGED answer
  /\ UNCHANGED <<pdb, idCache, objs, replies, held, during>>

\* The code above makes an instance of an entity that was never stored,
\* under a new identity; its reference is the instance the client holds.
Create(c, id, v) ==
  /\ Free(c)
  /\ "put" \in Ops /\ calls[c] < MaxOps
  /\ pdb[id] = None
  /\ \A o \in Instances : objs[o].id # id
  /\ \A other \in Ids : pdb[other] # None => pdb[other].ref # id
  /\ id \in Children => held[c] \in Instances /\ objs[held[c]].id \in Parents
  /\ objs' = Append(objs, [id |-> id, val |-> v,
                           ref |-> IF id \in Children THEN held[c] ELSE None])
  /\ held' = [held EXCEPT ![c] = Len(objs) + 1]
  /\ UNCHANGED <<pdb, idCache, waiting, replies, chains, answer, calls, during>>

\* The code above sets a field of the instance it holds.
Modify(c, v) ==
  /\ Free(c)
  /\ "put" \in Ops /\ calls[c] < MaxOps
  /\ held[c] \in Instances
  /\ objs[held[c]].val # v
  /\ objs' = [objs EXCEPT ![held[c]].val = v]
  /\ UNCHANGED <<pdb, idCache, waiting, replies, chains, held, answer, calls, during>>

-----------------------------------------------------------------------------
(* The pool's thread: Berkeley DB.                                         *)

\* What the call a chain is waiting for returns.  has_key tells whether the
\* record is there, get returns it or None, delete raises when it is not
\* there.
Result(ch) ==
  LET record == pdb[chains[ch].id] IN
    [ok   |-> chains[ch].pc \in {"load", "put"} \/ record # None,
     data |-> IF chains[ch].pc = "load" THEN record ELSE None]

Effect(ch) ==
  CASE chains[ch].pc = "put"    -> [pdb EXCEPT ![chains[ch].id] = chains[ch].data]
    [] chains[ch].pc = "delete" -> [pdb EXCEPT ![chains[ch].id] = None]
    [] OTHER                    -> pdb

Execute ==
  /\ waiting # <<>>
  /\ LET ch == Head(waiting) IN
       /\ Executor!Execute(Result(ch))
       /\ pdb' = Effect(ch)
  /\ during' = [ch \in Chains |->
                  IF chains[ch].pc = "idle" THEN during[ch]
                  ELSE LET now == pdb'[chains[ch].id] IN
                         [there  |-> during[ch].there \/ now # None,
                          absent |-> during[ch].absent \/ now = None]]
  /\ UNCHANGED <<idCache, objs, chains, held, answer, calls>>

-----------------------------------------------------------------------------
(* The event loop.                                                         *)

\* check_exists asks Berkeley DB only about what is not in the cache.
CheckExistsTrustsCache(ch) ==
  /\ chains[ch].pc = "begun"
  /\ IF chains[ch].op = "get" /\ idCache[chains[ch].id] # None
     THEN /\ Finish(ch, "ok", idCache[chains[ch].id], objs)
          /\ UNCHANGED waiting
     ELSE /\ Executor!Accept(ch)
          /\ chains' = [chains EXCEPT ![ch].pc = "exists"]
          /\ UNCHANGED <<objs, held, answer>>
  /\ UNCHANGED <<pdb, idCache, replies, calls, during>>

\* The call for the record is handed over without waiting for check_exists.
CheckExistsPipelined(ch) ==
  /\ chains[ch].pc = "begun"
  /\ waiting' = waiting \o <<ch, ch>>
  /\ chains' = [chains EXCEPT ![ch].pc = "exists"]
  /\ UNCHANGED <<pdb, idCache, objs, replies, held, answer, calls, during>>

\* check_exists, of get and of remove.
CheckExists(ch) ==
  /\ chains[ch].pc = "begun"
  /\ Executor!Accept(ch)
  /\ chains' = [chains EXCEPT ![ch].pc = "exists"]
  /\ UNCHANGED <<pdb, idCache, objs, held, answer, calls, during>>

\* The reply to the call of a chain in state pc is delivered.
Answered(ch, pc) ==
  /\ replies # <<>>
  /\ Head(replies).call = ch
  /\ chains[ch].pc = pc
  /\ Executor!Answer(ch, Head(replies).outcome)

Outcome == Head(replies).outcome

\* "Entity not exists", for get and for remove.
NotExists(ch) ==
  /\ Answered(ch, "exists")
  /\ ~Outcome.ok
  /\ Finish(ch, "failed", None, objs)
  /\ UNCHANGED <<pdb, idCache, calls, during>>

\* get finds the instance in id_cache and shares it, loaded or half loaded.
CacheHit(ch) ==
  /\ Answered(ch, "exists")
  /\ Outcome.ok
  /\ chains[ch].op = "get"
  /\ idCache[chains[ch].id] # None
  /\ Finish(ch, "ok", idCache[chains[ch].id], objs)
  /\ UNCHANGED <<pdb, idCache, calls, during>>

\* A get that loads the record each time.
CacheMissAlways(ch) ==
  /\ Answered(ch, "exists")
  /\ Outcome.ok
  /\ chains[ch].op = "get"
  /\ chains' = [chains EXCEPT ![ch].pc = "missed"]
  /\ UNCHANGED <<pdb, idCache, objs, held, answer, calls, during>>

\* get does not find it: it will be loaded.
CacheMiss(ch) ==
  /\ Answered(ch, "exists")
  /\ Outcome.ok
  /\ chains[ch].op = "get"
  /\ idCache[chains[ch].id] = None
  /\ chains' = [chains EXCEPT ![ch].pc = "missed"]
  /\ UNCHANGED <<pdb, idCache, objs, held, answer, calls, during>>

\* unpack_fields: the record is asked for.
Load(ch) ==
  /\ chains[ch].pc = "missed"
  /\ Executor!Accept(ch)
  /\ chains' = [chains EXCEPT ![ch].pc = "load"]
  /\ UNCHANGED <<pdb, idCache, objs, held, answer, calls, during>>

\* The record arrives.  When it was deleted since check_exists, pickle.loads
\* fails on None.
Loaded(ch) ==
  /\ Answered(ch, "load")
  /\ IF Outcome.data = None
     THEN Finish(ch, "failed", None, objs)
     ELSE /\ chains' = [chains EXCEPT ![ch].pc = "create", ![ch].data = Outcome.data]
          /\ UNCHANGED <<objs, held, answer>>
  /\ UNCHANGED <<pdb, idCache, calls, during>>

\* AddToCache without fetch: the reference is left for a later access.
AddToCacheLazily(ch) ==
  /\ chains[ch].pc = "create"
  /\ LET id   == chains[ch].id
         heap == Append(objs, [id |-> id, val |-> chains[ch].data.val, ref |-> None])
     IN /\ idCache' = [idCache EXCEPT ![id] = Len(heap)]
        /\ Finish(ch, "ok", Len(heap), heap)
  /\ UNCHANGED <<pdb, waiting, replies, calls, during>>

\* factory.create made the instance, add_to_cache puts it into id_cache -
\* over another one, if a second get loaded the same record - and fetch
\* starts the get of the entity referred to.  Until set_fetched the
\* reference is None.
AddToCache(ch) ==
  /\ chains[ch].pc = "create"
  /\ LET id   == chains[ch].id
         data == chains[ch].data
         new  == Len(objs) + 1
         heap == Append(objs, [id |-> id, val |-> data.val, ref |-> None])
         ref  == <<ch[1], "reference">>
     IN /\ idCache' = [idCache EXCEPT ![id] = new]
        /\ IF data.ref = None
           THEN /\ Finish(ch, "ok", new, heap)
                /\ UNCHANGED during
           ELSE /\ objs' = heap
                /\ chains' = [chains EXCEPT
                     ![ch].pc = "reference", ![ch].obj = new, ![ch].data = None,
                     ![ref] = [Idle EXCEPT !.pc = "begun", !.op = "get", !.id = data.ref]]
                /\ during' = [during EXCEPT ![ref] = [there  |-> pdb[data.ref] # None,
                                                      absent |-> pdb[data.ref] = None]]
                /\ UNCHANGED <<held, answer>>
  /\ UNCHANGED <<pdb, waiting, replies, calls>>

\* remove forgets to hand over the delete when the cache had the instance.
RemoveFromCacheOnly(ch) ==
  /\ chains[ch].op = "remove"
  /\ Answered(ch, "exists")
  /\ Outcome.ok
  /\ idCache' = [idCache EXCEPT ![chains[ch].id] = None]
  /\ chains' = [chains EXCEPT ![ch].pc = "delete"]
  /\ UNCHANGED <<pdb, objs, held, answer, calls, during>>

\* remove_from_cache, and in the same turn of the loop remove_from_pdb.
RemoveFromCache(ch) ==
  /\ chains[ch].op = "remove"
  /\ chains[ch].pc = "exists"
  /\ replies # <<>>
  /\ Head(replies).call = ch
  /\ Outcome.ok
  /\ idCache' = [idCache EXCEPT ![chains[ch].id] = None]
  /\ chains' = [chains EXCEPT ![ch].pc = "delete"]
  /\ Executor!AnswerThenAccept(ch, Outcome)
  /\ UNCHANGED <<pdb, objs, held, answer, calls, during>>

\* The delete is done, or raised because another remove came first.
Removed(ch) ==
  /\ Answered(ch, "delete")
  /\ Finish(ch, IF Outcome.ok THEN "ok" ELSE "failed", held[ch[1]], objs)
  /\ UNCHANGED <<pdb, idCache, calls, during>>

\* The put is done.  id_cache is left as it is.
PutDone(ch) ==
  /\ Answered(ch, "put")
  /\ Finish(ch, "ok", chains[ch].obj, objs)
  /\ UNCHANGED <<pdb, idCache, calls, during>>

-----------------------------------------------------------------------------
EventLoop == \E ch \in Chains :
               \/ CheckExists(ch)
               \/ NotExists(ch)
               \/ CacheHit(ch)
               \/ CacheMiss(ch)
               \/ Load(ch)
               \/ Loaded(ch)
               \/ AddToCache(ch)
               \/ RemoveFromCache(ch)
               \/ Removed(ch)
               \/ PutDone(ch)

Client == \E c \in Clients : \/ \E id \in Ids : Get(c, id)
                             \/ Remove(c)
                             \/ Put(c)
                             \/ \E v \in Vals : \/ Modify(c, v)
                                               \/ \E id \in Ids : Create(c, id, v)

AbsddbNext == Client \/ Execute \/ EventLoop

\* The pool's thread runs what is queued and the event loop delivers replies
\* and runs what callLater(0) scheduled (module Pool, EveryCallAnswered);
\* clients may stop at any time.
AbsddbSpec     == AbsddbInit /\ [][AbsddbNext]_absddbVars
FairAbsddbSpec == AbsddbSpec /\ WF_absddbVars(Execute) /\ WF_absddbVars(EventLoop)

-----------------------------------------------------------------------------
(* Properties.                                                             *)

\* The call of a client ends in this step.
Ends(c) == /\ chains[<<c, "call">>].pc # "idle"
           /\ chains'[<<c, "call">>].pc = "idle"

\* What a storage answers was true at some moment of the call: a get that
\* succeeds met the record, one that fails met its absence, a remove that
\* succeeds saw it there and then gone.  In particular an instance that a
\* late load put back into id_cache after a remove is never served
\* (sabsddb.py:365-379: Berkeley DB is asked before the cache).
TruthfulAnswers ==
  [][\A c \in Clients :
       LET call == chains[<<c, "call">>]
           met  == during[<<c, "call">>]
       IN Ends(c) =>
            /\ call.op = "get" => IF answer'[c] = "ok" THEN met.there ELSE met.absent
            /\ call.op = "remove" => met.absent /\ (answer'[c] = "ok" => met.there)]_absddbVars

\* A reference that was set to a Failure names an entity that was absent at
\* some moment of its load, one that was set to an instance an entity that
\* was there (sabsddb.py:436-456).
TruthfulReferences ==
  [][\A o \in Instances : objs'[o].ref # objs[o].ref =>
       \E c \in Clients :
         /\ chains[<<c, "call">>].obj = o
         /\ IF objs'[o].ref = Failure THEN during[<<c, "reference">>].absent
            ELSE /\ during[<<c, "reference">>].there
                 /\ objs'[objs'[o].ref].id = chains[<<c, "reference">>].id]_absddbVars

\* What a call answers, and what it sets a reference to, was true at some
\* moment of that call, whatever other clients did in the meantime.
Truthful == TruthfulAnswers /\ TruthfulReferences

\* While a record stays stored its reference never changes: no half-loaded
\* instance, and none whose reference could not be loaded, is ever written
\* back over it (sabsddb.py:188-189, 260: unpack_identity fails on it).
ReferencesPreserved ==
  [][\A id \in Ids : (pdb[id] # None /\ pdb'[id] # None) => pdb'[id].ref = pdb[id].ref]_absddbVars

\* An instance whose reference is still None is being loaded by somebody,
\* who will set it (sabsddb.py:432-456).
HalfLoadedIsLoading ==
  \A o \in Instances : (objs[o].id \in Children /\ objs[o].ref = None) =>
     \E c \in Clients : /\ chains[<<c, "call">>].pc = "reference"
                        /\ chains[<<c, "call">>].obj = o
                        /\ chains[<<c, "reference">>].pc # "idle"

\* The gets of id that found no instance in the cache and will still put one.
Loading(id) == {ch \in Chains : /\ chains[ch].id = id
                                /\ chains[ch].pc \in {"missed", "load", "create"}}

\* Once an instance is in id_cache, only gets that were loading the record by
\* then can still replace it; when they are over all gets share the one
\* instance, until a remove (sabsddb.py:378-379, 432-433).
CacheSettles ==
  [][\A id \in Ids : (idCache[id] # None /\ idCache'[id] # None) =>
       /\ Loading(id)' \subseteq Loading(id)
       /\ Loading(id) = {} => idCache'[id] = idCache[id]]_absddbVars

\* A storage uses the pool as it is meant to be used: a chain waits for one
\* call at a time (sabsddb.py, every "d.addCallback").
UsesSerialExecutor == Executor!Spec

\* Every call of a storage method is answered.
EveryCallEnds ==
  \A c \in Clients : (chains[<<c, "call">>].pc # "idle") ~> (chains[<<c, "call">>].pc = "idle")

\* A get answers with an instance whose reference is an entity, when the
\* entity it refers to is stored, as test_sabsddb.py:303-304
\* (test_has_actual_parent) asserts.
FetchedHasParent ==
  [][\A c \in Clients :
       (/\ Ends(c)
        /\ chains[<<c, "call">>].op = "get"
        /\ answer'[c] = "ok"
        /\ chains[<<c, "call">>].id \in Children
        /\ \A p \in Parents : pdb[p] # None)
       => objs'[held'[c]].ref \notin {None, Failure}]_absddbVars

=============================================================================
