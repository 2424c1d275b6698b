---------------------------- MODULE StorageInit ----------------------------
(***************************************************************************)
(* core/storage/sabsddb.py, lines 17-182: how the program gets from "no    *)
(* environment" to a storage it can work with.  AbsddbStorageFactory.get   *)
(* and the two memoized init methods (of the factory and of each storage)  *)
(* keep one Deferred, initd, and hand that same Deferred to every caller   *)
(* that comes before it has fired.                                         *)
(*                                                                         *)
(* A request is one operation of the program on one entity: it gets the    *)
(* storage from the factory, then calls a method of the storage, which     *)
(* runs init first.                                                        *)
(***************************************************************************)
EXTENDS Naturals, Sequences, FiniteSets, Functions

CONSTANTS Requests,  \* the operations of the program
          Entities,  \* the entity interfaces they are about
          Fields,    \* the fields whose type is an entity
          OwnerOf,   \* the entity a field belongs to
          TypeOf,    \* the entity a field refers to
          Wants      \* the entity each request is about

ASSUME InitAssumption == /\ OwnerOf \in [Fields -> Entities]
                         /\ TypeOf \in [Fields -> Entities]
                         /\ Wants \in [Requests -> Entities]

\* The Berkeley DB calls of a storage's init, in their order: open_pdb,
\* set_idb_flags, open_idb, associate.
Phases    == <<"pdb", "flags", "idb", "associate">>
NoStorage == 0

FieldsOf(e) == {f \in Fields : OwnerOf[f] = e}

VARIABLES pc,        \* where each request is
          handed,    \* the storage factory.get answered each request with
          env,       \* the factory's init: its state and who waits on initd
          storages,  \* the AbsddbStorage objects, in order of creation
          entityMap, \* the factory's __entity_map
          broken     \* has any Berkeley DB call of an init failed?

vars == <<pc, handed, env, storages, entityMap, broken>>

EnvStates     == {"none", "scheduled", "opening", "done", "failed"}
StorageStates == {"none", "scheduled", "opening", "fields", "done", "failed"}
PCs == {"idle", "getting", "envwait", "has", "initwait", "working",
        "ok", "envfailed", "initfailed", "failed"}

StorageIds == NoStorage..Len(storages)

TypeOK ==
  /\ pc \in [Requests -> PCs]
  /\ handed \in [Requests -> StorageIds]
  /\ env.state \in EnvStates
  /\ Range(env.waiters) \subseteq Requests
  /\ \A s \in DOMAIN storages :
       LET st == storages[s] IN
         /\ st.entity \in Entities
         /\ st.state \in StorageStates
         /\ st.opened \in 0..Len(Phases)
         /\ Range(st.waiters) \subseteq Requests
         /\ st.fields \in [FieldsOf(st.entity) -> StorageIds]
  /\ entityMap \in [Entities -> StorageIds]
  /\ broken \in BOOLEAN

Init ==
  /\ pc = [r \in Requests |-> "idle"]
  /\ handed = [r \in Requests |-> NoStorage]
  /\ env = [state |-> "none", waiters |-> <<>>]
  /\ storages = <<>>
  /\ entityMap = [e \in Entities |-> NoStorage]
  /\ broken = FALSE

-----------------------------------------------------------------------------
(* The factory.                                                            *)

\* AbsddbStorage(entity, env, factory): nothing is opened yet.
NewStorage(e) == [entity  |-> e,
                  state   |-> "none",
                  opened  |-> 0,
                  waiters |-> <<>>,
                  fields  |-> [f \in FieldsOf(e) |-> NoStorage]]

\* The inner get of factory.get, run for each of rs in turn: every one of
\* them makes a storage of its own and puts it in the map over the last.
MakeStorages(rs) ==
  /\ storages' = storages \o [i \in DOMAIN rs |-> NewStorage(Wants[rs[i]])]
  /\ handed' = [r \in Requests |->
                  IF r \in Range(rs)
                  THEN Len(storages) + CHOOSE i \in DOMAIN rs : rs[i] = r
                  ELSE handed[r]]
  /\ entityMap' = [e \in Entities |->
                     LET own == {i \in DOMAIN rs : Wants[rs[i]] = e} IN
                       IF own = {} THEN entityMap[e]
                       ELSE Len(storages) + CHOOSE i \in own : \A k \in own : k <= i]

\* factory.get without its first lines: the map is never looked at.
GetIgnoresMap(r) ==
  /\ pc[r] = "idle"
  /\ pc' = [pc EXCEPT ![r] = "getting"]
  /\ UNCHANGED <<handed, env, storages, entityMap, broken>>

\* factory.get: answered at once from the map, or later.
FactoryGet(r) ==
  /\ pc[r] = "idle"
  /\ IF entityMap[Wants[r]] # NoStorage
     THEN /\ handed' = [handed EXCEPT ![r] = entityMap[Wants[r]]]
          /\ pc' = [pc EXCEPT ![r] = "has"]
     ELSE /\ pc' = [pc EXCEPT ![r] = "getting"]
          /\ UNCHANGED handed
  /\ UNCHANGED <<env, storages, entityMap, broken>>

\* factory.init, called by the get of r: it makes initd, or r waits on it.
InitEnv(r) ==
  /\ pc[r] = "getting"
  /\ env.state \in {"none", "scheduled", "opening"}
  /\ env' = [state   |-> IF env.state = "none" THEN "scheduled" ELSE env.state,
             waiters |-> Append(env.waiters, r)]
  /\ pc' = [pc EXCEPT ![r] = "envwait"]
  /\ UNCHANGED <<handed, storages, entityMap, broken>>

\* factory.init when it is complete, or when initd has fired: a Deferred that
\* was waited on once holds None, also when what it was fired with was a
\* Failure, so r goes on.
GetAfterInit(r) ==
  /\ pc[r] = "getting"
  /\ env.state \in {"done", "failed"}
  /\ pc' = [pc EXCEPT ![r] = "has"]
  /\ MakeStorages(<<r>>)
  /\ UNCHANGED <<env, broken>>

\* open_env: initd is fired and the call goes to the pool.
OpenEnv ==
  /\ env.state = "scheduled"
  /\ env' = [env EXCEPT !.state = "opening"]
  /\ UNCHANGED <<pc, handed, storages, entityMap, broken>>

\* The environment is open: complete runs, then the get of every waiter.
EnvOpened ==
  /\ env.state = "opening"
  /\ env' = [state |-> "done", waiters |-> <<>>]
  /\ pc' = [r \in Requests |-> IF r \in Range(env.waiters) THEN "has" ELSE pc[r]]
  /\ MakeStorages(env.waiters)
  /\ UNCHANGED <<broken>>

\* A Deferred that kept its Failure would fail everyone who waits on it.
EnvFailsForAll ==
  /\ env.state = "opening"
  /\ env' = [state |-> "failed", waiters |-> <<>>]
  /\ broken' = TRUE
  /\ pc' = [r \in Requests |-> IF r \in Range(env.waiters) THEN "envfailed" ELSE pc[r]]
  /\ UNCHANGED <<handed, storages, entityMap>>

\* env.open raised.  The Failure goes to the first Deferred chained to initd
\* and leaves None behind: the others go on as if the environment were open.
EnvFails ==
  /\ env.state = "opening"
  /\ env' = [state |-> "failed", waiters |-> <<>>]
  /\ broken' = TRUE
  /\ pc' = [r \in Requests |-> CASE r \notin Range(env.waiters) -> pc[r]
                                 [] r = Head(env.waiters)       -> "envfailed"
                                 [] OTHER                       -> "has"]
  /\ MakeStorages(Tail(env.waiters))

-----------------------------------------------------------------------------
(* A storage.                                                              *)

\* A method of the storage runs and storage.init lets it through at once:
\* initialization is complete, or its initd has already fired.
Work(r) ==
  /\ pc[r] = "has"
  /\ storages[handed[r]].state \in {"done", "failed"}
  /\ pc' = [pc EXCEPT ![r] = "working"]
  /\ UNCHANGED <<handed, env, storages, entityMap, broken>>

\* storage.init with the check of "initialized" only: r goes on while the
\* databases are still being opened.
InitStorageNoWait(r) ==
  /\ pc[r] = "has"
  /\ LET s == handed[r] IN
       /\ storages[s].state \in {"none", "scheduled", "opening", "fields"}
       /\ IF storages[s].state = "none"
          THEN /\ storages' = [storages EXCEPT ![s].state = "scheduled", ![s].waiters = <<r>>]
               /\ pc' = [pc EXCEPT ![r] = "initwait"]
          ELSE /\ pc' = [pc EXCEPT ![r] = "working"]
               /\ UNCHANGED storages
  /\ UNCHANGED <<handed, env, entityMap, broken>>

\* storage.init, called first by every method: it makes initd, or r waits.
InitStorage(r) ==
  /\ pc[r] = "has"
  /\ LET s == handed[r] IN
       /\ storages[s].state \in {"none", "scheduled", "opening", "fields"}
       /\ storages' = [storages EXCEPT
                         ![s].state   = IF @ = "none" THEN "scheduled" ELSE @,
                         ![s].waiters = Append(@, r)]
  /\ pc' = [pc EXCEPT ![r] = "initwait"]
  /\ UNCHANGED <<handed, env, entityMap, broken>>

\* open_pdb: initd is fired and the first call goes to the pool.
OpenStorage(s) ==
  /\ storages[s].state = "scheduled"
  /\ storages' = [storages EXCEPT ![s].state = "opening"]
  /\ UNCHANGED <<pc, handed, env, entityMap, broken>>

\* initd of s fires with success: complete runs, the waiters go on.
Complete(s, fields) ==
  /\ storages' = [storages EXCEPT ![s].state = "done", ![s].waiters = <<>>,
                                  ![s].opened = Len(Phases), ![s].fields = fields]
  /\ pc' = [r \in Requests |-> IF r \in Range(storages[s].waiters) THEN "working" ELSE pc[r]]

\* A chain that runs associate once more than it should.
PhaseDoneOffByOne(s) ==
  /\ storages[s].state = "opening"
  /\ storages[s].opened <= Len(Phases)
  /\ env.state = "done"
  /\ storages' = [storages EXCEPT ![s].opened = @ + 1]
  /\ UNCHANGED <<pc, handed, env, entityMap, broken>>

\* A call of the init succeeds: the next one goes to the pool.
PhaseDone(s) ==
  /\ storages[s].state = "opening"
  /\ storages[s].opened < Len(Phases) - 1
  /\ env.state = "done"
  /\ storages' = [storages EXCEPT ![s].opened = @ + 1]
  /\ UNCHANGED <<pc, handed, env, entityMap, broken>>

\* associate succeeds: get_storages asks the factory for the storage of every
\* reference field.  The ones in the map are set at once.
GetStorages(s) ==
  /\ storages[s].state = "opening"
  /\ storages[s].opened = Len(Phases) - 1
  /\ env.state = "done"
  /\ LET fields == [f \in FieldsOf(storages[s].entity) |-> entityMap[TypeOf[f]]] IN
       IF \A f \in DOMAIN fields : fields[f] # NoStorage
       THEN Complete(s, fields)
       ELSE /\ storages' = [storages EXCEPT ![s].state = "fields", ![s].fields = fields,
                                            ![s].opened = Len(Phases)]
            /\ UNCHANGED pc
  /\ UNCHANGED <<handed, env, entityMap, broken>>

\* The factory.get of one reference field comes to its inner get, which makes
\* a storage whatever the map holds by now; the last field completes init.
GetField(s, f) ==
  /\ storages[s].state = "fields"
  /\ f \in DOMAIN storages[s].fields
  /\ storages[s].fields[f] = NoStorage
  /\ LET new    == Len(storages) + 1
         fields == [storages[s].fields EXCEPT ![f] = new]
         last   == \A g \in DOMAIN fields : fields[g] # NoStorage
         st     == [storages[s] EXCEPT !.fields  = fields,
                                       !.state   = IF last THEN "done" ELSE @,
                                       !.waiters = IF last THEN <<>> ELSE @]
     IN /\ entityMap' = [entityMap EXCEPT ![TypeOf[f]] = new]
        /\ storages' = Append([storages EXCEPT ![s] = st], NewStorage(TypeOf[f]))
        /\ pc' = [r \in Requests |->
                    IF last /\ r \in Range(storages[s].waiters) THEN "working" ELSE pc[r]]
  /\ UNCHANGED <<handed, env, broken>>

\* PhaseFails with the waiters forgotten: an errback that is never called.
PhaseFailsSilently(s) ==
  /\ storages[s].state = "opening"
  /\ broken' = TRUE
  /\ storages' = [storages EXCEPT ![s].state = "failed", ![s].waiters = <<>>]
  /\ UNCHANGED <<pc, handed, env, entityMap>>

\* A call of the init raises (always when the environment is not open): the
\* first waiter gets the Failure, the others go on as if all were well.
PhaseFails(s) ==
  /\ storages[s].state = "opening"
  /\ broken' = TRUE
  /\ LET ws == storages[s].waiters IN
       pc' = [r \in Requests |-> CASE r \notin Range(ws) -> pc[r]
                                   [] r = Head(ws)       -> "initfailed"
                                   [] OTHER              -> "working"]
  /\ storages' = [storages EXCEPT ![s].state = "failed", ![s].waiters = <<>>]
  /\ UNCHANGED <<handed, env, entityMap>>

\* The method's own call comes back from the pool: it fails when the primary
\* database is not open.
Answer(r) ==
  /\ pc[r] = "working"
  /\ pc' = [pc EXCEPT ![r] = IF storages[handed[r]].opened = 0 THEN "failed" ELSE "ok"]
  /\ UNCHANGED <<handed, env, storages, entityMap, broken>>

-----------------------------------------------------------------------------
\* What the reactor and the pool do once a request was made.
Reactor ==
  \/ OpenEnv
  \/ EnvOpened
  \/ EnvFails
  \/ \E r \in Requests : InitEnv(r) \/ GetAfterInit(r) \/ Work(r) \/ InitStorage(r) \/ Answer(r)
  \/ \E s \in DOMAIN storages : \/ OpenStorage(s)
                                \/ PhaseDone(s)
                                \/ GetStorages(s)
                                \/ PhaseFails(s)
                                \/ \E f \in Fields : GetField(s, f)

Next == Reactor \/ \E r \in Requests : FactoryGet(r)

\* The pool answers every call (module Pool, EveryCallAnswered) and the
\* reactor runs every callLater(0); nothing forces a request to be made.
\* Every step of Reactor brings some request closer to its end, and there
\* are finitely many requests, so fairness of the whole is enough.
Spec     == Init /\ [][Next]_vars
FairSpec == Spec /\ WF_vars(Reactor)

-----------------------------------------------------------------------------
(* Properties.                                                             *)

Ended == {"ok", "envfailed", "initfailed", "failed"}

EnvRank(state)     == CHOOSE i \in 0..3 :
                        state \in <<{"none"}, {"scheduled"}, {"opening"}, {"done", "failed"}>>[i + 1]
StorageRank(state) == CHOOSE i \in 0..4 :
                        state \in <<{"none"}, {"scheduled"}, {"opening"}, {"fields"},
                                    {"done", "failed"}>>[i + 1]

\* The environment and every storage are initialized at most once, however
\* many callers meet (sabsddb.py:31-35, 110-114): init never goes back, and
\* what it came to stays.
InitOnce ==
  [][/\ EnvRank(env'.state) >= EnvRank(env.state)
     /\ env.state \in {"done", "failed"} => env'.state = env.state
     /\ \A s \in DOMAIN storages :
          /\ StorageRank(storages'[s].state) >= StorageRank(storages[s].state)
          /\ storages[s].state \in {"done", "failed"} => storages'[s].state = storages[s].state]_vars

\* As long as no call of an init failed, a method works only on a storage
\* that is open, indexed, and knows the storage of each reference field - of
\* the right entity (sabsddb.py:172-182, 316).
ReadyBeforeUse ==
  \A r \in Requests :
    (pc[r] \in {"working", "ok"} /\ ~broken) =>
      LET st == storages[handed[r]] IN
        /\ st.entity = Wants[r]
        /\ st.state = "done" /\ st.opened = Len(Phases)
        /\ \A f \in DOMAIN st.fields : /\ st.fields[f] # NoStorage
                                       /\ storages[st.fields[f]].entity = TypeOf[f]

\* A failed open is reported, to exactly one caller: the first to wait for it.
\* It is never lost, and everyone else is let through as if all were well,
\* which is what the code does (sabsddb.py:34-35, 113-114, with
\* Deferred._continue).
FailureReportedOnce ==
  /\ Cardinality({r \in Requests : pc[r] = "envfailed"}) = IF env.state = "failed" THEN 1 ELSE 0
  /\ \A s \in DOMAIN storages :
       Cardinality({r \in Requests : pc[r] = "initfailed" /\ handed[r] = s}) =
         IF storages[s].state = "failed" THEN 1 ELSE 0

\* The gets of e that found nothing in the map and will still make a storage:
\* of requests, and of the reference fields f of storages s, as <<s, f>>.
Missing(s, f) ==
  storages[s].state = "fields" /\ f \in DOMAIN storages[s].fields
  /\ storages[s].fields[f] = NoStorage
PendingGets(e) ==
  {<<r>> : r \in {q \in Requests : Wants[q] = e /\ pc[q] \in {"getting", "envwait"}}}
  \cup {p \in (DOMAIN storages) \X Fields : TypeOf[p[2]] = e /\ Missing(p[1], p[2])}

\* Once an entity has a storage in the map, only the gets that were under way
\* by then can still replace it, and when they are over the entry is settled
\* for good (sabsddb.py:59-65).
MapSettles ==
  [][\A e \in Entities : entityMap[e] # NoStorage =>
       /\ PendingGets(e)' \subseteq PendingGets(e)
       /\ PendingGets(e) = {} => entityMap'[e] = entityMap[e]]_vars

\* What is decided stays decided, however the callers meet: an init that ended,
\* and the storage the map has once no older get is under way.
NothingGoesBack == InitOnce /\ MapSettles

\* Every request comes to an end, whichever call fails: nobody waits for ever
\* on an initd (sabsddb.py:54, 181).
EveryRequestEnds == \A r \in Requests : (pc[r] # "idle") ~> (pc[r] \in Ended)

\* A caller that asks for the storage of an entity when an earlier caller has
\* already been answered gets the same storage, as test_sabsddb.py:42-48
\* (test_return_same_on_second_call) asserts.
SameStorage ==
  [][\A r, q \in Requests :
       (/\ Wants[r] = Wants[q]
        /\ handed[r] # NoStorage
        /\ pc[q] = "idle"
        /\ pc'[q] # "idle") => handed'[q] = handed[r]]_vars

=============================================================================
