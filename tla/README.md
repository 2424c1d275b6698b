# YoGoMee: formal models of the server and of the console's core

YoGoMee is a location service: a Twisted (Python 2) server with a REST
interface, an object store over Berkeley DB, and several clients.  This
directory holds TLA+ models of the part that carries the program's own logic -
the Python server under `src/Python/trunk/yogomee/src`, and of the Flex console
(`src/Flex/trunk/Yogomee.Console/src`) the two pieces that work with results
that come later - the TLC runs that check them, and proofs about all of the
components.  Paths of the server are relative to its directory unless they start
with `src/`; `http.py` and `policies.py` are those of
`src/yogomee_site_06.25.09/python/twisted`, and `*.as` are files of the console.

## 1. Inventory

| Part | State | Operations | Interacts with |
|---|---|---|---|
| absddb pool (`absddb/pool.py`) | queue, worker flag `__started`, the reactor's `threadCallQueue` | `invoke`, start trigger, shutdown trigger, worker loop | every database call of the server goes through it |
| absddb wrappers (`absddb/adb*.py`) | a bsddb handle each | one `pool.invoke` per method | storage above, Berkeley DB below |
| storage factory and storage init (`yogomee/core/storage/sabsddb.py:17-182`) | environment, map entity -> storage, memoized `initd` Deferreds | `factory.init`, `factory.get`, `storage.init` | called by every repository; `storage.init` calls `factory.get` for reference fields |
| entity storage (`sabsddb.py:184-580`) | primary database, secondary databases, `id_cache` | `put`, `remove`, `get`, `where` | pool; the storages of reference fields |
| in-memory storage (`storage/memory.py`) | dictionaries | the same interface, for tests | repository tests |
| repository (`core/entity/repository.py`) | `cache`, `new`, `deleted` | `add`, `get`, `remove`, `where`, `persist` | one storage, shared with the other repositories of the entity |
| entity framework (`core/entity/*.py`) | none | field descriptors, `Factory.create`, unpackers, validators | storage and services |
| services (`service/*.py`) | a few long-lived repositories; a fresh one in most methods | users, profiles, gomees, tags, authentication; friends, messages, invitations, targets are unfinished | repositories |
| REST resources (`resource/*.py`) | the time of the last render; the `AuthService` with its memoized `init` | authentication, permission check, handler, answer | services; the HTTP channel |
| HTTP channel (Twisted 8.2, `http.py:1257-1480`) | queue of requests, idle timer, `persistent` | first line, content, finish, connection lost | the resources' requests |
| start-up (`run_services.py`) | none | wires service, site and reactor | |
| console: Deferred (`defer/Deferred.as`) | callbacks, `called`, `paused`, `_runningCallbacks`, result | `addCallbacks`, `callback`, `errback`, `pause`, `unpause` | everything in the console that asks the server |
| console: markers (`MineGomeeMarkersController.as`, its base classes, `GomeeRepository.as`, `UserRepository.as`) | the map's layer, the markers known by identity, the chain of updates, the unit of work of a session | drop, save, remove a marker; update; sign in and out | server by HTTP; Deferred |
| Android client, C# services, YGML, Friend_APIs | programs of their own | | HTTP only, or not at all |

What makes the server hard is that nothing blocks: every method is a chain of
callbacks that is cut at every `callLater(0)` and every database call, so any
two requests interleave at those points; the database calls run on one worker
thread and come back through the reactor; results are memoized in Deferreds
that several callers share; entities are cached and shared as mutable objects;
a persist is several writes without a transaction around them; and requests are
pipelined on a connection.  The console has one thread, but between a request
and its answer its user may do anything, and a callback may re-enter the very
Deferred that runs it.

What makes each part correct:

* pool: every accepted call runs once, in order, and is answered; the shutdown
  loses nothing that was accepted before it.
* storage init: nobody works on a storage that is not ready; it happens once;
  a failure is told to exactly one of those who wait; the map settles.
* storage: answers are true of the database at some moment of the call; the
  cache settles on one instance; no reference is lost by writing back an
  instance that was not fully loaded.
* where: under concurrent writes the index walk misses nothing and invents
  nothing; a cursor stays open only where a call on it has failed.
* repository: persist's stages keep their order under failures; what is
  removed stays removed; the shared instance and the record agree.
* users: a login is stored twice only by calls that overlap; a profile has its
  user; an undisturbed update is found again, after failures and restarts too.
* tags: a duplicate needs a race; an undisturbed call leaves the gomee the
  names asked for, and one that fails removes nothing it should keep.
* REST and HTTP: answers in the order of the requests, but for the 400 that the
  channel itself writes ahead of them before it closes; as long as the connection
  lives, the answer of every request goes out unless its handler never fires, its
  error cannot be written, or it waits behind such a one; the idle timer running
  exactly when nothing is asked for.
* console: callbacks of a Deferred one at a time, none left behind; what the map
  shows and what the controller knows agree; sessions do not mix.

The hazards of the code, each at its line and with the properties that cover
it, are in `PROJECT.json`.

## 2. Modules

| Module | Models | Depends on |
|---|---|---|
| `SerialExecutor` | what the pool promises: calls are executed one at a time and answered in order | |
| `Pool`, `Pool_proofs` | `pool.py`: thread, queue, reactor, start and shutdown | refines `SerialExecutor` |
| `StorageInit`, `MCStorageInit`, `Storage_proofs` | factory and storage initialization, with failures | |
| `AbsddbStorage`, `Storage_proofs` | `get`, `put`, `remove` with `id_cache` and references | uses `SerialExecutor` in place of the pool |
| `IndexQuery`, `IndexQuery_proofs` | `where`: a cursor walk under concurrent writes and failing cursor calls | uses `SerialExecutor` |
| `Repository`, `MCRepository`, `Repository_proofs` | repositories of concurrent requests over one storage | the storage's operations, made coarse |
| `UserService`, `MCUserService`, `UserService_proofs` | `service/user.py`: `add_user`, `get_user_profile`, `update_user_profile`; storage failures, server restarts | `Repository` and `IndexQuery`, made coarse |
| `TagService`, `MCTagService`, `TagService_proofs` | `service/tag.py`: `set_gomee_tags`, and what `del_gomee` does to it | `Repository` and `IndexQuery`, made coarse |
| `HttpChannel` | `http.py`: the queue, the timer, the 400s and the end of a connection | |
| `RestRequest`, `MCRestRequest`, `RestRequest_proofs` | `resource/resource.py` and `service/auth.py`: a request from first line to answer | extends `HttpChannel` |
| `FlexDeferred`, `MCFlexDeferred`, `Console_proofs` | `defer/Deferred.as` | |
| `ConsoleMarkers`, `MCConsoleMarkers`, `Console_proofs` | the console's markers of the user's own gomees, with the server as it sees it | |

The composition is by contract.  `Pool` is proved to implement `SerialExecutor`,
and the storage modules are built on `SerialExecutor` (they take its actions
`Accept`, `Execute`, `Answer` as conjuncts; that they use it properly is proved:
`StorageUsesExecutor`, `QueriesUseExecutor`).  `Repository` stands on `AbsddbStorage` by
argument: each storage operation becomes one step somewhere between call and
answer, except that a load stays in two so that two loads may overlap.  The
services stand on `Repository` in the same way, and on `WhereAnswer` of
`IndexQuery`, which is proved: a `where` answers something between what had
the value all the time (`always`) and what had it at some moment (`ever`).
`TagService` takes just this interval; in `UserService` nothing is ever removed, so
a look at one moment is the same.  `RestRequest` extends `HttpChannel`: each of its
steps that touches the connection has the channel's action as a conjunct.

### How a module corresponds to the code

*Pool.*  `queue` is `Pool.__queue`, `worker` the program counter of the thread
(`unborn`, `test`, `wait`, `run`, `dead`), `current` the item it took,
`threadCalls` the reactor's queue, `reactor` its life (`init`, `running`,
`stopping`, `down`), `answer` which Deferreds have fired.  `Invoke` is
`invoke`; `Test`, `Take`, `Run` are the steps of `__thread_func_`; `Shutdown` is
the trigger `invoke(pool.stop)`, whose call is `StopCall`; `Deliver` is
`runUntilCurrent`.  `issued` and `due` are ghosts: which calls were made, and
which before the shutdown trigger.

*StorageInit.*  `env` is the factory's init (state, and who waits on `initd`),
`storages` the storage objects ever made, `entityMap` the factory's map,
`handed` what each request was given.  The four Berkeley DB phases of a
storage's init are counted in `opened`.  A Deferred that several callers share
is modelled as Twisted 8.2 (`src/yogomee_site_06.25.09/python/twisted/internet/defer.py:287-349`)
makes it: the first to wait gets the result or the failure, the later ones get
`None`, which a callback chain takes for success.

*AbsddbStorage.*  `pdb` is the primary database, `idCache` the `id_cache`
dictionaries, `objs` the instances made so far (an instance is its index, so
that identity of objects is visible).  Each client has one chain for its call
and one for the load of a reference; a chain's `pc` names the callback that is
due or the pool call it waits for.  `Result` and `Effect` are Berkeley DB.
`during` is a ghost: whether the record was there, and absent, since the chain
began.

*IndexQuery.*  `stored` gives the indexed field of every record, so a secondary
database is derived from it, as `associate` keeps it; `SetRange` and `NextDup`
are the two cursor moves.  A call on a cursor may raise: the errors pass by
`close_cursor`, which is a callback only, and the query fails with its cursor
open.  `always`, `ever` and `failures` are ghosts: what had the value during the
whole call, at some moment of it, and how many cursor calls have raised.

*Repository.*  `cache`, `new`, `deleted` are the repository's dictionaries.
`heap[id][r]` is the instance of `id` that request `r` made, by `add` or by a
load: a request makes at most one instance of an identity, so this names all
objects.  `pc` is the stage of persist; `calls` the storage calls under way.
`changed`, `puts`, `removed`, `holders` are ghosts.

*UserService.*  `users` and `profile` are the stored records, a user and its
profile being named by the `add_user` that makes them; `cached` is the
`id_cache` of the profiles, `inst` the instances that loads have made, `held` which
of them a call works on.  `pc` names the callback that is due: `persist` of a
repository with one new entity puts it twice (`put_new`, `put_cached`), hence
`put_user_again` and `put_profile_again`.  `Fail` is a storage call that raises,
`Restart` the end of the server: the records stay, `id_cache` and everything under
way are gone.  `before`, `solo`, `expected` are ghosts.

*TagService.*  `tags` and `links` (`GomeeTag`) are the stored records, `tagOf` the tag a
link refers to, `todo` the puts and removes under way, whose order is open.
The stages of `pc` are those of `set_gomee_tags` and of the two `persist`s in it;
`After` is their order.  `always` and `ever` carry the walks; `before` and
`rivals` are ghosts: the tags there at the call, and the calls that overlap it.

*HttpChannel, RestRequest.*  `requests` is `HTTPChannel.requests`, `complete` and
`finished` where its members are, `timed` and `saved` the timer of `TimeoutMixin`
and `_savedTimeOut`, `persistent` the channel's flag.  `received` and `sent` are
ghosts.  A bad request (a first line without three parts, too many headers, a
multipart part without its header: `http.py:1310-1314`, `1366-1370`, `699-711`) is in
the queue already when the channel finds it bad: `WriteBadRequest` puts `BadRequest` at
the end of `sent`, ahead of whatever is still worked on, and the connection is
`refused`: read from no more, but written to until it is gone.  Too many headers
of a request without content are followed by its `Render` all the same.  A finish of the first in the queue hands over to the next, which goes on
with all that are done (`RequestsDone`).  In `RestRequest`, `initd` is the memoized
init of a resource's `AuthService`, `time` the attribute `ResourceBase.time`; `pc`
goes through `init`, `fetch_user`, `sign`, `check`, `auth`, `answer`, where each step
may fail over to the answer.  `mute` collects the requests that nobody will
answer: a handler that never schedules its chain (`target.py:118`), and an error
that `write_fail` itself cannot write (`resource.py:56`).

*FlexDeferred.*  `stack` is the call stack as far as it consists of
`_runCallbacks`: a frame is a Deferred and a place in the function.  When the
top is a callback of the program, or the stack is empty, the program may add
callbacks, fire and pause, and return a Deferred that does not wait for this one
(`MayWait`).  A callback is the program's (`User`) or the `_continue` of a Deferred,
under that Deferred's name.  `pauses` and `adds` count what the program did.

*ConsoleMarkers.*  `layer` is what the map shows, `markers` the controller's
dictionary, `kind` which handlers a marker has (draft, saved, listed), `data`
and `ownId` the gomee it has and that gomee's identity.  `post`, `delete` and
`listing` are the requests under way, each with the stage it is in at the
server or on its way back; any may be lost or refused.  A session is a
`UnitOfWork`; `SignIn` is the setter `uow` with `clearMarkers`, which may raise half
way.  `owner` and `stored` are the server, as far as the console can tell.
`raised`, `doubled`, `resaved` are ghosts.

## 3. Runs

| Run | Instance | What it shows |
|---|---|---|
| `pool` | 3 calls | which calls are answered around start and shutdown, in order and once; that the process ends; refinement of `SerialExecutor` |
| `storage_init` | 3 requests, entities User and Friend, Friend with two fields of type User, any call failing | ready before use, each failure told to exactly one, init once, the map settles, every request ends |
| `same_storage` (violation) | 3 requests for one entity | a later `factory.get` may answer with another storage |
| `storage` | 2 clients with 2 calls each, an entity and the one it refers to, 2 values, any initial records | truthful answers, references preserved, the cache settles, every call ends |
| `fetched_parent` (violation) | 2 clients, `get` only | a `get` may answer with an instance whose reference is still None |
| `index_query` | 1 query, 1 writer with 3 writes, 3 identities, 2 values, 1 failing call | the walk is complete and sound, without duplicates, ends, and leaves no more cursors open than calls have failed |
| `repository` | 2 requests, 2 identities, 2 values, 1 failing put; symmetry | order of stages, completeness of success, resurrection only by holders, instance and record agree |
| `user_service` | 2 `add_user` for one login, 3 uses of a profile, 1 fault or restart; symmetry | a login twice only by overlap, users before profiles, an undisturbed update is found |
| `tag_service` | 2 requests with up to 2 of 2 names, 2 gomees, 1 fault; symmetry | where duplicates come from, the names of an undisturbed call, nothing lost by a failure |
| `rest_request` | 3 requests pipelined on 1 connection to 1 resource, 1 tick of the clock | order of answers and the 400 out of turn, idle timer, reported time, which answers must go out |
| `console_markers` | 2 sessions of ann, bob or Guest, 2 gomees, 2 markers, 2 posts, 1 delete; symmetry and a view | what the map shows and what the controller knows agree, sessions stay apart |
| `flex_deferred` | 3 Deferreds, 6 callbacks, 1 pause of each; symmetry | callbacks one at a time, none of a Deferred that waits for another, none left behind |

Why these bounds are enough to meet the interesting cases:

* Pool: three calls can be one answered, one queued behind another, and one
  behind the stop request.  The proofs remove the bound.
* StorageInit: three requests make a first waiter and two later ones on one
  Deferred, which is where Twisted treats waiters differently; two fields of
  one type make the overlap inside a single init.  The proofs are for any requests,
  entities and fields.
* AbsddbStorage: two clients and one reference give overlapping loads, a load
  overlapping a remove, and a reference removed during its load; two calls each
  let a client see the traces of an overlap.  The proofs remove the bound.
* IndexQuery: three identities under one value are a first, a middle and a
  last duplicate; three writes can take the entry under the cursor away, bring
  it back, and change one ahead of the walk.  Two values give a next key that
  `DB_SET_RANGE` may find instead.  The proofs remove the bound.
* Repository: of two identities both may be stored, one, or none (so an `add`
  finds a fresh one); with two requests one can hold what the other removes.
  The proofs remove the bound.
* UserService: two calls of `add_user` are the race for a login; of three uses two
  can make two instances of a profile or leave a failed change in the shared
  one, and the third finds what they have left.  The proofs remove the bound
  for logins and profiles.
* TagService: two requests make the first duplicate of a tag; two names each
  let one be kept while another is removed, and let a call name one twice.
* RestRequest: of three pipelined requests the last two can be done before the
  first, one can arrive while another is answered, and a third that is bad is
  refused while two are worked on, one of which may hold up the other.  The
  requests differ in nothing but when they come, so `MCRestRequest` fixes the order
  of their first lines (`InOrder`); nothing forces a client to send one, so no fair
  step is cut off.  Connections share nothing,
  and resources only what is kept per resource; the proofs are for any number.
* ConsoleMarkers: two gomees and two markers, so that a wrong one can be
  forgotten; two posts for a draft saved twice; two sessions for a late answer.
  The view leaves out what is left of a marker that is gone; drafts of all
  sessions, users other than the guest, gomees and posts are interchangeable.
* FlexDeferred: with three Deferreds one can wait for one that waits, be
  continued while it runs, and be returned twice.

`MaxOps`, `MaxWrites`, `MaxFailures`, `MaxFaults`, `MaxNames`, `MaxTime`,
`MaxSession`, `MaxAdds` and `MaxPauses` bound how often clients call, writers
write, calls and servers fail, names are given, the clock ticks, users sign in,
and callbacks are added and paused; nothing else is capped.  `CHECK_DEADLOCK
FALSE` is set because every modelled system stops when its clients have no more
to ask.

The two violations are statements of the repository's own tests that the code
keeps only without concurrency: `test_return_same_on_second_call`
(`test_sabsddb.py:42-48`) and `test_has_actual_parent` (`test_sabsddb.py:303-304`).

### Fairness

Weak fairness is assumed of the pool's thread and the reactor
(`WF(Execute)`, in `IndexQuery` `WF(Execute \/ Raise)`, and `WF(EventLoop)`; in `Pool`, `WF(Worker)` and `WF(Deliver)`; in
`StorageInit` `WF(Reactor)`).  The operating system schedules the thread, a
Berkeley DB call returns or raises, and the reactor runs whatever is due each
time round its loop (`src/yogomee_site_06.25.09/python/twisted/internet/base.py:718-739`).
In `RestRequest` each request's own step and the creation of root and guest are
weakly fair: each stands for a chain of such calls, which ends by `EveryCallEnds`
and `WhereEnds`.  No fairness is assumed of clients, of start and shutdown, of
failures, of a lost connection or of the clock.  `Repository`, `UserService`,
`TagService`, `ConsoleMarkers` and `FlexDeferred` are checked for safety only:
whether their calls end is decided by the storage, the network or the user.

## 4. Proofs

All proofs are for arbitrary constants; the only assumptions are the named
`ASSUME`s of the modules (that model values differ, that bounds are naturals, in
`IndexQuery` that identities are positive numbers, in `StorageInit` that a field
has an owner and a type, in `AbsddbStorage` that the identities of entities with a
reference field are not those of the entities they refer to, that `Ops` names
operations of the storage, and that None and a Failure are not numbers, and None
no identity and no record, and in `HttpChannel` that the 400 is no request).  Type correctness is proved for all of these modules and,
but for `StorageInit` and `AbsddbStorage`, not checked in their runs again.

*Pool_proofs.*  `PoolInv` says in which single place of queue, worker, reactor
queue and answered every call is, and that the stop request separates the
calls that are due from the late ones.  `AnsweredBeforeDown` alone is not
inductive: that nothing due is behind the stop request, and that the worker
takes nothing after it, must be carried along from the shutdown trigger.  From
`PoolInv` follow `PoolTypes`, `NoCallLeftBehind` (`AnsweredBeforeDown`),
`LateCallsUnanswered`, `NoCallFiredTwice` (an action property) and
`PoolRefinesExecutor`: with `waiting` the worker's item followed by the queue and
`replies` the reactor's queue, each step of the pool is one of `SerialExecutor` or a
stutter.

*Storage_proofs, StorageInit.*  `StartInv` says who waits on which Deferred: a request is in
`envwait` or `initwait` just when it is, once, among the waiters of the environment or of
the storage it was handed (`EnvInv`, `RequestInv`, `StorageInv`), and there are no
waiters before an init has begun or after it has ended.  What a storage has in each
state of its init is in `StorageInv`, and `Refers` that an id leads to a storage of
the right entity, in the map, in a field and in the hand of a request alike.  An
init that fails empties its list of waiters and tells the head of it, so
`ReportInv` and `EnvInv` can say that whoever was told was told alone; that somebody
was, and stays told, is `ToldInv`, which rests on there being a waiter as long as an
init is under way.  From these follow `StorageTypes`, `ReadyStorages` (`ReadyBeforeUse`) and `ToldOnce`
(`FailureReportedOnce`).  `NeverBack` (`NothingGoesBack`, two action properties) has
one lemma per step: each moves an init along `EnvMoves` or `StorageMoves`, and begins no
get of an entity that has a storage in the map (`Settled`).  Many storages may be
made in one step, when the environment opens for all who wait: `StoragesMade`.

*Storage_proofs, AbsddbStorage.*  `StoreInv` has two parts.  `TidyInv` says what a chain
works with in each state (`ChainOK`), that the chain of a reference is there just
while its call waits for it, over an instance whose reference is still None
(`ClientOK`) and that no two calls have the same such instance (`Apart`), that a
chain waits for one call (`LineOK`), and what a reply under way still says after
other clients' writes (`ReplyOK`): not that the record is there, but that it was
since the chain began.  `FreshOK` is for `Create`: of an identity that is not
stored and has no instance nothing is under way but questions whether it exists.  The
second part says that there is a function `R` from identities to references that
everything agrees with which carries a reference in whatever form (`RefsOK`): the
records, the instances that are loaded, the data of a put in the pool's queue, a
record on its way to the event loop, and the chain that loads a reference.
`ReferencesPreserved` alone is far from inductive, for a put writes what was loaded
many steps before, and a record may be gone in between and come back by the put of
an instance that was held; so `R` is of all times, and only `Create` changes it, where
it is `Fresh`.  The steps of a chain go through one lemma each that says the other
clients keep what they have (`ClientStep`) and the references do (`RefsStep`);
what all ends of chains have in common is `EndKeeps`.  From `StoreInv` follow
`AbsddbTypes`, `HalfLoadedHolds` (`HalfLoadedIsLoading`), `ReferencesHold`
(`ReferencesPreserved`), `TruthfulHolds` (`Truthful`) and `CacheSettled`
(`CacheSettles`), of which all but the first two are action properties, and
`StorageUsesExecutor`: each step is a step of `SerialExecutor` or a stutter.

*IndexQuery_proofs.*  `IndexInv` says that a query or writer has at most one call
in the executor (`LineInv`), what a query has collected while it walks
(`QueryInv`: sorted, everything up to the cursor that it must answer, nothing that
never had the value), and what a reply under way still says (`ReplyInv`).  The last
is the heart: a reply was true when the call was executed, and writes have
happened since; what survives them is that it skips nothing of `always` and
points into `ever`.  `FailureInv` counts: each query in trouble has a failed call of
its own.  From it follow `WhereAnswersRight` and `OpenCursorsBounded`.

*IndexQuery_proofs, over the pool.*  `CallersNeverHeldUp`: who is about to make a
call has none under way, so the condition of `Accept` holds nobody up.
`QueriesUseExecutor`: with that and the types of the outcomes each step of
`IndexQuery` is a step of `SerialExecutor` or a stutter - the other half of the
contract whose first half is `PoolRefinesExecutor`.

*Repository_proofs.*  `RepositoryInv` says which storage calls a request may
have under way at each stage (`CallsFit`) and what the earlier stages have
achieved (`StagesDone`).  `AddsBeforeRemovals` needs it because a removal may
take effect long after its request has failed: what must be carried is that a
remove call exists only once everything new is stored.  Lemma `Launched` covers
the stages that are skipped because they have nothing to do.  From it follow
`RepositoryTypes`, `NothingLostInReplacing` and `SuccessfulPersistIsComplete`.

`RemovedInv` is for `RemovedComeBackByHolders` (`BackOnlyByHolders`, an action
property).  A put under way may be of an entity that was removed since; that its
request held the entity then has to be known from the moment of the removal on
(`HoldersKnown`), and that it is not the put of a new entity needs that a request
adds what nobody has seen (`Unseen`) and puts it once (`PutsOnce`).  `AgreeInv` is for
`SharedInstanceAgrees` (`InstanceAgrees`): the only instance of an entity and its
record agree, or some request that changed it still owes the put (`Owes`).  The
property speaks only of states where all who changed it have succeeded; the
invariant must say of every stage before that why the debt is paid in the end.

*UserService_proofs.*  `LoginInv`: whoever has looked and found a login free has
found it free of all users there were at its call; `StageInv`: what each stage of
`add_user` has stored.  They give `NoLoginTwice` and `UserComesFirst`.
`UndisturbedUpdateFound` (`LastUpdateFound`) takes three more: an undisturbed call
is alone with its profile (`SoloInv`), the instances that are cached and held are of
the right profile (`InstanceInv`), and as long as it is known what a profile should
be, the record and all instances in use have it and nobody is about to write
another (`ExpectedInv`).

*TagService_proofs.*  `Types` says here that every link and tag a request works on
is one that it has made or found (`OwnIsMade`, `WorkIsMade`).  Overlap is
symmetric (`RivalsInv`), and what is under way in a stage is the stage's own
(`WorkInv`).  `TagsInv` carries for each tag why it may be a duplicate, and for each
call still at work whose tags it cannot have seen; it gives `DuplicatesNeedARival`
(`DuplicatesSpreadOnly`).  `LinksInv` says for a call that is alone with its gomee
which links the gomee has at each stage, between the old ones and the new; it
gives `NamesGiven` (`NamesAsWanted`) and `NamesSurvive` (`NoNameLost`).  All of it is
about sets that only grow or only shrink during a stage, in whatever order its puts
and removes come.

*RestRequest_proofs.*  `ChannelInv` adds to the properties of the channel that
what was received is what was sent followed by the queue, with one 400 somewhere in
what was sent when the connection is no longer open (`Order`), that at most one
request of a queue is incomplete, and then a connection that is open is kept
(`QueueInv`), and that an open channel has or remembers its timer (`TimerInv`).  The hard step is a finish
that hands over: the requests behind it that are done are a prefix of the
queue.  From it `AnswersGoOutInOrder` and `TimerOfIdleChannels`; with `TimeInv`,
`TimeOfAnswers`; and `BuiltinUsersFirst` (`BuiltinUsersMade`, which is proved and in
no run).

*Console_proofs, FlexDeferred.*  `StackInv` relates the frames of the stack and the flags
`_runningCallbacks`: only the top frame can be at the entry or at the head of its
loop, a frame in a callback has its Deferred's flag set, and one at the head of
the loop has not, so no second frame of a Deferred gets past the entry.  It
gives `NoneInside` (`OneAtATime`).  `ChainInv` adds the chains of Deferreds that wait
for one another: a `_continue` is held once (`HeldOnce`), `paused` counts exactly
the pauses and that wait, and a Deferred that has fired and could run has a frame
on the stack that will see to it (`Awake` in `ChainOf`).  The last is the point: with
nothing on the stack nothing is left to do, `NoneLeftBehind` (`NothingLeftBehind`).
`SettledResults` (`ResultsAreSettled`, an action property) follows from it too: a frame
that takes a callback is one whose Deferred waits for nobody.  It speaks of waiting
only: a callback that pauses its own Deferred does not stop the loop that runs
it, since `paused` is tested at the entry alone (`Deferred.as:300`).

*Console_proofs, ConsoleMarkers.*  `ApartInv` adds that what a listing has found belongs to
the listing's user for good; it gives `NoneFromEarlierSessions` (`SessionsApart`).
`MarkersInv` holds as long as no draft is saved a second time: a marker known by an
identity is on the map and has that identity, drafts are not known, a post under way
is of a draft that no other post is of, and a delete is of the gomee its marker
stands for (`Tidy`).  Without the two about requests, an answer could register a
second marker or remove the wrong one.  It gives `KnownMarkersShown` (`KnownIsShown`)
and `ShownMarkersKnown` (`ShownIsKnown`).

`StartInv`, `StoreInv`, `RemovedInv`, `AgreeInv` and `ChainInv` were checked by TLC on
the instances of section 3 before they were proved, `StoreInv` also on one with two
entities to refer to.

Only model-checked: the liveness properties (`EveryCallAnswered`, `ShutdownCompletes`,
`EveryRequestEnds`, `EveryCallEnds`, `WhereEnds`, `EveryRequestAnswered`), since fairness
and ENABLED are out of the prover's reach.  Every safety property that a passing run
checks is proved.

## 5. What the models leave out

* `callLater(0)`: the hops of a chain between two pool calls are merged where
  no other chain can tell; where one can (a load between read and `id_cache`,
  `where` between cursor and first key) they are steps of their own.  The order
  of two hops that become due at the same time is left open.
* `AbsddbStorage` has one storage per entity; that there may be several is
  `StorageInit`'s `SameStorage`.  `Factory.create` is taken to succeed on the fields of
  a record.  What a record holds is a value and the identity of the entity
  referred to: pickling turns an instance into those (`put` unpacks, `get` looks
  the reference up again), and nothing else about the bytes matters to a property.
* `Repository`: put reads the instance when it writes.  In the code it reads it
  a few turns earlier, but puts of one instance reach the pool in the order in
  which they read it, so the record ends the same.  `Repository.init` is
  `StorageInit`'s subject.  A repository is used for one request: a second
  `persist` would remove again what `deleted` still names (`repository.py:124`),
  and no service does that.
* A crash between two writes: every put is a transaction of its own.
  `UserService` has the restart as an action; the properties of the other modules
  that relate records (`AddsBeforeRemovals`, `NoNameLost`) are invariants, so they
  hold of whatever a crash leaves.
* Deadlock in Berkeley DB: the environment has no locking subsystem
  (`sabsddb.py:38-43`), all calls run on one thread.
* What handlers answer.  `RestRequest` says whether and when a request is
  answered; so the Failure that a listing puts among its answers
  (`resource/gomee.py:53`) is a listed hazard without a property.
* `HttpChannel`: headers and content of a request come in one step, unless the
  headers are too many, and the timer has no length: it may fire (`ConnectionLost`)
  whenever it runs.  A line or a part that makes the parser raise ends the
  connection, which is `ConnectionLost` too.  A pipelined request that
  asks to close sets `persistent` for the channel at once (`http.py:1463`), so
  requests before it may lose their connection with their answers unsent; the model has this
  behaviour, and `AnswersInOrder` speaks of kept connections for it.
* `FailureReportedOnce` says who is told of a failed init.  That the others are let
  through to what is not open is what the code does; their own calls may then fail
  (`Answer` in `StorageInit`).
* `KnownIsShown` and `ShownIsKnown` say nothing once a draft was saved twice
  (`resaved`): nothing in the code says what the second answer should leave behind.
* Console: a `GET /me` that failed stays memoized (`UserRepository.as:43`), so every
  later addGomee of the session fails: part of `PostFails`.  `saveGomee` changes a
  gomee's contents, which are not modelled.  The markers of friends and searches
  use the same base classes over listings only; views, profile charts and the map
  provider are user interface.
* Field validation and packing: sequential functions of one value.
  `storage/memory.py`: sequential, used by tests only.  `friend.py`, `message.py`,
  `invitation.py`, `target.py`: unfinished, most methods answer None or fail on an
  undefined name.
* The Android client, the C# services, YGML and Friend_APIs are programs of their
  own that share no code with the server.  Most of the repository's lines are
  the deployed copies of the site with all of Twisted, Zope and other third-party
  code; of these only what the server stands on is modelled.  So the share of the
  repository's lines that the models cover is small while the server's core is covered.

## 6. Plan

Done, in this order: Pool with its contract and proofs; StorageInit,
AbsddbStorage, IndexQuery, Repository, UserService, TagService, HttpChannel and
RestRequest, ConsoleMarkers and FlexDeferred, each with its proofs.

What would add most next:

1. A refinement of `Repository`'s coarse storage by `AbsddbStorage`, which is an
   argument so far.
2. The same for the `where` that `TagService` and `UserService` take from `IndexQuery`.
3. The answers of listings (`resource/gomee.py`), with what a DeferredList makes of
   failures.
