----------------------------- MODULE IndexQuery -----------------------------
(***************************************************************************)
(* core/storage/sabsddb.py, AbsddbStorage.where, lines 486-580: the        *)
(* identities of the entities whose indexed field has a given value, read  *)
(* with a cursor on a secondary database.  Opening the cursor, each step   *)
(* and closing it are pool calls of their own, and the puts and deletes of *)
(* other requests take effect between them.                                *)
(*                                                                         *)
(* A secondary database is kept by Berkeley DB: its duplicates under one   *)
(* key are the identities of the primary database, sorted (DB_DUPSORT), so *)
(* they are numbers here, and values, sorted keys too, are numbers.  The   *)
(* field asked for is indexed: for any other where answers the empty list  *)
(* at once (line 567).                                                     *)
(***************************************************************************)
EXTENDS Naturals, Sequences, FiniteSets

CONSTANTS Queries,   \* the calls of where
          Writers,   \* the other requests
          Ids,       \* identities, in the order of their keys
          Vals,      \* values of the indexed field, in the order of their keys
          MaxWrites, \* how many puts and deletes a writer makes
          MaxFailures, \* how many cursor calls raise
          None, Failure

ASSUME QueryAssumption == /\ Ids \subseteq Nat \ {0}
                          /\ Vals \subseteq Nat /\ None \notin Vals
                          /\ Queries \cap Writers = {}
                          /\ MaxWrites \in Nat /\ MaxFailures \in Nat
                          /\ Failure # None
                          /\ {None, Failure} \cap [key : Vals, id : Ids] = {}

Chains   == Queries \cup Writers
Outcomes == {None, Failure} \cup [key : Vals, id : Ids]

VARIABLES stored,   \* the indexed field of every stored entity, None if absent
          waiting,  \* the executor: chains with a call in the pool's queue
          replies,  \* the executor: results on their way to the event loop
          pc,       \* where each chain is
          value,    \* the value each query asks for
          cursor,   \* the last identity each cursor was on, 0 for none
          open,     \* the queries whose cursor is open
          ids,      \* the identities each query has collected
          write,    \* the put or delete of each writer: an id and its new value
          writes,   \* how many writes each writer has made
          failures, \* how many cursor calls have raised
          always,   \* what had the query's value ever since it was called
          ever      \* what had it at some moment since

vars == <<stored, waiting, replies, pc, value, cursor, open, ids, write, writes, failures,
          always, ever>>

Executor == INSTANCE SerialExecutor WITH Calls <- Chains, Outcomes <- Outcomes

TypeOK ==
  /\ stored \in [Ids -> Vals \cup {None}]
  /\ waiting \in Seq(Chains) /\ replies \in Seq([call : Chains, outcome : Outcomes])
  /\ pc \in [Chains -> {"idle", "called", "get_cursor", "opened", "set_key", "fetch_next",
                        "close", "answered", "failed", "write"}]
  /\ \A q \in Queries : pc[q] # "write"
  /\ \A w \in Writers : pc[w] \in {"idle", "write"}
  /\ value \in [Queries -> Vals]
  /\ cursor \in [Queries -> Ids \cup {0}] /\ open \subseteq Queries
  /\ ids \in [Queries -> Seq(Ids)]
  /\ write \in [Writers -> [id : Ids \cup {None}, val : Vals \cup {None}]]
  /\ writes \in [Writers -> 0..MaxWrites] /\ failures \in 0..MaxFailures
  /\ always \in [Queries -> SUBSET Ids] /\ ever \in [Queries -> SUBSET Ids]

Init ==
  /\ stored \in [Ids -> Vals \cup {None}]
  /\ waiting = <<>>
  /\ replies = <<>>
  /\ pc = [ch \in Chains |-> "idle"]
  /\ value \in [Queries -> Vals]
  /\ cursor = [q \in Queries |-> 0]
  /\ open = {}
  /\ ids = [q \in Queries |-> <<>>]
  /\ write = [w \in Writers |-> [id |-> None, val |-> None]]
  /\ writes = [w \in Writers |-> 0]
  /\ failures = 0
  /\ always = [q \in Queries |-> {}]
  /\ ever = [q \in Queries |-> {}]

Having(v) == {id \in Ids : stored[id] = v}

-----------------------------------------------------------------------------
(* Other requests: storage.put and storage.remove as far as the index can  *)
(* tell.                                                                   *)

Write(w, id, v) ==
  /\ pc[w] = "idle"
  /\ writes[w] < MaxWrites
  /\ writes' = [writes EXCEPT ![w] = @ + 1]
  /\ write' = [write EXCEPT ![w] = [id |-> id, val |-> v]]
  /\ pc' = [pc EXCEPT ![w] = "write"]
  /\ Executor!Accept(w)
  /\ UNCHANGED <<stored, value, cursor, open, ids, failures, always, ever>>

-----------------------------------------------------------------------------
(* The pool's thread: Berkeley DB.                                         *)

Least(S) == CHOOSE x \in S : \A y \in S : x <= y

\* DB_SET_RANGE: the first entry whose key is not smaller.
SetRange(v) ==
  LET keys == {stored[id] : id \in {i \in Ids : stored[i] # None /\ stored[i] >= v}}
  IN IF keys = {} THEN None
     ELSE [key |-> Least(keys), id |-> Least(Having(Least(keys)))]

\* DB_NEXT_DUP: the next identity under the same key, also when the entry the
\* cursor is on was deleted.
NextDup(v, at) ==
  LET after == {id \in Having(v) : id > at}
  IN IF after = {} THEN None ELSE [key |-> v, id |-> Least(after)]

Execute ==
  /\ waiting # <<>>
  /\ LET ch == Head(waiting) IN
       /\ Executor!Execute(CASE pc[ch] = "set_key"    -> SetRange(value[ch])
                             [] pc[ch] = "fetch_next" -> NextDup(value[ch], cursor[ch])
                             [] OTHER                 -> None)
       /\ stored' = IF pc[ch] = "write" THEN [stored EXCEPT ![write[ch].id] = write[ch].val]
                    ELSE stored
       /\ open' = CASE pc[ch] = "get_cursor" -> open \cup {ch}
                    [] pc[ch] = "close"      -> open \ {ch}
                    [] OTHER                 -> open
       /\ cursor' = IF pc[ch] = "close" THEN [cursor EXCEPT ![ch] = 0] ELSE cursor
  /\ always' = [q \in Queries |-> always[q] \cap {id \in Ids : stored'[id] = value[q]}]
  /\ ever' = [q \in Queries |-> IF pc[q] \in {"idle", "answered", "failed"} THEN ever[q]
                                ELSE ever[q] \cup {id \in Ids : stored'[id] = value[q]}]
  /\ UNCHANGED <<pc, value, ids, write, writes, failures>>

\* A cursor call that raises.
Raise ==
  /\ waiting # <<>> /\ Head(waiting) \in Queries
  /\ failures < MaxFailures
  /\ failures' = failures + 1
  /\ Executor!Execute(Failure)
  /\ UNCHANGED <<stored, pc, value, cursor, open, ids, write, writes, always, ever>>

-----------------------------------------------------------------------------
(* The event loop: where.                                                  *)

\* storage.where(field = value).
Where(q) ==
  /\ pc[q] = "idle"
  /\ pc' = [pc EXCEPT ![q] = "called"]
  /\ always' = [always EXCEPT ![q] = Having(value[q])]
  /\ ever' = [ever EXCEPT ![q] = Having(value[q])]
  /\ UNCHANGED <<stored, waiting, replies, value, cursor, open, ids, write, writes, failures>>

\* get_cursor, one callLater later.
GetCursor(q) ==
  /\ pc[q] = "called"
  /\ pc' = [pc EXCEPT ![q] = "get_cursor"]
  /\ Executor!Accept(q)
  /\ UNCHANGED <<stored, value, cursor, open, ids, write, writes, failures, always, ever>>

Answered(ch, at) ==
  /\ replies # <<>>
  /\ Head(replies).call = ch /\ Head(replies).outcome # Failure
  /\ pc[ch] = at

Outcome == Head(replies).outcome

\* The cursor is there: fetch schedules set_key.
CursorOpened(q) ==
  /\ Answered(q, "get_cursor")
  /\ Executor!Answer(q, Outcome)
  /\ pc' = [pc EXCEPT ![q] = "opened"]
  /\ UNCHANGED <<stored, value, cursor, open, ids, write, writes, failures, always, ever>>

SetKey(q) ==
  /\ pc[q] = "opened"
  /\ pc' = [pc EXCEPT ![q] = "set_key"]
  /\ Executor!Accept(q)
  /\ UNCHANGED <<stored, value, cursor, open, ids, write, writes, failures, always, ever>>

\* An entry of the value: its identity is collected and the next duplicate is
\* asked for in the same turn; anything else ends the walk.
Collect(q, more) ==
  /\ pc' = [pc EXCEPT ![q] = IF more THEN "fetch_next" ELSE "close"]
  /\ IF more
     THEN /\ ids' = [ids EXCEPT ![q] = Append(@, Outcome.id)]
          /\ cursor' = [cursor EXCEPT ![q] = Outcome.id]
     ELSE UNCHANGED <<ids, cursor>>
  /\ Executor!AnswerThenAccept(q, Outcome)
  /\ UNCHANGED <<stored, value, open, write, writes, failures, always, ever>>

\* set_key without the comparison of the key that was found.
KeySetUnchecked(q) ==
  /\ Answered(q, "set_key")
  /\ Collect(q, Outcome # None)

\* set_key without the test for None: result[0] raises, though no call has failed.
KeySetNoneRaises(q) ==
  /\ Answered(q, "set_key")
  /\ IF Outcome # None
     THEN Collect(q, Outcome.key = value[q])
     ELSE /\ pc' = [pc EXCEPT ![q] = "failed"]
          /\ Executor!Answer(q, Outcome)
          /\ UNCHANGED <<stored, value, cursor, open, ids, write, writes, failures, always, ever>>

\* set_key's callback: DB_SET_RANGE may have found a greater key.
KeySet(q) ==
  /\ Answered(q, "set_key")
  /\ Collect(q, Outcome # None /\ Outcome.key = value[q])

\* A where that answers at the end of the walk and never closes its cursor.
FetchedNoClose(q) ==
  /\ Answered(q, "fetch_next")
  /\ IF Outcome # None
     THEN Collect(q, TRUE)
     ELSE /\ pc' = [pc EXCEPT ![q] = "answered"]
          /\ Executor!Answer(q, Outcome)
          /\ UNCHANGED <<stored, value, cursor, open, ids, write, writes, failures, always, ever>>

\* fetch_next's callback.
Fetched(q) ==
  /\ Answered(q, "fetch_next")
  /\ Collect(q, Outcome # None)

\* The cursor is closed and where answers.
CursorClosed(q) ==
  /\ Answered(q, "close")
  /\ Executor!Answer(q, Outcome)
  /\ pc' = [pc EXCEPT ![q] = "answered"]
  /\ UNCHANGED <<stored, value, cursor, open, ids, write, writes, failures, always, ever>>

\* A failure goes past the callbacks that are left, close_cursor among them.
Failed(q) ==
  /\ replies # <<>>
  /\ Head(replies) = [call |-> q, outcome |-> Failure]
  /\ Executor!Answer(q, Failure)
  /\ pc' = [pc EXCEPT ![q] = "failed"]
  /\ UNCHANGED <<stored, value, cursor, open, ids, write, writes, failures, always, ever>>

Written(w) ==
  /\ Answered(w, "write")
  /\ Executor!Answer(w, Outcome)
  /\ pc' = [pc EXCEPT ![w] = "idle"]
  /\ UNCHANGED <<stored, value, cursor, open, ids, write, writes, failures, always, ever>>

-----------------------------------------------------------------------------
EventLoop == \/ \E q \in Queries : \/ GetCursor(q) \/ CursorOpened(q) \/ SetKey(q)
                                   \/ KeySet(q) \/ Fetched(q) \/ CursorClosed(q) \/ Failed(q)
             \/ \E w \in Writers : Written(w)

Next == \/ \E q \in Queries : Where(q)
        \/ \E w \in Writers, id \in Ids, v \in Vals \cup {None} : Write(w, id, v)
        \/ Execute \/ Raise
        \/ EventLoop

\* As in AbsddbStorage: the pool's thread and the event loop keep working.
Spec     == Init /\ [][Next]_vars
FairSpec == Spec /\ WF_vars(Execute \/ Raise) /\ WF_vars(EventLoop)

-----------------------------------------------------------------------------
(* Properties.                                                             *)

Collected(q) == {ids[q][i] : i \in DOMAIN ids[q]}

\* Under concurrent writes where answers with nothing that never had the
\* value since it was called, and misses nothing that had it all the time
\* (sabsddb.py:505-535).  No identity comes twice, not even one whose entity
\* leaves the value and comes back to it behind the cursor: the caller would
\* load it twice (sabsddb.py:125: DB_DUP | DB_DUPSORT).
WhereAnswer ==
  \A q \in Queries : pc[q] = "answered" =>
    /\ Collected(q) \subseteq ever[q]
    /\ always[q] \subseteq Collected(q)
    /\ \A i, k \in DOMAIN ids[q] : i < k => ids[q][i] < ids[q][k]

\* A cursor is open only inside a where that has not answered yet, or for ever,
\* after a failed call of that where: close_cursor is a callback and no errback.
\* Berkeley DB keeps an open cursor's page pinned (sabsddb.py:549-562).
CursorsClosed ==
  /\ \A q \in open : pc[q] \notin {"idle", "called", "answered"}
  /\ Cardinality({q \in open : pc[q] = "failed"}) <= failures

\* Every where answers, whatever is written meanwhile to a finite set of
\* identities: the walk cannot be kept going by updates.  It fails only when a
\* cursor call has.
WhereEnds ==
  \A q \in Queries : pc[q] = "called" ~> \/ pc[q] = "answered"
                                         \/ pc[q] = "failed" /\ failures > 0

=============================================================================
